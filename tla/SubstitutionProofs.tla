------------------------- MODULE SubstitutionProofs -------------------------
(***************************************************************************)
(* Theorems about Substitution, for every alphabet, every set of templates *)
(* and variables of any length, and every size of the buffers: replacing   *)
(* the variables one by one gives what reading the template once gives.    *)
(* The argument is that a replacement changes the string and not its       *)
(* expansion.                                                              *)
(***************************************************************************)
EXTENDS Substitution, Integers, SequenceTheorems, WellFoundedInduction, TLAPS

-----------------------------------------------------------------------------
(* Induction, from the end of a string to its beginning.                   *)

\* A set of naturals has a least member.
LEMMA LeastNatural ==
  ASSUME NEW T \in SUBSET Nat, T # {}
  PROVE  \E n \in T : \A m \in T : n <= m
PROOF
<1>. DEFINE R == OpToRel(<, Nat)
<1>1. \E n \in T : \A m \in T : ~ (<<m, n>> \in R)
  BY NatLessThanWellFounded, WFMin, Zenon
<1>2. \A a, b \in Nat : a < b => <<a, b>> \in R
  BY DEF OpToRel
<1>. HIDE DEF R
<1>3. PICK n \in T : \A m \in T : ~ (<<m, n>> \in R)
  BY <1>1
<1>4. \A m \in T : ~(m < n)
  BY <1>2, <1>3
<1>. QED
  BY <1>4

\* A set of positions has a last one.
LEMMA LastPosition ==
  ASSUME NEW L \in Nat, NEW T \in SUBSET (1 .. L), T # {}
  PROVE  \E p \in T : \A q \in T : q <= p
PROOF
<1>. DEFINE D == {n \in Nat : \E p \in T : n = L - p}
<1>1. \A p \in T : p \in Int /\ L - p \in Nat
  OBVIOUS
<1>2. D \in SUBSET Nat /\ D # {}
  BY <1>1
<1>3. PICK n \in D : \A m \in D : n <= m
  <2>. HIDE DEF D
  <2>. QED
    BY <1>2, LeastNatural
<1>4. PICK p \in T : n = L - p
  BY <1>3
<1>5. ASSUME NEW q \in T PROVE q <= p
  <2>1. L - q \in D
    BY <1>1
  <2>2. n <= L - q
    BY <1>3, <2>1
  <2>. QED
    BY <1>1, <1>4, <2>2
<1>. QED
  BY <1>5

\* Parts of a string are put together in any order.
Regroups(a, b, c) == a \o (b \o c) = (a \o b) \o c

LEMMA Regroup ==
  ASSUME NEW a \in Seq(Chars), NEW b \in Seq(Chars), NEW c \in Seq(Chars)
  PROVE  Regroups(a, b, c)
PROOF
  BY ConcatAssociative, SMTT(30) DEF Regroups

-----------------------------------------------------------------------------
(* Names and where they occur.                                             *)

N(k) == Name(variables[k])
At(k, s, p) == NameAt(variables[k], s, p)

\* What the types say of the variables.
LEMMA VariablesOf ==
  ASSUME variables \in VariableLists
  PROVE  /\ Len(variables) \in Nat /\ DOMAIN variables = 1 .. Len(variables)
         /\ \A k \in DOMAIN variables :
              /\ variables[k].name \in Seq(Chars) /\ variables[k].value \in Seq(Chars)
              /\ Len(variables[k].name) \in Nat /\ Len(variables[k].value) \in Nat
              /\ N(k) \in Seq(Chars) /\ Len(N(k)) = Len(variables[k].name) + 1
              /\ N(k)[1] = Dollar
              /\ \A j \in 1 .. Len(variables[k].name) :
                   N(k)[j + 1] = variables[k].name[j]
PROOF
<1>1. PICK n \in 0 .. MaxVariables : variables \in [1 .. n -> Variables]
  BY DEF VariableLists
<1>2. n \in Nat /\ DOMAIN variables = 1 .. n /\ Len(variables) = n
  BY <1>1, SubstitutionAssumption
<1>3. ASSUME NEW k \in DOMAIN variables
      PROVE  /\ variables[k].name \in Seq(Chars) /\ variables[k].value \in Seq(Chars)
             /\ Len(variables[k].name) \in Nat /\ Len(variables[k].value) \in Nat
             /\ N(k) \in Seq(Chars) /\ Len(N(k)) = Len(variables[k].name) + 1
             /\ N(k)[1] = Dollar
             /\ \A j \in 1 .. Len(variables[k].name) :
                  N(k)[j + 1] = variables[k].name[j]
  <2>. DEFINE m == variables[k].name
              d == <<Dollar>>
  <2>1. variables[k] \in [name : Seq(Chars), value : Seq(Chars), others : Nat]
    BY <1>1, <1>2, SubstitutionAssumption
  <2>2. m \in Seq(Chars) /\ variables[k].value \in Seq(Chars)
    BY <2>1
  <2>3. d \in Seq(Chars) /\ Len(d) = 1 /\ d[1] = Dollar
    BY SubstitutionAssumption
  <2>4. N(k) = d \o m
    BY DEF N, Name
  <2>5. Len(m) \in Nat /\ Len(variables[k].value) \in Nat
    BY <2>2, LenProperties
  <2>. HIDE DEF m, d
  <2>6. /\ d \o m \in Seq(Chars) /\ Len(d \o m) = Len(d) + Len(m)
        /\ \A j \in 1 .. Len(d) + Len(m) :
             (d \o m)[j] = IF j <= Len(d) THEN d[j] ELSE m[j - Len(d)]
    BY <2>2, <2>3, ConcatProperties
  <2>7. \A j \in 1 .. Len(m) : (d \o m)[j + 1] = m[j]
    BY <2>3, <2>5, <2>6
  <2>8. (d \o m)[1] = Dollar /\ Len(d \o m) = Len(m) + 1
    BY <2>3, <2>5, <2>6
  <2>. QED
    BY <2>2, <2>4, <2>5, <2>6, <2>7, <2>8 DEF m
<1>. QED
  BY <1>2, <1>3

\* strstr compares byte by byte.
LEMMA OccursMeans ==
  ASSUME NEW s \in Seq(Chars), NEW n \in Seq(Chars), NEW p, Len(n) > 0
  PROVE  p \in Occurrences(n, s) <=>
           /\ p \in 1 .. Len(s) /\ p + Len(n) <= Len(s) + 1
           /\ \A j \in 1 .. Len(n) : s[p + j - 1] = n[j]
PROOF
<1>1. /\ Len(s) \in Nat /\ Len(n) \in Nat
      /\ \A x \in 1 .. Len(s) : s[x] \in Chars
      /\ \A x \in 1 .. Len(n) : n[x] \in Chars
  BY LenProperties
<1>. SUFFICES ASSUME p \in 1 .. Len(s)
              PROVE  IsPrefix(n, SubSeq(s, p, Len(s))) <=>
                       /\ p + Len(n) <= Len(s) + 1
                       /\ \A j \in 1 .. Len(n) : s[p + j - 1] = n[j]
  BY DEF Occurrences
<1>. DEFINE L == Len(s)
            r == SubSeq(s, p, L)
            l == Len(n)
<1>2. /\ r \in Seq(Chars) /\ Len(r) = L - p + 1
      /\ \A j \in 1 .. L - p + 1 : r[j] = s[p + j - 1]
  <2>1. p \in Int /\ L \in Int /\ p <= L + 1
    BY <1>1
  <2>2. \A x \in p .. L : s[x] \in Chars
    BY <1>1
  <2>. HIDE DEF L
  <2>. QED
    BY <2>1, <2>2, SubSeqProperties
<1>. HIDE DEF r
<1>3. SubSeq(n, 1, l) = n
  BY <1>1, SubSeqFull
<1>4. IsPrefix(n, r) <=> l <= Len(r) /\ n = SubSeq(r, 1, l)
  BY <1>3 DEF IsPrefix
<1>5. l <= Len(r) <=> p + l <= L + 1
  BY <1>1, <1>2
<1>6. ASSUME p + l <= L + 1
      PROVE  n = SubSeq(r, 1, l) <=> \A j \in 1 .. l : s[p + j - 1] = n[j]
  <2>1. \A j \in 1 .. l : j \in 1 .. L - p + 1 /\ r[j] = s[p + j - 1] /\ r[j] \in Chars
    <3>1. \A j \in 1 .. l : j \in 1 .. L - p + 1 /\ p + j - 1 \in 1 .. L
      BY <1>1, <1>6
    <3>. QED
      BY <1>1, <1>2, <3>1
  <2>2. /\ SubSeq(r, 1, l) \in Seq(Chars) /\ Len(SubSeq(r, 1, l)) = l
        /\ \A j \in 1 .. l : SubSeq(r, 1, l)[j] = r[j]
    <3>1. 1 \in Int /\ l \in Int /\ 1 <= l + 1 /\ l - 1 + 1 = l
      BY <1>1
    <3>2. \A j \in 1 .. l : 1 + j - 1 = j
      BY <1>1
    <3>. HIDE DEF l
    <3>3. \A j \in 1 .. l : r[j] \in Chars
      BY <2>1
    <3>4. /\ SubSeq(r, 1, l) \in Seq(Chars)
          /\ Len(SubSeq(r, 1, l)) = IF 1 <= l THEN l - 1 + 1 ELSE 0
          /\ \A j \in 1 .. l - 1 + 1 : SubSeq(r, 1, l)[j] = r[1 + j - 1]
      BY <3>1, <3>3, SubSeqProperties
    <3>. QED
      BY <3>1, <3>2, <3>4
  <2>3. n = SubSeq(r, 1, l) <=> \A j \in 1 .. l : n[j] = SubSeq(r, 1, l)[j]
    <3>. DEFINE q == SubSeq(r, 1, l)
    <3>. HIDE DEF q, l
    <3>1. q \in Seq(Chars) /\ Len(q) = Len(n)
      BY <2>2 DEF q, l
    <3>. QED
      BY <3>1, SeqEqual DEF q, l
  <2>. QED
    BY <2>1, <2>2, <2>3
<1>. QED
  BY <1>4, <1>5, <1>6 DEF r, L, l

-----------------------------------------------------------------------------
(* The expansion of a string, read from its positions.                     *)

Texts == [DOMAIN variables -> Seq(Chars)]
Named(s, p) == \E k \in DOMAIN variables : At(k, s, p)
Which(s, p) == CHOOSE k \in DOMAIN variables : At(k, s, p)

\* The body of the recursion in Expansion.
Body(s, text, f, p) ==
  IF p > Len(s) THEN <<>>
  ELSE IF Named(s, p) THEN text[Which(s, p)] \o f[p + Len(N(Which(s, p)))]
  ELSE <<s[p]>> \o f[p + 1]

\* f[p] is the expansion of what of s begins at p.
Reads(f, s, text) ==
  /\ f \in [1 .. Len(s) + 1 -> Seq(Chars)]
  /\ \A p \in 1 .. Len(s) + 1 : f[p] = Body(s, text, f, p)

LEMMA WhichIs ==
  ASSUME NEW s, NEW p, Named(s, p)
  PROVE  Which(s, p) \in DOMAIN variables /\ At(Which(s, p), s, p)
PROOF
  BY DEF Named, Which

\* The name of the k-th variable can be read in s from p on.
Spells(k, s, p) == \A j \in 1 .. Len(N(k)) : s[p + j - 1] = N(k)[j]

\* A name lies within the string, ...
LEMMA AtMeans ==
  ASSUME variables \in VariableLists, NEW s \in Seq(Chars), NEW p,
         NEW k \in DOMAIN variables
  PROVE  /\ Len(N(k)) \in Nat /\ Len(N(k)) > 0
         /\ At(k, s, p) <=>
              p \in 1 .. Len(s) /\ p + Len(N(k)) <= Len(s) + 1 /\ Spells(k, s, p)
PROOF
<1>1. N(k) \in Seq(Chars) /\ Len(N(k)) \in Nat /\ Len(N(k)) > 0
  BY VariablesOf
<1>2. At(k, s, p) <=> p \in Occurrences(N(k), s)
  BY DEF At, NameAt, N
<1>. QED
  BY <1>1, <1>2, OccursMeans DEF Spells

\* ... and begins with a dollar.
LEMMA NameWithin ==
  ASSUME variables \in VariableLists, NEW s \in Seq(Chars), NEW p,
         NEW k \in DOMAIN variables, At(k, s, p)
  PROVE  /\ p \in 1 .. Len(s) /\ s[p] = Dollar
         /\ Len(N(k)) \in Nat /\ Len(N(k)) > 0 /\ p + Len(N(k)) \in p + 1 .. Len(s) + 1
         /\ Spells(k, s, p)
PROOF
<1>1. /\ p \in 1 .. Len(s) /\ p + Len(N(k)) <= Len(s) + 1 /\ Spells(k, s, p)
      /\ Len(N(k)) \in Nat /\ Len(N(k)) > 0 /\ Len(s) \in Nat
  BY AtMeans, LenProperties
<1>2. N(k)[1] = Dollar
  BY VariablesOf
<1>3. s[p] = Dollar
  <2>1. 1 \in 1 .. Len(N(k)) /\ p + 1 - 1 = p
    BY <1>1
  <2>. QED
    BY <1>1, <1>2, <2>1 DEF Spells
<1>4. p + Len(N(k)) \in p + 1 .. Len(s) + 1
  BY <1>1
<1>. QED
  BY <1>1, <1>3, <1>4

\* The body looks at later positions only, and gives a string if those do.
LEMMA BodyLooksAhead ==
  ASSUME variables \in VariableLists, NEW s \in Seq(Chars), NEW text \in Texts,
         NEW p \in 1 .. Len(s) + 1, NEW f, NEW g,
         \A x \in p + 1 .. Len(s) + 1 : f[x] \in Seq(Chars) /\ f[x] = g[x]
  PROVE  Body(s, text, f, p) \in Seq(Chars) /\ Body(s, text, f, p) = Body(s, text, g, p)
PROOF
<1>1. Len(s) \in Nat /\ \A x \in 1 .. Len(s) : s[x] \in Chars
  BY LenProperties
<1>2. CASE p > Len(s)
  <2>1. <<>> \in Seq(Chars)
    OBVIOUS
  <2>. QED
    BY <1>2, <2>1 DEF Body
<1>3. CASE ~(p > Len(s)) /\ Named(s, p)
  <2>. DEFINE k == Which(s, p)
              x == p + Len(N(k))
  <2>1. k \in DOMAIN variables /\ At(k, s, p)
    BY <1>3, WhichIs
  <2>2. x \in p + 1 .. Len(s) + 1
    BY <2>1, NameWithin
  <2>3. text[k] \in Seq(Chars)
    BY <2>1 DEF Texts
  <2>4. Body(s, text, f, p) = text[k] \o f[x] /\ Body(s, text, g, p) = text[k] \o g[x]
    BY <1>3 DEF Body
  <2>. HIDE DEF k, x
  <2>5. f[x] \in Seq(Chars) /\ f[x] = g[x]
    BY <2>2
  <2>6. text[k] \o f[x] \in Seq(Chars)
    BY <2>3, <2>5, ConcatProperties
  <2>. QED
    BY <2>4, <2>5, <2>6
<1>4. CASE ~(p > Len(s)) /\ ~Named(s, p)
  <2>1. p \in 1 .. Len(s) /\ p + 1 \in p + 1 .. Len(s) + 1
    BY <1>1, <1>4
  <2>2. /\ Body(s, text, f, p) = <<s[p]>> \o f[p + 1]
        /\ Body(s, text, g, p) = <<s[p]>> \o g[p + 1]
    BY <1>4 DEF Body
  <2>3. <<s[p]>> \in Seq(Chars) /\ f[p + 1] \in Seq(Chars) /\ f[p + 1] = g[p + 1]
    BY <1>1, <2>1
  <2>4. <<s[p]>> \o f[p + 1] \in Seq(Chars)
    BY <2>3, ConcatProperties
  <2>. QED
    BY <2>2, <2>3, <2>4
<1>. QED
  BY <1>2, <1>3, <1>4

\* The recursion in Expansion is defined.
LEMMA ExpansionReads ==
  ASSUME variables \in VariableLists, NEW s \in Seq(Chars), NEW text \in Texts
  PROVE  \E f : Reads(f, s, text) /\ Expansion(variables, s, text) = f[1]
PROOF
<1>. DEFINE L == Len(s)
            Solves(f, q) == \A p \in q .. L + 1 : f[p] = Body(s, text, f, p)
            Bad == {q \in 1 .. L + 1 : ~ \E f \in [q .. L + 1 -> Seq(Chars)] : Solves(f, q)}
<1>1. L \in Nat
  BY LenProperties
<1>2. Bad = {}
  <2>. SUFFICES ASSUME Bad # {} PROVE FALSE
    OBVIOUS
  <2>1. PICK q \in Bad : \A x \in Bad : x <= q
    <3>1. Bad \in SUBSET (1 .. L + 1) /\ L + 1 \in Nat
      BY <1>1
    <3>. HIDE DEF Bad, L
    <3>. QED
      BY <3>1, LastPosition
  <2>2. q # L + 1
    <3>. DEFINE f == [p \in L + 1 .. L + 1 |-> <<>>]
    <3>1. f \in [L + 1 .. L + 1 -> Seq(Chars)]
      OBVIOUS
    <3>2. \A p \in L + 1 .. L + 1 : p = L + 1 /\ p > L
      BY <1>1
    <3>3. Solves(f, L + 1)
      BY <3>2 DEF Body
    <3>. QED
      BY <2>1, <3>1, <3>3
  <2>3. q \in 1 .. L /\ q + 1 \in 1 .. L + 1 /\ q + 1 \notin Bad
    <3>1. q \in 1 .. L /\ q + 1 \in 1 .. L + 1 /\ ~(q + 1 <= q)
      BY <1>1, <2>1, <2>2
    <3>. HIDE DEF Bad
    <3>. QED
      BY <2>1, <3>1
  <2>4. PICK f \in [q + 1 .. L + 1 -> Seq(Chars)] : Solves(f, q + 1)
    BY <2>3
  <2>. DEFINE b == Body(s, text, f, q)
              u == [p \in q .. L + 1 |-> IF p = q THEN b ELSE f[p]]
  <2>5. b \in Seq(Chars)
    <3>1. q \in 1 .. Len(s) + 1 /\ \A x \in q + 1 .. Len(s) + 1 : f[x] \in Seq(Chars) /\ f[x] = f[x]
      BY <1>1, <2>1, <2>4
    <3>. QED
      BY <3>1, BodyLooksAhead
  <2>. HIDE DEF b
  <2>6. \A p \in q + 1 .. L + 1 : p \in q .. L + 1 /\ p # q /\ u[p] = f[p] /\ f[p] \in Seq(Chars)
    <3>. TAKE p \in q + 1 .. L + 1
    <3>1. p \in q .. L + 1 /\ p # q
      BY <1>1, <2>3
    <3>2. f[p] \in Seq(Chars)
      BY <2>4
    <3>. QED
      BY <3>1, <3>2
  <2>7. u \in [q .. L + 1 -> Seq(Chars)] /\ u[q] = b
    <3>1. q \in q .. L + 1 /\ \A p \in q .. L + 1 : p # q => p \in q + 1 .. L + 1
      BY <1>1, <2>3
    <3>. QED
      BY <2>4, <2>5, <3>1
  <2>. HIDE DEF u
  <2>8. Solves(u, q)
    <3>. SUFFICES ASSUME NEW p \in q .. L + 1 PROVE u[p] = Body(s, text, u, p)
      OBVIOUS
    <3>1. p \in 1 .. Len(s) + 1 /\ \A x \in p + 1 .. Len(s) + 1 : x \in q + 1 .. L + 1
      BY <1>1, <2>3
    <3>2. Body(s, text, f, p) = Body(s, text, u, p)
      <4>1. \A x \in p + 1 .. Len(s) + 1 : f[x] \in Seq(Chars) /\ f[x] = u[x]
        BY <2>6, <3>1
      <4>2. p \in 1 .. Len(s) + 1
        BY <3>1
      <4>. HIDE DEF L, Solves, Bad
      <4>. QED
        BY <4>1, <4>2, BodyLooksAhead
    <3>3. CASE p = q
      BY <2>7, <3>2, <3>3 DEF b
    <3>4. CASE p # q
      <4>1. p \in q + 1 .. L + 1
        BY <1>1, <2>3, <3>4
      <4>. QED
        BY <2>4, <2>6, <3>2, <4>1
    <3>. QED
      BY <3>3, <3>4
  <2>. HIDE DEF Solves
  <2>. QED
    BY <2>1, <2>7, <2>8
<1>3. PICK f \in [1 .. L + 1 -> Seq(Chars)] : Solves(f, 1)
  <2>1. 1 \in 1 .. L + 1
    BY <1>1
  <2>. HIDE DEF Solves
  <2>. QED
    BY <1>2, <2>1
<1>. DEFINE c == CHOOSE h : h = [p \in 1 .. L + 1 |-> Body(s, text, h, p)]
<1>4. c = [p \in 1 .. L + 1 |-> Body(s, text, c, p)]
  <2>1. f = [p \in 1 .. L + 1 |-> Body(s, text, f, p)]
    BY <1>3
  <2>. QED
    BY <2>1
<1>5. Expansion(variables, s, text) = c[1]
  BY DEF Expansion, Body, Named, Which, At, N
<1>. HIDE DEF c
<1>6. \A p \in 1 .. L + 1 : c[p] \in Seq(Chars) /\ c[p] = Body(s, text, c, p)
  <2>. DEFINE Odd == {p \in 1 .. L + 1 : c[p] \notin Seq(Chars)}
  <2>1. \A p \in 1 .. L + 1 : c[p] = Body(s, text, c, p)
    BY <1>4
  <2>2. Odd = {}
    <3>. SUFFICES ASSUME Odd # {} PROVE FALSE
      OBVIOUS
    <3>1. PICK q \in Odd : \A x \in Odd : x <= q
      <4>1. Odd \in SUBSET (1 .. L + 1) /\ L + 1 \in Nat
        BY <1>1
      <4>. HIDE DEF Odd, L
      <4>. QED
        BY <4>1, LastPosition
    <3>2. \A x \in q + 1 .. L + 1 : x \in 1 .. L + 1 /\ ~(x <= q)
      BY <1>1, <3>1
    <3>3. \A x \in q + 1 .. L + 1 : c[x] \in Seq(Chars)
      BY <3>1, <3>2
    <3>4. q \in 1 .. Len(s) + 1 /\ c[q] \notin Seq(Chars)
      BY <3>1
    <3>. HIDE DEF Odd
    <3>5. Body(s, text, c, q) \in Seq(Chars)
      BY <3>3, <3>4, BodyLooksAhead
    <3>. QED
      BY <2>1, <3>4, <3>5
  <2>. QED
    BY <2>1, <2>2
<1>7. Reads(c, s, text)
  <2>1. DOMAIN c = 1 .. L + 1 /\ c = [p \in 1 .. L + 1 |-> c[p]]
    BY <1>4
  <2>. QED
    BY <1>6, <2>1 DEF Reads
<1>. QED
  BY <1>5, <1>7

\* The expansion is a string.
LEMMA ExpansionIsString ==
  ASSUME variables \in VariableLists, NEW s \in Seq(Chars), NEW text \in Texts
  PROVE  Expansion(variables, s, text) \in Seq(Chars)
PROOF
<1>1. PICK f : Reads(f, s, text) /\ Expansion(variables, s, text) = f[1]
  BY ExpansionReads
<1>2. 1 \in 1 .. Len(s) + 1
  BY LenProperties
<1>. QED
  BY <1>1, <1>2 DEF Reads

-----------------------------------------------------------------------------
(* Well formed variables.                                                  *)

\* No name is the beginning of another, and neither names nor values have a
\* dollar.
Distinct ==
  /\ \A k, m \in DOMAIN variables :
       k # m => ~IsPrefix(variables[k].name, variables[m].name)
  /\ \A k \in DOMAIN variables :
       /\ Dollar \notin Range(variables[k].name)
       /\ variables[k].value # <<>> /\ Dollar \notin Range(variables[k].value)

LEMMA NoDollars ==
  ASSUME variables \in VariableLists, Distinct, NEW k \in DOMAIN variables
  PROVE  /\ \A j \in 2 .. Len(N(k)) : N(k)[j] # Dollar
         /\ \A j \in 1 .. Len(variables[k].value) : variables[k].value[j] # Dollar
PROOF
<1>1. /\ variables[k].name \in Seq(Chars) /\ variables[k].value \in Seq(Chars)
      /\ Len(variables[k].name) \in Nat /\ Len(N(k)) = Len(variables[k].name) + 1
      /\ \A j \in 1 .. Len(variables[k].name) : N(k)[j + 1] = variables[k].name[j]
  BY VariablesOf
<1>2. /\ \A j \in 1 .. Len(variables[k].name) : variables[k].name[j] # Dollar
      /\ \A j \in 1 .. Len(variables[k].value) : variables[k].value[j] # Dollar
  <2>1. /\ DOMAIN variables[k].name = 1 .. Len(variables[k].name)
        /\ DOMAIN variables[k].value = 1 .. Len(variables[k].value)
    BY <1>1, LenProperties
  <2>. QED
    BY <2>1 DEF Distinct, Range
<1>3. \A j \in 2 .. Len(N(k)) : N(k)[j] # Dollar
  <2>. TAKE j \in 2 .. Len(N(k))
  <2>1. j - 1 \in 1 .. Len(variables[k].name) /\ (j - 1) + 1 = j
    BY <1>1
  <2>. QED
    BY <1>1, <1>2, <2>1
<1>. QED
  BY <1>2, <1>3

\* One name at most begins at a place.
LEMMA OneName ==
  ASSUME variables \in VariableLists, Distinct, NEW s \in Seq(Chars), NEW p,
         NEW k \in DOMAIN variables, NEW m \in DOMAIN variables,
         At(k, s, p), At(m, s, p), Len(N(k)) <= Len(N(m))
  PROVE  k = m
PROOF
<1>. DEFINE a == variables[k].name
            b == variables[m].name
<1>1. /\ a \in Seq(Chars) /\ b \in Seq(Chars) /\ Len(a) \in Nat /\ Len(b) \in Nat
      /\ Len(N(k)) = Len(a) + 1 /\ Len(N(m)) = Len(b) + 1
      /\ \A j \in 1 .. Len(a) : N(k)[j + 1] = a[j]
      /\ \A j \in 1 .. Len(b) : N(m)[j + 1] = b[j]
  BY VariablesOf
<1>2. \A j \in 1 .. Len(N(k)) : s[p + j - 1] = N(k)[j]
  BY NameWithin DEF Spells
<1>3. \A j \in 1 .. Len(N(m)) : s[p + j - 1] = N(m)[j]
  BY NameWithin DEF Spells
<1>. HIDE DEF a, b
<1>4. \A j \in 1 .. Len(a) : a[j] = b[j]
  <2>. TAKE j \in 1 .. Len(a)
  <2>1. j \in 1 .. Len(b) /\ j + 1 \in 1 .. Len(N(k)) /\ j + 1 \in 1 .. Len(N(m))
    BY <1>1
  <2>. QED
    BY <1>1, <1>2, <1>3, <2>1
<1>5. IsPrefix(a, b)
  <2>1. \A j \in 1 .. Len(a) : b[j] \in Chars /\ 1 + j - 1 = j
    BY <1>1, LenProperties
  <2>2. 1 \in Int /\ Len(a) \in Int /\ Len(a) <= Len(b) /\ (1 <= Len(a) => Len(a) - 1 + 1 = Len(a))
        /\ (~(1 <= Len(a)) => Len(a) = 0) /\ Len(a) - 1 + 1 = Len(a)
    BY <1>1
  <2>3. /\ SubSeq(b, 1, Len(a)) \in Seq(Chars) /\ Len(SubSeq(b, 1, Len(a))) = Len(a)
        /\ \A j \in 1 .. Len(a) : SubSeq(b, 1, Len(a))[j] = b[j]
    BY <2>1, <2>2, SubSeqProperties
  <2>4. SubSeq(b, 1, Len(a)) = a
    BY <1>1, <1>4, <2>3, SeqEqual
  <2>5. SubSeq(a, 1, Len(a)) = a
    BY <1>1, SubSeqFull
  <2>. QED
    BY <2>2, <2>4, <2>5 DEF IsPrefix
<1>. QED
  BY <1>5 DEF Distinct, a, b

LEMMA WhichOne ==
  ASSUME variables \in VariableLists, Distinct, NEW s \in Seq(Chars), NEW p,
         NEW k \in DOMAIN variables, At(k, s, p)
  PROVE  Named(s, p) /\ Which(s, p) = k
PROOF
<1>. DEFINE m == Which(s, p)
<1>1. Named(s, p)
  BY DEF Named
<1>2. m \in DOMAIN variables /\ At(m, s, p)
  BY <1>1, WhichIs
<1>. HIDE DEF m
<1>3. Len(N(k)) \in Nat /\ Len(N(m)) \in Nat
  BY <1>2, NameWithin
<1>4. Len(N(k)) <= Len(N(m)) => k = m
  BY <1>2, OneName
<1>5. Len(N(m)) <= Len(N(k)) => m = k
  BY <1>2, OneName
<1>6. k = m
  BY <1>3, <1>4, <1>5
<1>. QED
  BY <1>1, <1>6 DEF m

\* A name begins with a dollar.
LEMMA PlainPlace ==
  ASSUME variables \in VariableLists, NEW s \in Seq(Chars), NEW p, s[p] # Dollar
  PROVE  ~Named(s, p)
PROOF
  BY NameWithin DEF Named

\* Where the string goes on after a name.
After(k, p) == p + Len(N(k))

\* The expansion at a name, ...
LEMMA ReadsName ==
  ASSUME variables \in VariableLists, Distinct, NEW s \in Seq(Chars), NEW text \in Texts,
         NEW f, Reads(f, s, text), NEW p, NEW k \in DOMAIN variables, At(k, s, p)
  PROVE  /\ f[p] = text[k] \o f[After(k, p)]
         /\ text[k] \in Seq(Chars) /\ f[After(k, p)] \in Seq(Chars)
PROOF
<1>1. p \in 1 .. Len(s) /\ p + Len(N(k)) \in p + 1 .. Len(s) + 1 /\ Len(s) \in Nat
  BY NameWithin, LenProperties
<1>2. p \in 1 .. Len(s) + 1 /\ ~(p > Len(s)) /\ p + Len(N(k)) \in 1 .. Len(s) + 1
  BY <1>1
<1>3. Named(s, p) /\ Which(s, p) = k
  BY WhichOne
<1>4. f[p] = Body(s, text, f, p) /\ f[p + Len(N(k))] \in Seq(Chars)
  BY <1>2 DEF Reads
<1>. QED
  BY <1>2, <1>3, <1>4 DEF Body, Texts, After

\* ... at any other place, ...
LEMMA ReadsOther ==
  ASSUME NEW s \in Seq(Chars), NEW text \in Texts,
         NEW f, Reads(f, s, text), NEW p \in 1 .. Len(s), ~Named(s, p)
  PROVE  f[p] = <<s[p]>> \o f[p + 1] /\ f[p + 1] \in Seq(Chars) /\ <<s[p]>> \in Seq(Chars)
PROOF
<1>1. p \in 1 .. Len(s) + 1 /\ ~(p > Len(s)) /\ p + 1 \in 1 .. Len(s) + 1 /\ s[p] \in Chars
  BY LenProperties
<1>2. f[p] = Body(s, text, f, p) /\ f[p + 1] \in Seq(Chars)
  BY <1>1 DEF Reads
<1>. QED
  BY <1>1, <1>2 DEF Body

\* ... and at the end.
LEMMA ReadsEnd ==
  ASSUME NEW s \in Seq(Chars), NEW text, NEW f, Reads(f, s, text)
  PROVE  f[Len(s) + 1] = <<>>
PROOF
<1>1. Len(s) + 1 \in 1 .. Len(s) + 1 /\ Len(s) + 1 > Len(s)
  BY LenProperties
<1>. QED
  BY <1>1 DEF Reads, Body

\* What has no dollar is copied.
LEMMA PlainStretch ==
  ASSUME variables \in VariableLists, NEW s \in Seq(Chars), NEW text \in Texts,
         NEW f, Reads(f, s, text), NEW v \in Seq(Chars), NEW p \in 1 .. Len(s) + 1,
         p + Len(v) <= Len(s) + 1,
         \A j \in 1 .. Len(v) : s[p + j - 1] = v[j] /\ v[j] # Dollar
  PROVE  f[p + Len(v)] \in Seq(Chars) /\ f[p] = v \o f[p + Len(v)]
PROOF
<1>. DEFINE m == Len(v)
            e == f[p + m]
            Copied(j) == f[p + j - 1] = SubSeq(v, j, m) \o e
            Bad == {j \in 1 .. m + 1 : ~Copied(j)}
<1>1. Len(s) \in Nat /\ m \in Nat /\ \A j \in 1 .. m : v[j] \in Chars
  BY LenProperties
<1>2. e \in Seq(Chars)
  <2>1. p + m \in 1 .. Len(s) + 1
    BY <1>1
  <2>. QED
    BY <2>1 DEF Reads
<1>. HIDE DEF e
<1>3. Bad = {}
  <2>. SUFFICES ASSUME Bad # {} PROVE FALSE
    OBVIOUS
  <2>1. PICK j \in Bad : \A x \in Bad : x <= j
    <3>1. Bad \in SUBSET (1 .. m + 1) /\ m + 1 \in Nat
      BY <1>1
    <3>. HIDE DEF Bad, m
    <3>. QED
      BY <3>1, LastPosition
  <2>2. j # m + 1
    <3>1. SubSeq(v, m + 1, m) = <<>>
      <4>1. m + 1 \in Int /\ m \in Int /\ m < m + 1
        BY <1>1
      <4>. HIDE DEF m
      <4>. QED
        BY <4>1, SubSeqEmpty
    <3>2. <<>> \o e = e
      BY <1>2, ConcatEmptySeq
    <3>3. p + (m + 1) - 1 = p + m
      BY <1>1
    <3>4. Copied(m + 1)
      BY <3>1, <3>2, <3>3 DEF e
    <3>. HIDE DEF Copied, m
    <3>. QED
      BY <2>1, <3>4
  <2>3. /\ j \in 1 .. m /\ j + 1 \in 1 .. m + 1 /\ ~(j + 1 <= j) /\ j + 1 \in Nat
        /\ p + j - 1 \in 1 .. Len(s) /\ (p + j - 1) + 1 = p + (j + 1) - 1 /\ m \in j .. m
    BY <1>1, <2>1, <2>2
  <2>4. f[p + (j + 1) - 1] = SubSeq(v, j + 1, m) \o e
    <3>. HIDE DEF Copied, m
    <3>1. Copied(j + 1)
      BY <2>1, <2>3
    <3>. QED
      BY <3>1 DEF Copied
  <2>5. f[p + j - 1] = <<v[j]>> \o f[p + (j + 1) - 1]
    <3>1. s[p + j - 1] = v[j] /\ v[j] # Dollar
      BY <2>3
    <3>. HIDE DEF m
    <3>2. ~Named(s, p + j - 1)
      BY <3>1, PlainPlace
    <3>3. f[p + j - 1] = <<s[p + j - 1]>> \o f[(p + j - 1) + 1]
      BY <2>3, <3>2, ReadsOther
    <3>. QED
      BY <2>3, <3>1, <3>3
  <2>6. SubSeq(v, j, m) = <<v[j]>> \o SubSeq(v, j + 1, m)
    BY <2>3, SubSeqRecursiveFirst
  <2>7. SubSeq(v, j + 1, m) \in Seq(Chars) /\ <<v[j]>> \in Seq(Chars)
    <3>1. \A x \in j + 1 .. m : v[x] \in Chars
      BY <1>1, <2>3
    <3>2. j + 1 \in Int /\ m \in Int
      BY <1>1, <2>3
    <3>3. <<v[j]>> \in Seq(Chars)
      <4>1. v[j] \in Chars
        BY <1>1, <2>3
      <4>. QED
        BY <4>1
    <3>. HIDE DEF m
    <3>. QED
      BY <3>1, <3>2, <3>3, SubSeqProperties
  <2>8. <<v[j]>> \o (SubSeq(v, j + 1, m) \o e) = (<<v[j]>> \o SubSeq(v, j + 1, m)) \o e
    <3>. DEFINE x == SubSeq(v, j + 1, m)
                y == <<v[j]>>
    <3>1. x \in Seq(Chars) /\ y \in Seq(Chars)
      BY <2>7
    <3>. HIDE DEF m, x, y, Copied, Bad
    <3>2. Regroups(y, x, e)
      BY <1>2, <3>1, Regroup
    <3>. QED
      BY <3>2 DEF x, y, Regroups
  <2>9. Copied(j)
    <3>. HIDE DEF m
    <3>. QED
      BY <2>4, <2>5, <2>6, <2>8
  <2>. HIDE DEF Copied, m
  <2>. QED
    BY <2>1, <2>9
<1>4. Copied(1)
  <2>1. 1 \in 1 .. m + 1
    BY <1>1
  <2>. HIDE DEF Copied, m
  <2>. QED
    BY <1>3, <2>1
<1>5. SubSeq(v, 1, m) = v /\ p + 1 - 1 = p
  <2>1. p + 1 - 1 = p
    BY <1>1
  <2>. QED
    BY <2>1, SubSeqFull
<1>. QED
  BY <1>2, <1>4, <1>5 DEF e

\* A string without dollars is its own expansion.
LEMMA PlainString ==
  ASSUME variables \in VariableLists, NEW s \in Seq(Chars), NEW text \in Texts,
         \A p \in 1 .. Len(s) : s[p] # Dollar
  PROVE  Expansion(variables, s, text) = s
PROOF
<1>1. PICK f : Reads(f, s, text) /\ Expansion(variables, s, text) = f[1]
  BY ExpansionReads
<1>2. /\ 1 \in 1 .. Len(s) + 1 /\ 1 + Len(s) = Len(s) + 1 /\ 1 + Len(s) <= Len(s) + 1
      /\ \A j \in 1 .. Len(s) : 1 + j - 1 = j
  BY LenProperties
<1>3. \A j \in 1 .. Len(s) : s[1 + j - 1] = s[j] /\ s[j] # Dollar
  BY <1>2
<1>4. f[1] = s \o f[1 + Len(s)]
  BY <1>1, <1>2, <1>3, PlainStretch
<1>5. f[1 + Len(s)] = <<>>
  BY <1>1, <1>2, ReadsEnd
<1>6. s \o <<>> = s
  BY ConcatEmptySeq
<1>. QED
  BY <1>1, <1>4, <1>5, <1>6

-----------------------------------------------------------------------------
(* One replacement.                                                        *)

Shift(k) == Len(variables[k].value) - Len(N(k))

\* t is s with the value of the k-th variable in place of its name at p.
Spliced(s, t, p, k) ==
  /\ At(k, s, p)
  /\ Len(t) = Len(s) + Shift(k)
  /\ \A x \in 1 .. p - 1 : t[x] = s[x]
  /\ \A j \in 1 .. Len(variables[k].value) : t[p + j - 1] = variables[k].value[j]
  /\ \A y \in p + Len(N(k)) .. Len(s) : t[y + Shift(k)] = s[y]

\* The positions of the two strings.
LEMMA SplicedPlaces ==
  ASSUME variables \in VariableLists, NEW s \in Seq(Chars), NEW t \in Seq(Chars),
         NEW p, NEW k \in DOMAIN variables, Spliced(s, t, p, k)
  PROVE  /\ Len(s) \in Nat /\ Len(t) \in Nat /\ Len(variables[k].value) \in Nat
         /\ Len(N(k)) \in Nat /\ Shift(k) \in Int
         /\ p \in 1 .. Len(s) /\ p + Len(N(k)) \in p + 1 .. Len(s) + 1
         /\ p + Len(N(k)) + Shift(k) = p + Len(variables[k].value)
         /\ p + Len(variables[k].value) <= Len(t) + 1
         /\ \A y \in p + Len(N(k)) .. Len(s) : y \in 1 .. Len(s) /\ y + Shift(k) \in 1 .. Len(t)
PROOF
<1>1. At(k, s, p) /\ Len(t) = Len(s) + Shift(k)
  BY DEF Spliced
<1>2. /\ p \in 1 .. Len(s) /\ p + Len(N(k)) \in p + 1 .. Len(s) + 1
      /\ Len(N(k)) \in Nat
  BY <1>1, NameWithin
<1>3. Len(s) \in Nat /\ Len(t) \in Nat /\ Len(variables[k].value) \in Nat
  BY VariablesOf, LenProperties
<1>4. Shift(k) \in Int /\ p + Len(N(k)) + Shift(k) = p + Len(variables[k].value)
  <2>1. \A a, b \in Nat : a - b \in Int /\ p + b + (a - b) = p + a
    BY <1>2, <1>3
  <2>. QED
    BY <1>2, <1>3, <2>1 DEF Shift
<1>5. p + Len(variables[k].value) <= Len(t) + 1
  BY <1>1, <1>2, <1>3, <1>4
<1>6. \A y \in p + Len(N(k)) .. Len(s) : y \in 1 .. Len(s) /\ y + Shift(k) \in 1 .. Len(t)
  BY <1>1, <1>2, <1>3, <1>4
<1>. QED
  BY <1>1, <1>2, <1>3, <1>4, <1>5, <1>6

\* Behind the value the same names occur, ...
LEMMA NamesBehind ==
  ASSUME variables \in VariableLists, NEW s \in Seq(Chars), NEW t \in Seq(Chars),
         NEW p, NEW k \in DOMAIN variables, Spliced(s, t, p, k),
         NEW j \in DOMAIN variables, NEW y \in p + Len(N(k)) .. Len(s)
  PROVE  At(j, s, y) <=> At(j, t, y + Shift(k))
PROOF
<1>. DEFINE d == Shift(k)
            l == Len(N(j))
<1>1. l \in Nat /\ l > 0
  BY AtMeans
<1>2. /\ Len(s) \in Nat /\ Len(t) \in Nat /\ Len(N(k)) \in Nat /\ d \in Int
      /\ p \in 1 .. Len(s) /\ y \in 1 .. Len(s) /\ y + d \in 1 .. Len(t)
      /\ Len(t) = Len(s) + d
  BY SplicedPlaces DEF Spliced
<1>3. At(j, s, y) <=> y \in 1 .. Len(s) /\ y + l <= Len(s) + 1 /\ Spells(j, s, y)
  BY AtMeans
<1>. HIDE DEF d
<1>4. At(j, t, y + d) <=>
        y + d \in 1 .. Len(t) /\ y + d + l <= Len(t) + 1 /\ Spells(j, t, y + d)
  BY AtMeans
<1>5. y + l <= Len(s) + 1 <=> y + d + l <= Len(t) + 1
  BY <1>1, <1>2
<1>6. ASSUME y + l <= Len(s) + 1, NEW x \in 1 .. l
      PROVE  t[y + d + x - 1] = s[y + x - 1]
  <2>1. y + x - 1 \in p + Len(N(k)) .. Len(s) /\ (y + x - 1) + d = y + d + x - 1
    BY <1>1, <1>2, <1>6
  <2>2. t[(y + x - 1) + d] = s[y + x - 1]
    BY <2>1 DEF Spliced, d
  <2>. QED
    BY <2>1, <2>2
<1>7. y + l <= Len(s) + 1 => (Spells(j, s, y) <=> Spells(j, t, y + d))
  BY <1>6 DEF Spells
<1>8. At(j, s, y) <=> At(j, t, y + d)
  BY <1>2, <1>3, <1>4, <1>5, <1>7
<1>. QED
  BY <1>8 DEF d

\* ... and before it too, none of which reaches into it.
LEMMA NamesBefore ==
  ASSUME variables \in VariableLists, Distinct,
         NEW s \in Seq(Chars), NEW t \in Seq(Chars),
         NEW p, NEW k \in DOMAIN variables, Spliced(s, t, p, k),
         NEW j \in DOMAIN variables, NEW q \in 1 .. p - 1, At(j, s, q)
  PROVE  Len(N(j)) \in Nat /\ q + Len(N(j)) \in q + 1 .. p /\ At(j, t, q)
PROOF
<1>. DEFINE l == Len(N(j))
<1>1. l \in Nat /\ l > 0
  BY AtMeans
<1>2. /\ Len(s) \in Nat /\ Len(t) \in Nat /\ Len(variables[k].value) \in Nat
      /\ p \in 1 .. Len(s) /\ p + Len(variables[k].value) <= Len(t) + 1
  BY SplicedPlaces
<1>3. \A x \in 1 .. l : s[q + x - 1] = N(j)[x]
  <2>1. Spells(j, s, q)
    BY NameWithin
  <2>. QED
    BY <2>1 DEF Spells
<1>4. s[p] = Dollar
  BY NameWithin DEF Spliced
<1>5. q + l <= p
  <2>. SUFFICES ASSUME ~(q + l <= p) PROVE FALSE
    OBVIOUS
  <2>1. p - q + 1 \in 1 .. l /\ p - q + 1 \in 2 .. l /\ q + (p - q + 1) - 1 = p
    BY <1>1, <1>2
  <2>2. N(j)[p - q + 1] = Dollar
    BY <1>3, <1>4, <2>1
  <2>3. N(j)[p - q + 1] # Dollar
    BY <2>1, NoDollars
  <2>. QED
    BY <2>2, <2>3
<1>6. At(j, t, q)
  <2>1. q \in 1 .. Len(t) /\ q + l <= Len(t) + 1
    BY <1>1, <1>2, <1>5
  <2>2. ASSUME NEW x \in 1 .. l PROVE t[q + x - 1] = N(j)[x]
    <3>1. q + x - 1 \in 1 .. p - 1
      BY <1>1, <1>2, <1>5
    <3>2. t[q + x - 1] = s[q + x - 1]
      BY <3>1 DEF Spliced
    <3>. QED
      BY <1>3, <3>2
  <2>3. Spells(j, t, q)
    BY <2>2 DEF Spells
  <2>. QED
    BY <2>1, <2>3, AtMeans
<1>7. q + l \in q + 1 .. p
  BY <1>1, <1>2, <1>5
<1>. QED
  BY <1>1, <1>6, <1>7

\* Behind the value the expansion is the same, ...
LEMMA SameBehind ==
  ASSUME variables \in VariableLists, Distinct,
         NEW s \in Seq(Chars), NEW t \in Seq(Chars), NEW text \in Texts,
         NEW f, Reads(f, s, text), NEW g, Reads(g, t, text),
         NEW p, NEW k \in DOMAIN variables, Spliced(s, t, p, k)
  PROVE  \A y \in p + Len(N(k)) .. Len(s) + 1 : f[y] = g[y + Shift(k)]
PROOF
<1>. DEFINE d == Shift(k)
            e == p + Len(N(k))
            Bad == {y \in e .. Len(s) + 1 : f[y] # g[y + d]}
<1>1. /\ Len(s) \in Nat /\ Len(t) \in Nat /\ d \in Int /\ Len(t) = Len(s) + d
      /\ e \in 1 .. Len(s) + 1
      /\ \A y \in e .. Len(s) : y \in 1 .. Len(s) /\ y + d \in 1 .. Len(t)
  <2>1. p \in 1 .. Len(s) /\ e \in p + 1 .. Len(s) + 1 /\ Len(s) \in Nat
    BY SplicedPlaces
  <2>2. e \in 1 .. Len(s) + 1
    BY <2>1
  <2>. QED
    BY <2>2, SplicedPlaces DEF Spliced
<1>2. \A j \in DOMAIN variables : \A y \in e .. Len(s) : At(j, s, y) <=> At(j, t, y + d)
  BY NamesBehind
<1>3. \A y \in e .. Len(s) : t[y + d] = s[y]
  BY DEF Spliced
<1>. HIDE DEF d, e
<1>4. Bad = {}
  <2>. SUFFICES ASSUME Bad # {} PROVE FALSE
    OBVIOUS
  <2>1. PICK y \in Bad : \A x \in Bad : x <= y
    <3>1. Bad \in SUBSET (1 .. Len(s) + 1) /\ Len(s) + 1 \in Nat
      BY <1>1
    <3>. HIDE DEF Bad
    <3>. QED
      BY <3>1, LastPosition
  <2>2. y # Len(s) + 1
    <3>1. f[Len(s) + 1] = <<>> /\ g[Len(t) + 1] = <<>>
      BY ReadsEnd
    <3>2. Len(s) + 1 + d = Len(t) + 1
      BY <1>1
    <3>. QED
      BY <2>1, <3>1, <3>2
  <2>3. y \in e .. Len(s) /\ y \in 1 .. Len(s) /\ y + d \in 1 .. Len(t)
    BY <1>1, <2>1, <2>2
  <2>4. \A z \in y + 1 .. Len(s) + 1 : f[z] = g[z + d]
    <3>1. \A z \in y + 1 .. Len(s) + 1 : z \in e .. Len(s) + 1 /\ ~(z <= y)
      BY <1>1, <2>3
    <3>. QED
      BY <2>1, <3>1
  <2>5. CASE Named(s, y)
    <3>1. PICK j \in DOMAIN variables : At(j, s, y)
      BY <2>5 DEF Named
    <3>2. At(j, t, y + d)
      BY <1>2, <2>3, <3>1
    <3>3. /\ f[y] = text[j] \o f[After(j, y)]
          /\ text[j] \in Seq(Chars) /\ f[After(j, y)] \in Seq(Chars)
      BY <3>1, ReadsName
    <3>4. /\ g[y + d] = text[j] \o g[After(j, y + d)]
          /\ text[j] \in Seq(Chars) /\ g[After(j, y + d)] \in Seq(Chars)
      BY <3>2, ReadsName
    <3>5. y + Len(N(j)) \in y + 1 .. Len(s) + 1 /\ Len(N(j)) \in Nat
      BY <3>1, NameWithin
    <3>6. After(j, y) \in y + 1 .. Len(s) + 1 /\ After(j, y) + d = After(j, y + d)
      BY <1>1, <2>3, <3>5 DEF After
    <3>7. f[After(j, y)] = g[After(j, y + d)]
      BY <2>4, <3>5, <3>6
    <3>. QED
      BY <2>1, <3>3, <3>4, <3>7
  <2>6. CASE ~Named(s, y)
    <3>1. ~Named(t, y + d)
      BY <1>2, <2>3, <2>6 DEF Named
    <3>2. f[y] = <<s[y]>> \o f[y + 1]
      BY <2>3, <2>6, ReadsOther
    <3>3. g[y + d] = <<t[y + d]>> \o g[y + d + 1]
      BY <2>3, <3>1, ReadsOther
    <3>4. y + 1 \in y + 1 .. Len(s) + 1 /\ y + 1 + d = y + d + 1
      BY <1>1, <2>3
    <3>5. f[y + 1] = g[y + d + 1]
      BY <2>4, <3>4
    <3>. QED
      BY <1>3, <2>1, <2>3, <3>2, <3>3, <3>5
  <2>. QED
    BY <2>5, <2>6
<1>5. \A y \in e .. Len(s) + 1 : f[y] = g[y + d]
  BY <1>4
<1>. QED
  BY <1>5 DEF d, e

\* ... and before it both begin alike.
Alike(f, g, q, p) == \E x \in Seq(Chars) : f[q] = x \o f[p] /\ g[q] = x \o g[p]

LEMMA AlikeLonger ==
  ASSUME NEW f, NEW g, NEW p, NEW q, NEW r, NEW c \in Seq(Chars),
         f[p] \in Seq(Chars), g[p] \in Seq(Chars),
         Alike(f, g, r, p), f[q] = c \o f[r], g[q] = c \o g[r]
  PROVE  Alike(f, g, q, p)
PROOF
<1>. DEFINE a == f[p]
            b == g[p]
<1>1. a \in Seq(Chars) /\ b \in Seq(Chars)
  OBVIOUS
<1>2. PICK x \in Seq(Chars) : f[r] = x \o a /\ g[r] = x \o b
  BY DEF Alike
<1>. HIDE DEF a, b
<1>3. c \o x \in Seq(Chars)
  BY ConcatProperties
<1>4. Regroups(c, x, a) /\ Regroups(c, x, b)
  BY <1>1, Regroup
<1>5. f[q] = (c \o x) \o a /\ g[q] = (c \o x) \o b
  BY <1>2, <1>4 DEF Regroups
<1>. QED
  BY <1>3, <1>5 DEF Alike, a, b

LEMMA AlikeBefore ==
  ASSUME variables \in VariableLists, Distinct,
         NEW s \in Seq(Chars), NEW t \in Seq(Chars), NEW text \in Texts,
         NEW f, Reads(f, s, text), NEW g, Reads(g, t, text),
         NEW p, NEW k \in DOMAIN variables, Spliced(s, t, p, k),
         \A x \in 1 .. Len(s) : s[x] = Dollar => Named(s, x)
  PROVE  \A q \in 1 .. p : Alike(f, g, q, p)
PROOF
<1>. DEFINE Bad == {q \in 1 .. p : ~Alike(f, g, q, p)}
<1>1. /\ Len(s) \in Nat /\ Len(t) \in Nat /\ p \in 1 .. Len(s) /\ p \in 1 .. Len(t) + 1
  <2>1. /\ Len(s) \in Nat /\ Len(t) \in Nat /\ p \in 1 .. Len(s)
        /\ Len(variables[k].value) \in Nat /\ p + Len(variables[k].value) <= Len(t) + 1
    BY SplicedPlaces
  <2>2. p \in 1 .. Len(t) + 1
    BY <2>1
  <2>. QED
    BY <2>1, <2>2
<1>2. f[p] \in Seq(Chars) /\ g[p] \in Seq(Chars)
  <2>1. p \in 1 .. Len(s) + 1
    BY <1>1
  <2>. QED
    BY <1>1, <2>1 DEF Reads
<1>3. \A q, r : \A c \in Seq(Chars) :
        Alike(f, g, r, p) /\ f[q] = c \o f[r] /\ g[q] = c \o g[r] => Alike(f, g, q, p)
  BY <1>2, AlikeLonger
<1>4. Bad = {}
  <2>. SUFFICES ASSUME Bad # {} PROVE FALSE
    OBVIOUS
  <2>1. PICK q \in Bad : \A x \in Bad : x <= q
    <3>1. Bad \in SUBSET (1 .. p) /\ p \in Nat
      BY <1>1
    <3>. HIDE DEF Bad
    <3>. QED
      BY <3>1, LastPosition
  <2>2. q # p
    <3>1. <<>> \in Seq(Chars) /\ f[p] = <<>> \o f[p] /\ g[p] = <<>> \o g[p]
      BY <1>2, ConcatEmptySeq
    <3>2. Alike(f, g, p, p)
      BY <3>1 DEF Alike
    <3>. QED
      BY <2>1, <3>2
  <2>3. q \in 1 .. p - 1 /\ q \in 1 .. Len(s) /\ q \in 1 .. Len(t)
    BY <1>1, <2>1, <2>2
  <2>4. \A z \in q + 1 .. p : Alike(f, g, z, p)
    <3>1. \A z \in q + 1 .. p : z \in 1 .. p /\ ~(z <= q)
      BY <1>1, <2>3
    <3>. QED
      BY <2>1, <3>1
  <2>5. CASE Named(s, q)
    <3>1. PICK j \in DOMAIN variables : At(j, s, q)
      BY <2>5 DEF Named
    <3>2. q + Len(N(j)) \in q + 1 .. p /\ At(j, t, q)
      BY <2>3, <3>1, NamesBefore
    <3>3. /\ f[q] = text[j] \o f[After(j, q)]
          /\ text[j] \in Seq(Chars) /\ f[After(j, q)] \in Seq(Chars)
      BY <3>1, ReadsName
    <3>4. /\ g[q] = text[j] \o g[After(j, q)]
          /\ text[j] \in Seq(Chars) /\ g[After(j, q)] \in Seq(Chars)
      BY <3>2, ReadsName
    <3>5. Alike(f, g, After(j, q), p)
      BY <2>4, <3>2 DEF After
    <3>6. Alike(f, g, q, p)
      BY <1>3, <3>3, <3>4, <3>5
    <3>. QED
      BY <2>1, <3>6
  <2>6. CASE ~Named(s, q)
    <3>1. s[q] # Dollar /\ t[q] = s[q]
      BY <2>3, <2>6 DEF Spliced
    <3>2. ~Named(t, q)
      BY <3>1, PlainPlace
    <3>3. f[q] = <<s[q]>> \o f[q + 1] /\ <<s[q]>> \in Seq(Chars)
      BY <2>3, <2>6, ReadsOther
    <3>4. g[q] = <<t[q]>> \o g[q + 1]
      BY <2>3, <3>2, ReadsOther
    <3>5. Alike(f, g, q + 1, p)
      <4>1. q + 1 \in q + 1 .. p
        BY <1>1, <2>3
      <4>. QED
        BY <2>4, <4>1
    <3>6. Alike(f, g, q, p)
      BY <1>3, <3>1, <3>3, <3>4, <3>5
    <3>. QED
      BY <2>1, <3>6
  <2>. QED
    BY <2>5, <2>6
<1>. QED
  BY <1>4

\* What a replacement does to the expansion.
PartsOf(s, t, text, k) ==
  \E x, y \in Seq(Chars) :
    /\ Expansion(variables, s, text) = x \o (text[k] \o y)
    /\ Expansion(variables, t, text) = x \o (variables[k].value \o y)

LEMMA ExpansionOfSpliced ==
  ASSUME variables \in VariableLists, Distinct,
         NEW s \in Seq(Chars), NEW t \in Seq(Chars), NEW text \in Texts,
         NEW p, NEW k \in DOMAIN variables, Spliced(s, t, p, k),
         \A x \in 1 .. Len(s) : s[x] = Dollar => Named(s, x)
  PROVE  PartsOf(s, t, text, k)
PROOF
<1>. DEFINE v == variables[k].value
            e == p + Len(N(k))
<1>1. PICK f : Reads(f, s, text) /\ Expansion(variables, s, text) = f[1]
  BY ExpansionReads
<1>2. PICK g : Reads(g, t, text) /\ Expansion(variables, t, text) = g[1]
  BY ExpansionReads
<1>3. At(k, s, p)
  BY DEF Spliced
<1>4. v \in Seq(Chars) /\ \A j \in 1 .. Len(v) : t[p + j - 1] = v[j] /\ v[j] # Dollar
  BY VariablesOf, NoDollars DEF Spliced
<1>5. /\ Len(v) \in Nat /\ p \in 1 .. Len(s) /\ Len(t) \in Nat
      /\ e \in p + 1 .. Len(s) + 1 /\ e + Shift(k) = p + Len(v) /\ p + Len(v) <= Len(t) + 1
  BY SplicedPlaces
<1>6. /\ f[p] = text[k] \o f[After(k, p)]
      /\ text[k] \in Seq(Chars) /\ f[After(k, p)] \in Seq(Chars)
  BY <1>1, <1>3, ReadsName
<1>7. f[e] = g[e + Shift(k)]
  <2>1. e \in p + Len(N(k)) .. Len(s) + 1
    BY <1>5
  <2>. HIDE DEF e
  <2>. QED
    BY <1>1, <1>2, <2>1, SameBehind
<1>8. g[p + Len(v)] \in Seq(Chars) /\ g[p] = v \o g[p + Len(v)]
  <2>1. p \in 1 .. Len(t) + 1
    BY <1>5
  <2>. HIDE DEF v
  <2>. QED
    BY <1>2, <1>4, <1>5, <2>1, PlainStretch
<1>9. PICK x \in Seq(Chars) : f[1] = x \o f[p] /\ g[1] = x \o g[p]
  <2>1. 1 \in 1 .. p
    BY <1>5
  <2>2. Alike(f, g, 1, p)
    BY <1>1, <1>2, <2>1, AlikeBefore
  <2>. QED
    BY <2>2 DEF Alike
<1>. DEFINE y == g[p + Len(v)]
<1>10. f[After(k, p)] = y
  BY <1>5, <1>7 DEF After
<1>11. y \in Seq(Chars) /\ f[p] = text[k] \o y /\ g[p] = v \o y
  BY <1>6, <1>8, <1>10
<1>12. /\ Expansion(variables, s, text) = x \o (text[k] \o y)
       /\ Expansion(variables, t, text) = x \o (v \o y)
  BY <1>1, <1>2, <1>9, <1>11
<1>. HIDE DEF y
<1>. QED
  BY <1>11, <1>12 DEF PartsOf

\* The two ways to expand a string.
LEMMA TextsOf ==
  ASSUME variables \in VariableLists
  PROVE  /\ ValueOf \in Texts /\ Longer \in Texts
         /\ \A k \in DOMAIN variables :
              /\ ValueOf[k] = variables[k].value
              /\ Len(variables[k].value) <= Len(Longer[k]) /\ Len(N(k)) <= Len(Longer[k])
PROOF
<1>1. \A k \in DOMAIN variables :
        /\ variables[k].value \in Seq(Chars) /\ N(k) \in Seq(Chars)
        /\ Len(variables[k].value) \in Nat /\ Len(N(k)) \in Nat
  BY VariablesOf, LenProperties
<1>2. \A k \in DOMAIN variables : N(k) = Name(variables[k])
  BY DEF N
<1>3. ValueOf \in Texts /\ \A k \in DOMAIN variables : ValueOf[k] = variables[k].value
  BY <1>1 DEF ValueOf, Texts
<1>4. ASSUME NEW k \in DOMAIN variables
      PROVE  /\ Longer[k] \in {variables[k].value, N(k)}
             /\ Len(variables[k].value) <= Len(Longer[k]) /\ Len(N(k)) <= Len(Longer[k])
  <2>1. Longer[k] = IF Len(variables[k].value) > Len(N(k)) THEN variables[k].value ELSE N(k)
    BY <1>2 DEF Longer
  <2>2. Len(variables[k].value) \in Nat /\ Len(N(k)) \in Nat
    BY <1>1
  <2>. QED
    BY <2>1, <2>2
<1>5. Longer \in Texts
  <2>1. \A k \in DOMAIN variables : Longer[k] \in Seq(Chars)
    BY <1>1, <1>4
  <2>2. Longer = [k \in DOMAIN variables |-> Longer[k]]
    BY DEF Longer
  <2>. QED
    BY <2>1, <2>2 DEF Texts
<1>. QED
  BY <1>3, <1>4, <1>5

\* A replacement leaves the string's expansion alone ...
LEMMA SameExpansion ==
  ASSUME variables \in VariableLists, Distinct,
         NEW s \in Seq(Chars), NEW t \in Seq(Chars),
         NEW p, NEW k \in DOMAIN variables, Spliced(s, t, p, k),
         \A x \in 1 .. Len(s) : s[x] = Dollar => Named(s, x)
  PROVE  Expansion(variables, t, ValueOf) = Expansion(variables, s, ValueOf)
PROOF
<1>1. ValueOf \in Texts /\ ValueOf[k] = variables[k].value
  BY TextsOf
<1>2. PICK x, y \in Seq(Chars) :
        /\ Expansion(variables, s, ValueOf) = x \o (ValueOf[k] \o y)
        /\ Expansion(variables, t, ValueOf) = x \o (variables[k].value \o y)
  <2>1. PartsOf(s, t, ValueOf, k)
    BY <1>1, ExpansionOfSpliced
  <2>. QED
    BY <2>1 DEF PartsOf
<1>. QED
  BY <1>1, <1>2

\* ... and needs no more room than before.
LEMMA NoMoreRoom ==
  ASSUME variables \in VariableLists, Distinct,
         NEW s \in Seq(Chars), NEW t \in Seq(Chars),
         NEW p, NEW k \in DOMAIN variables, Spliced(s, t, p, k),
         \A x \in 1 .. Len(s) : s[x] = Dollar => Named(s, x)
  PROVE  Len(Expansion(variables, t, Longer)) <= Len(Expansion(variables, s, Longer))
PROOF
<1>. DEFINE v == variables[k].value
            l == Longer[k]
<1>1. Longer \in Texts /\ Len(v) <= Len(l) /\ v \in Seq(Chars)
  BY TextsOf, VariablesOf
<1>2. l \in Seq(Chars)
  BY <1>1 DEF Texts
<1>3. PICK x, y \in Seq(Chars) :
        /\ Expansion(variables, s, Longer) = x \o (l \o y)
        /\ Expansion(variables, t, Longer) = x \o (v \o y)
  <2>1. PartsOf(s, t, Longer, k)
    BY <1>1, ExpansionOfSpliced
  <2>. QED
    BY <2>1 DEF PartsOf
<1>. HIDE DEF v, l
<1>4. l \o y \in Seq(Chars) /\ Len(l \o y) = Len(l) + Len(y)
  BY <1>2, ConcatProperties
<1>5. v \o y \in Seq(Chars) /\ Len(v \o y) = Len(v) + Len(y)
  BY <1>1, ConcatProperties
<1>6. Len(x \o (l \o y)) = Len(x) + Len(l \o y) /\ Len(x \o (v \o y)) = Len(x) + Len(v \o y)
  BY <1>4, <1>5, ConcatProperties
<1>7. Len(x) \in Nat /\ Len(y) \in Nat /\ Len(v) \in Nat /\ Len(l) \in Nat
  BY <1>1, <1>2, LenProperties
<1>8. Len(x) + (Len(v) + Len(y)) <= Len(x) + (Len(l) + Len(y))
  BY <1>1, <1>7
<1>. QED
  BY <1>3, <1>4, <1>5, <1>6, <1>8

\* That room is enough for the string as it is.
LEMMA RoomForString ==
  ASSUME variables \in VariableLists, Distinct, NEW s \in Seq(Chars)
  PROVE  /\ Len(s) \in Nat /\ Len(Expansion(variables, s, Longer)) \in Nat
         /\ Len(s) <= Len(Expansion(variables, s, Longer))
PROOF
<1>1. Longer \in Texts /\ \A k \in DOMAIN variables : Len(N(k)) <= Len(Longer[k])
  BY TextsOf
<1>2. PICK f : Reads(f, s, Longer) /\ Expansion(variables, s, Longer) = f[1]
  BY <1>1, ExpansionReads
<1>. DEFINE L == Len(s)
            Bad == {q \in 1 .. L + 1 : ~(L + 1 - q <= Len(f[q]))}
<1>3. L \in Nat
  BY LenProperties
<1>4. \A q \in 1 .. L + 1 : f[q] \in Seq(Chars) /\ Len(f[q]) \in Nat
  BY <1>2, LenProperties DEF Reads
<1>5. Bad = {}
  <2>. SUFFICES ASSUME Bad # {} PROVE FALSE
    OBVIOUS
  <2>1. PICK q \in Bad : \A x \in Bad : x <= q
    <3>1. Bad \in SUBSET (1 .. L + 1) /\ L + 1 \in Nat
      BY <1>3
    <3>. HIDE DEF Bad, L
    <3>. QED
      BY <3>1, LastPosition
  <2>2. q # L + 1
    <3>1. q = L + 1 => L + 1 - q = 0
      BY <1>3
    <3>. QED
      BY <1>4, <2>1, <3>1
  <2>3. q \in 1 .. L /\ q \in Nat
    BY <1>3, <2>1, <2>2
  <2>4. \A z \in q + 1 .. L + 1 : z \in 1 .. L + 1 /\ z \in Nat /\ L + 1 - z <= Len(f[z])
    <3>1. \A z \in q + 1 .. L + 1 : z \in 1 .. L + 1 /\ ~(z <= q) /\ z \in Nat
      BY <1>3, <2>3
    <3>. QED
      BY <2>1, <3>1
  <2>5. CASE Named(s, q)
    <3>1. PICK k \in DOMAIN variables : At(k, s, q)
      BY <2>5 DEF Named
    <3>. DEFINE z == After(k, q)
                l == Longer[k]
    <3>2. z \in q + 1 .. L + 1 /\ Len(N(k)) \in Nat /\ z = q + Len(N(k))
      BY <3>1, NameWithin DEF After
    <3>3. /\ f[q] = Longer[k] \o f[After(k, q)]
          /\ Longer[k] \in Seq(Chars) /\ f[After(k, q)] \in Seq(Chars)
      BY <1>1, <1>2, <3>1, ReadsName
    <3>4. Len(N(k)) <= Len(l)
      BY <1>1
    <3>. HIDE DEF z, l
    <3>5. Len(l) \in Nat /\ Len(f[q]) = Len(l) + Len(f[z])
      <4>1. l \in Seq(Chars) /\ f[z] \in Seq(Chars) /\ f[q] = l \o f[z]
        BY <3>3 DEF l, z
      <4>2. Len(l \o f[z]) = Len(l) + Len(f[z])
        BY <4>1, ConcatProperties
      <4>. QED
        BY <4>1, <4>2, LenProperties
    <3>6. Len(f[z]) \in Nat /\ L + 1 - z <= Len(f[z]) /\ z \in Nat
      BY <1>4, <2>4, <3>2
    <3>7. L + 1 - q <= Len(f[q])
      BY <1>3, <2>3, <3>2, <3>4, <3>5, <3>6
    <3>. QED
      BY <2>1, <3>7
  <2>6. CASE ~Named(s, q)
    <3>1. f[q] = <<s[q]>> \o f[q + 1] /\ f[q + 1] \in Seq(Chars) /\ <<s[q]>> \in Seq(Chars)
      BY <1>1, <1>2, <2>3, <2>6, ReadsOther
    <3>2. Len(f[q]) = 1 + Len(f[q + 1])
      <4>. DEFINE d == <<s[q]>>
      <4>1. d \in Seq(Chars) /\ Len(d) = 1
        BY <3>1
      <4>. HIDE DEF d
      <4>2. Len(d \o f[q + 1]) = Len(d) + Len(f[q + 1])
        BY <3>1, <4>1, ConcatProperties
      <4>. QED
        BY <3>1, <4>1, <4>2 DEF d
    <3>3. q + 1 \in q + 1 .. L + 1 /\ q + 1 \in 1 .. L + 1
      BY <1>3, <2>3
    <3>4. Len(f[q + 1]) \in Nat /\ L + 1 - (q + 1) <= Len(f[q + 1])
      BY <1>4, <2>4, <3>3
    <3>5. L + 1 - q <= Len(f[q])
      BY <1>3, <2>3, <3>2, <3>4
    <3>. QED
      BY <2>1, <3>5
  <2>. QED
    BY <2>5, <2>6
<1>6. 1 \in 1 .. L + 1 /\ L + 1 - 1 = L
  BY <1>3
<1>7. L <= Len(f[1])
  BY <1>5, <1>6
<1>. QED
  BY <1>2, <1>3, <1>4, <1>6, <1>7

\* What the sprintf writes.
Rest(s, p, n) == SubSeq(s, p + n, Len(s))
Result(s, p, n, new) == SubSeq(s, 1, p - 1) \o new \o Rest(s, p, n)

\* t is s with `new' in place of n characters at p.
Put(s, t, p, n, new) ==
  /\ Len(t) = Len(s) - n + Len(new)
  /\ \A x \in 1 .. p - 1 : t[x] = s[x]
  /\ \A j \in 1 .. Len(new) : t[p + j - 1] = new[j]
  /\ \A y \in p + n .. Len(s) : t[y + (Len(new) - n)] = s[y]

LEMMA ResultIs ==
  ASSUME NEW s \in Seq(Chars), NEW new \in Seq(Chars), NEW n \in Nat,
         NEW p \in 1 .. Len(s), p + n <= Len(s) + 1
  PROVE  /\ Result(s, p, n, new) \in Seq(Chars)
         /\ Put(s, Result(s, p, n, new), p, n, new)
         /\ Len(Rest(s, p, n)) \in Nat
         /\ Len(new) + Len(Rest(s, p, n)) <= Len(Result(s, p, n, new))
PROOF
<1>. DEFINE L == Len(s)
            m == Len(new)
            a == SubSeq(s, 1, p - 1)
            c == Rest(s, p, n)
            b == a \o new
            t == b \o c
<1>1. L \in Nat /\ m \in Nat /\ \A x \in 1 .. L : s[x] \in Chars
  BY LenProperties
<1>2. a \in Seq(Chars) /\ Len(a) = p - 1 /\ \A x \in 1 .. p - 1 : a[x] = s[x]
  <2>1. 1 \in Int /\ p - 1 \in Int /\ \A x \in 1 .. p - 1 : x \in 1 .. L /\ 1 + x - 1 = x
    BY <1>1
  <2>2. \A x \in 1 .. p - 1 : s[x] \in Chars
    BY <1>1, <2>1
  <2>3. (1 <= p - 1 => (p - 1) - 1 + 1 = p - 1) /\ (~(1 <= p - 1) => p - 1 = 0)
    BY <1>1
  <2>4. /\ SubSeq(s, 1, p - 1) \in Seq(Chars)
        /\ Len(SubSeq(s, 1, p - 1)) = IF 1 <= p - 1 THEN (p - 1) - 1 + 1 ELSE 0
        /\ \A x \in 1 .. (p - 1) - 1 + 1 : SubSeq(s, 1, p - 1)[x] = s[1 + x - 1]
    BY <2>1, <2>2, SubSeqProperties
  <2>5. (p - 1) - 1 + 1 = p - 1
    BY <1>1
  <2>6. Len(a) = p - 1
    BY <2>3, <2>4
  <2>7. \A x \in 1 .. p - 1 : a[x] = s[x]
    BY <2>1, <2>4, <2>5
  <2>. QED
    BY <2>4, <2>6, <2>7
<1>3. /\ c \in Seq(Chars) /\ Len(c) = L - (p + n) + 1
      /\ \A x \in 1 .. L - (p + n) + 1 : c[x] = s[p + n + x - 1]
  <2>1. p + n \in Int /\ L \in Int /\ \A x \in p + n .. L : s[x] \in Chars
    BY <1>1
  <2>2. ~(p + n <= L) => L - (p + n) + 1 = 0
    BY <1>1
  <2>3. /\ SubSeq(s, p + n, L) \in Seq(Chars)
        /\ Len(SubSeq(s, p + n, L)) = IF p + n <= L THEN L - (p + n) + 1 ELSE 0
        /\ \A x \in 1 .. L - (p + n) + 1 : SubSeq(s, p + n, L)[x] = s[p + n + x - 1]
    <3>. HIDE DEF L
    <3>. QED
      BY <2>1, SubSeqProperties, SMTT(40)
  <2>. QED
    BY <2>2, <2>3 DEF Rest
<1>. HIDE DEF a, c
<1>4. /\ b \in Seq(Chars) /\ Len(b) = Len(a) + m
      /\ \A x \in 1 .. Len(a) + m : b[x] = IF x <= Len(a) THEN a[x] ELSE new[x - Len(a)]
  BY <1>2, ConcatProperties
<1>. HIDE DEF b
<1>5. /\ t \in Seq(Chars) /\ Len(t) = Len(b) + Len(c)
      /\ \A x \in 1 .. Len(b) + Len(c) : t[x] = IF x <= Len(b) THEN b[x] ELSE c[x - Len(b)]
  <2>1. b \in Seq(Chars) /\ c \in Seq(Chars)
    BY <1>3, <1>4
  <2>. QED
    BY <2>1, ConcatProperties
<1>6. Result(s, p, n, new) = t
  BY DEF Result, a, b, c
<1>. HIDE DEF t
<1>7. /\ Len(a) = p - 1 /\ Len(b) = p - 1 + m /\ Len(c) = L - (p + n) + 1
      /\ Len(t) = L - n + m /\ Len(b) + Len(c) = L - n + m /\ Len(c) \in Nat
  <2>1. Len(a) = p - 1 /\ Len(b) = Len(a) + m /\ Len(c) = L - (p + n) + 1 /\ Len(t) = Len(b) + Len(c)
    BY <1>2, <1>3, <1>4, <1>5
  <2>. HIDE DEF L, m
  <2>. QED
    BY <1>1, <2>1
<1>8. ASSUME NEW x \in 1 .. p - 1 PROVE t[x] = s[x]
  <2>1. /\ x \in 1 .. Len(a) + m /\ x \in 1 .. Len(b) + Len(c) /\ x <= Len(a) /\ x <= Len(b)
    BY <1>1, <1>7
  <2>. QED
    BY <1>2, <1>4, <1>5, <2>1
<1>9. ASSUME NEW j \in 1 .. m PROVE t[p + j - 1] = new[j]
  <2>. DEFINE x == p + j - 1
  <2>1. /\ x \in 1 .. Len(a) + m /\ x \in 1 .. Len(b) + Len(c) /\ ~(x <= Len(a)) /\ x <= Len(b)
        /\ x - Len(a) = j
    BY <1>1, <1>7
  <2>. HIDE DEF x
  <2>2. t[x] = new[j]
    BY <1>4, <1>5, <2>1
  <2>. QED
    BY <2>2 DEF x
<1>10. ASSUME NEW y \in p + n .. L PROVE t[y + (m - n)] = s[y]
  <2>. DEFINE x == y + (m - n)
              z == x - Len(b)
  <2>1. /\ x \in 1 .. Len(b) + Len(c) /\ ~(x <= Len(b))
        /\ z \in 1 .. L - (p + n) + 1 /\ p + n + z - 1 = y
    BY <1>1, <1>7
  <2>. HIDE DEF x
  <2>2. t[x] = c[z]
    BY <1>5, <2>1
  <2>. HIDE DEF z
  <2>3. c[z] = s[p + n + z - 1]
    BY <1>3, <2>1
  <2>4. t[x] = s[y]
    BY <2>1, <2>2, <2>3
  <2>. QED
    BY <2>4 DEF x
<1>11. Put(s, t, p, n, new)
  BY <1>7, <1>8, <1>9, <1>10 DEF Put
<1>12. m + Len(c) <= Len(t)
  BY <1>1, <1>7
<1>. QED
  BY <1>5, <1>6, <1>7, <1>11, <1>12 DEF c

LEMMA ResultIsSpliced ==
  ASSUME variables \in VariableLists, NEW s \in Seq(Chars), NEW p,
         NEW k \in DOMAIN variables, At(k, s, p)
  PROVE  /\ Result(s, p, Len(N(k)), variables[k].value) \in Seq(Chars)
         /\ Spliced(s, Result(s, p, Len(N(k)), variables[k].value), p, k)
PROOF
<1>. DEFINE n == Len(N(k))
            v == variables[k].value
            t == Result(s, p, n, v)
<1>1. v \in Seq(Chars) /\ Len(v) \in Nat
  BY VariablesOf
<1>2. n \in Nat /\ p \in 1 .. Len(s) /\ p + n <= Len(s) + 1 /\ Len(s) \in Nat
  BY AtMeans, LenProperties
<1>3. Shift(k) = Len(v) - n
  BY DEF Shift
<1>4. /\ t \in Seq(Chars) /\ Len(t) = Len(s) - n + Len(v)
      /\ \A x \in 1 .. p - 1 : t[x] = s[x]
      /\ \A j \in 1 .. Len(v) : t[p + j - 1] = v[j]
      /\ \A y \in p + n .. Len(s) : t[y + (Len(v) - n)] = s[y]
  <2>. HIDE DEF n, v
  <2>1. t \in Seq(Chars) /\ Put(s, t, p, n, v)
    BY <1>1, <1>2, ResultIs
  <2>. QED
    BY <2>1 DEF Put
<1>. HIDE DEF t
<1>5. Len(t) = Len(s) + Shift(k)
  BY <1>1, <1>2, <1>3, <1>4
<1>6. \A y \in p + n .. Len(s) : t[y + Shift(k)] = s[y]
  BY <1>3, <1>4
<1>7. Spliced(s, t, p, k)
  BY <1>4, <1>5, <1>6 DEF Spliced
<1>. QED
  BY <1>4, <1>7 DEF t

\* A replacement makes no new dollar, and takes apart no other name.
LEMMA NamesAfter ==
  ASSUME variables \in VariableLists, Distinct,
         NEW s \in Seq(Chars), NEW t \in Seq(Chars),
         NEW p, NEW k \in DOMAIN variables, Spliced(s, t, p, k),
         NEW J \in SUBSET DOMAIN variables,
         \A x \in 1 .. Len(s) : s[x] = Dollar => \E j \in J : At(j, s, x)
  PROVE  \A x \in 1 .. Len(t) : t[x] = Dollar => \E j \in J : At(j, t, x)
PROOF
<1>. SUFFICES ASSUME NEW x \in 1 .. Len(t), t[x] = Dollar
              PROVE  \E j \in J : At(j, t, x)
  OBVIOUS
<1>. DEFINE n == Len(N(k))
            m == Len(variables[k].value)
            d == Shift(k)
<1>1. /\ Len(s) \in Nat /\ Len(t) \in Nat /\ m \in Nat /\ n \in Nat /\ d \in Int
      /\ p \in 1 .. Len(s) /\ p + n + d = p + m /\ Len(t) = Len(s) + d
  <2>1. Len(t) = Len(s) + d
    BY DEF Spliced
  <2>. QED
    BY <2>1, SplicedPlaces
<1>2. CASE x < p
  <2>1. x \in 1 .. p - 1 /\ x \in 1 .. Len(s)
    BY <1>1, <1>2
  <2>2. s[x] = Dollar
    BY <2>1 DEF Spliced
  <2>3. PICK j \in J : At(j, s, x)
    BY <2>1, <2>2
  <2>4. At(j, t, x)
    BY <2>1, <2>3, NamesBefore
  <2>. QED
    BY <2>4
<1>3. CASE p <= x /\ x < p + m
  <2>1. x - p + 1 \in 1 .. m /\ p + (x - p + 1) - 1 = x
    BY <1>1, <1>3
  <2>2. t[p + (x - p + 1) - 1] = variables[k].value[x - p + 1]
    BY <2>1 DEF Spliced
  <2>3. variables[k].value[x - p + 1] # Dollar
    BY <2>1, NoDollars
  <2>. QED
    BY <2>1, <2>2, <2>3
<1>4. CASE p + m <= x
  <2>. DEFINE y == x - d
  <2>1. y \in p + n .. Len(s) /\ y \in 1 .. Len(s) /\ y + d = x
    <3>. HIDE DEF n, m, d
    <3>. QED
      BY <1>1, <1>4
  <2>. HIDE DEF y
  <2>2. s[y] = Dollar
    <3>1. t[y + Shift(k)] = s[y]
      BY <2>1 DEF Spliced
    <3>. QED
      BY <2>1, <3>1
  <2>3. PICK j \in J : At(j, s, y)
    BY <2>1, <2>2
  <2>4. At(j, t, y + Shift(k))
    BY <2>1, <2>3, NamesBehind
  <2>. QED
    BY <2>1, <2>4
<1>. QED
  BY <1>1, <1>2, <1>3, <1>4

-----------------------------------------------------------------------------
(* The program.                                                            *)

\* Every dollar left begins the name of a variable still to come.
NamesLeft ==
  \A p \in 1 .. Len(str) :
    str[p] = Dollar => \E k \in i .. Len(variables) : At(k, str, p)

\* On the way the string keeps the expansion of the template, and the room it
\* needs never grows.
OnTheWay ==
  /\ pc \notin {"overcopied", "overrun"}
  /\ NamesLeft
  /\ Expansion(variables, str, ValueOf) = Expanded
  /\ Len(Expansion(variables, str, Longer)) <= Len(Expansion(variables, template, Longer))
  /\ pc = "done" => i > Len(variables)

SubstitutionInv ==
  /\ TypeOK
  /\ pc = "copy" => i = 1
  /\ WellFormed /\ RoomToGrow => pc = "copy" \/ OnTheWay

LEMMA InitInv == Init => SubstitutionInv
PROOF
<1>. SUFFICES ASSUME Init PROVE SubstitutionInv
  OBVIOUS
<1>1. Len(variables) \in Nat
  BY VariablesOf DEF Init
<1>2. <<>> \in Seq(Chars) /\ Len(<<>>) = 0 /\ Size > 0
  BY SubstitutionAssumption
<1>3. TypeOK
  BY <1>1, <1>2 DEF Init, TypeOK
<1>. QED
  BY <1>3 DEF SubstitutionInv, Init

\* What the types say of the template.
LEMMA TemplateOf ==
  ASSUME template \in Templates
  PROVE  template \in Seq(Chars) /\ Len(template) \in Nat
PROOF
<1>1. template \in Seq(Chars)
  BY SubstitutionAssumption
<1>. QED
  BY <1>1, LenProperties

\* A template that is copied fits its buffer.
LEMMA CopyTypes ==
  ASSUME TypeOK, Copy
  PROVE  TypeOK' /\ pc' # "copy"
PROOF
<1>1. /\ UNCHANGED <<template, variables, i>>
      /\ \/ Fits /\ str' = template /\ pc' = "replace"
         \/ ~Fits /\ pc' = "overcopied" /\ str' = str
  BY DEF Copy
<1>2. template \in Seq(Chars) /\ Len(template) \in Nat /\ Size \in Nat
  BY TemplateOf, SubstitutionAssumption DEF TypeOK
<1>3. CASE Fits /\ str' = template /\ pc' = "replace"
  <2>1. Len(template) < Size
    BY <1>2, <1>3 DEF Fits, Overruns
  <2>. QED
    BY <1>1, <1>2, <1>3, <2>1 DEF TypeOK
<1>4. CASE ~Fits /\ pc' = "overcopied" /\ str' = str
  BY <1>1, <1>4 DEF TypeOK
<1>. QED
  BY <1>1, <1>3, <1>4

\* With room everything fits where it is copied: the template is no longer than
\* the room it needs.
LEMMA CopyInv ==
  ASSUME TypeOK, WellFormed, RoomToGrow, i = 1, Copy
  PROVE  OnTheWay'
PROOF
<1>1. /\ template \in Seq(Chars) /\ Len(template) \in Nat /\ DOMAIN template = 1 .. Len(template)
      /\ variables \in VariableLists /\ Size \in Nat
      /\ DOMAIN variables = 1 .. Len(variables) /\ Len(variables) \in Nat
  BY TemplateOf, LenProperties, VariablesOf, SubstitutionAssumption DEF TypeOK
<1>2. Distinct
  BY DEF WellFormed, Distinct
<1>3. /\ Len(Expansion(variables, template, Longer)) \in Nat
      /\ Len(template) <= Len(Expansion(variables, template, Longer))
  BY <1>1, <1>2, RoomForString
<1>4. Fits
  <2>1. Len(Expansion(variables, template, Longer)) < Size
    BY DEF RoomToGrow
  <2>2. Len(template) < Size
    BY <1>1, <1>3, <2>1
  <2>3. ~Overruns(template)
    BY <1>1, <2>2 DEF Overruns
  <2>. QED
    BY <2>3 DEF Fits, RoomToGrow
<1>5. str' = template /\ pc' = "replace" /\ i' = 1 /\ UNCHANGED <<template, variables>>
  BY <1>4 DEF Copy
<1>6. NamesLeft'
  <2>1. \A p \in 1 .. Len(template) :
          template[p] = Dollar => \E k \in 1 .. Len(variables) : At(k, template, p)
    BY <1>1 DEF WellFormed, At
  <2>. QED
    BY <1>5, <2>1 DEF NamesLeft, At, NameAt
<1>7. ValueOf' = ValueOf /\ Longer' = Longer
  BY <1>5 DEF ValueOf, Longer
<1>8. (Expansion(variables, str, ValueOf) = Expanded)'
  BY <1>5, <1>7 DEF Expanded
<1>9. (Len(Expansion(variables, str, Longer)) <= Len(Expansion(variables, template, Longer)))'
  BY <1>3, <1>5, <1>7
<1>. QED
  BY <1>5, <1>6, <1>8, <1>9 DEF OnTheWay

\* The string replace_string writes.
NewString(p) == Result(str, p, Len(N(i)), Replacement(variables[i]))

\* What is found, and what the action makes of it.
LEMMA ReplaceIs ==
  ASSUME TypeOK, Replace
  PROVE  \E p \in 1 .. Len(str) :
           /\ i \in DOMAIN variables /\ At(i, str, p)
           /\ Replacement(variables[i]) \in Seq(Chars)
           /\ \/ /\ Accepted(Replacement(variables[i]), Rest(str, p, Len(N(i))))
                 /\ str' = NewString(p)
                 /\ pc' = IF Overruns(NewString(p)) THEN "overrun" ELSE pc
                 /\ i' = i
              \/ /\ ~Accepted(Replacement(variables[i]), Rest(str, p, Len(N(i))))
                 /\ i' = i + 1
                 /\ str' = str /\ pc' = pc
PROOF
<1>1. PICK p \in DOMAIN str :
        /\ Found(p, N(i), str)
        /\ \/ /\ Accepted(Replacement(variables[i]), Rest(str, p, Len(N(i))))
              /\ str' = NewString(p)
              /\ pc' = IF Overruns(NewString(p)) THEN "overrun" ELSE pc
              /\ i' = i
           \/ /\ ~Accepted(Replacement(variables[i]), Rest(str, p, Len(N(i))))
              /\ i' = i + 1
              /\ str' = str /\ pc' = pc
  BY DEF Replace, NewString, Result, Rest, N, AfterReplacement, AfterRefusal
<1>2. i \in DOMAIN variables /\ DOMAIN str = 1 .. Len(str)
  <2>1. i \in 1 .. Len(variables) + 1 /\ i <= Len(variables) /\ str \in Seq(Chars)
    BY DEF TypeOK, Replace, Busy
  <2>2. Len(variables) \in Nat /\ DOMAIN variables = 1 .. Len(variables)
    BY VariablesOf DEF TypeOK
  <2>. QED
    BY <2>1, <2>2, LenProperties
<1>3. At(i, str, p)
  BY <1>1 DEF Found, At, NameAt, N
<1>4. Replacement(variables[i]) \in Seq(Chars)
  BY <1>2, VariablesOf DEF TypeOK, Replacement, N
<1>. QED
  BY <1>1, <1>2, <1>3, <1>4

LEMMA ReplaceTypes ==
  ASSUME TypeOK, Replace
  PROVE  TypeOK'
PROOF
<1>1. PICK p \in 1 .. Len(str) :
        /\ i \in DOMAIN variables /\ At(i, str, p)
        /\ Replacement(variables[i]) \in Seq(Chars)
        /\ \/ /\ Accepted(Replacement(variables[i]), Rest(str, p, Len(N(i))))
              /\ str' = NewString(p)
              /\ pc' = IF Overruns(NewString(p)) THEN "overrun" ELSE pc
              /\ i' = i
           \/ /\ ~Accepted(Replacement(variables[i]), Rest(str, p, Len(N(i))))
              /\ i' = i + 1
              /\ str' = str /\ pc' = pc
  BY ReplaceIs
<1>2. template' = template /\ variables' = variables /\ pc = "replace"
  BY DEF Replace, Busy
<1>3. /\ Len(variables) \in Nat /\ DOMAIN variables = 1 .. Len(variables)
      /\ str \in Seq(Chars) /\ Size \in Nat
  BY VariablesOf, SubstitutionAssumption DEF TypeOK
<1>4. i' \in 1 .. Len(variables) + 1
  BY <1>1, <1>3
<1>5. NewString(p) \in Seq(Chars) /\ Len(NewString(p)) \in Nat
  <2>1. Len(N(i)) \in Nat /\ p + Len(N(i)) <= Len(str) + 1
    BY <1>1, <1>3, AtMeans DEF TypeOK
  <2>2. NewString(p) \in Seq(Chars)
    BY <1>1, <1>3, <2>1, ResultIs DEF NewString
  <2>. QED
    BY <2>2, LenProperties
<1>6. CASE str' = str /\ pc' = pc
  BY <1>2, <1>4, <1>6 DEF TypeOK
<1>7. CASE str' = NewString(p) /\ pc' = IF Overruns(NewString(p)) THEN "overrun" ELSE pc
  <2>1. /\ pc' \in {"replace", "overrun"}
        /\ pc' \notin {"overcopied", "overrun"} => Len(str') < Size
    BY <1>2, <1>3, <1>5, <1>7 DEF Overruns
  <2>. QED
    BY <1>2, <1>4, <1>5, <1>7, <2>1 DEF TypeOK
<1>. QED
  BY <1>1, <1>6, <1>7

\* With room, replace_string never refuses and never writes too much.
LEMMA ReplaceInv ==
  ASSUME TypeOK, WellFormed, RoomToGrow, OnTheWay, Replace
  PROVE  OnTheWay'
PROOF
<1>1. PICK p \in 1 .. Len(str) :
        /\ i \in DOMAIN variables /\ At(i, str, p)
        /\ Replacement(variables[i]) \in Seq(Chars)
        /\ \/ /\ Accepted(Replacement(variables[i]), Rest(str, p, Len(N(i))))
              /\ str' = NewString(p)
              /\ pc' = IF Overruns(NewString(p)) THEN "overrun" ELSE pc
              /\ i' = i
           \/ /\ ~Accepted(Replacement(variables[i]), Rest(str, p, Len(N(i))))
              /\ i' = i + 1
              /\ str' = str /\ pc' = pc
  BY ReplaceIs
<1>2. template' = template /\ variables' = variables /\ pc = "replace"
  BY DEF Replace, Busy
<1>3. /\ Len(variables) \in Nat /\ DOMAIN variables = 1 .. Len(variables)
      /\ variables \in VariableLists /\ str \in Seq(Chars) /\ template \in Seq(Chars)
      /\ i \in 1 .. Len(variables) + 1 /\ Size \in Nat
  BY VariablesOf, TemplateOf, SubstitutionAssumption DEF TypeOK
<1>4. Distinct
  BY DEF WellFormed, Distinct
<1>. DEFINE v == variables[i].value
            rest == Rest(str, p, Len(N(i)))
            t == NewString(p)
<1>5. Replacement(variables[i]) = v
  BY <1>1, <1>4 DEF Replacement, Distinct
<1>6. t = Result(str, p, Len(N(i)), v)
  BY <1>5 DEF NewString
<1>7. t \in Seq(Chars) /\ Spliced(str, t, p, i)
  BY <1>1, <1>3, <1>6, ResultIsSpliced
<1>8. \A x \in 1 .. Len(str) : str[x] = Dollar => \E j \in i .. Len(variables) : At(j, str, x)
  BY DEF OnTheWay, NamesLeft
<1>9. i .. Len(variables) \in SUBSET DOMAIN variables
  BY <1>3
<1>10. \A x \in 1 .. Len(str) : str[x] = Dollar => Named(str, x)
  BY <1>8, <1>9 DEF Named
<1>. HIDE DEF t
<1>11. \A x \in 1 .. Len(t) : t[x] = Dollar => \E j \in i .. Len(variables) : At(j, t, x)
  BY <1>1, <1>3, <1>4, <1>7, <1>8, <1>9, NamesAfter
<1>12. Expansion(variables, t, ValueOf) = Expanded
  <2>1. Expansion(variables, t, ValueOf) = Expansion(variables, str, ValueOf)
    BY <1>1, <1>3, <1>4, <1>7, <1>10, SameExpansion
  <2>. QED
    BY <2>1 DEF OnTheWay
<1>13. /\ Len(Expansion(variables, t, Longer)) <= Len(Expansion(variables, template, Longer))
       /\ Len(t) < Size /\ Len(t) \in Nat
  <2>1. Len(Expansion(variables, t, Longer)) <= Len(Expansion(variables, str, Longer))
    BY <1>1, <1>3, <1>4, <1>7, <1>10, NoMoreRoom
  <2>2. /\ Len(t) \in Nat /\ Len(Expansion(variables, t, Longer)) \in Nat
        /\ Len(t) <= Len(Expansion(variables, t, Longer))
    BY <1>3, <1>4, <1>7, RoomForString
  <2>3. /\ Len(Expansion(variables, str, Longer)) \in Nat
        /\ Len(Expansion(variables, template, Longer)) \in Nat
    BY <1>3, <1>4, RoomForString
  <2>4. /\ Len(Expansion(variables, str, Longer)) <= Len(Expansion(variables, template, Longer))
        /\ Len(Expansion(variables, template, Longer)) < Size
    BY DEF OnTheWay, RoomToGrow
  <2>. QED
    BY <1>3, <2>1, <2>2, <2>3, <2>4
<1>14. Len(v) + Len(rest) < Size
  <2>1. Len(N(i)) \in Nat /\ p + Len(N(i)) <= Len(str) + 1 /\ v \in Seq(Chars) /\ Len(v) \in Nat
    BY <1>1, <1>3, AtMeans, VariablesOf
  <2>2. Len(rest) \in Nat /\ Len(v) + Len(rest) <= Len(t)
    <3>. HIDE DEF v
    <3>. QED
      BY <1>3, <1>6, <2>1, ResultIs
  <2>. QED
    BY <1>3, <1>13, <2>1, <2>2
<1>15. str' = t /\ pc' = "replace" /\ i' = i
  <2>1. Accepted(Replacement(variables[i]), rest)
    BY <1>5, <1>14 DEF Accepted
  <2>2. ~Overruns(t)
    BY <1>3, <1>13 DEF Overruns
  <2>. QED
    BY <1>1, <1>2, <2>1, <2>2 DEF t
<1>16. NamesLeft'
  BY <1>2, <1>11, <1>15 DEF NamesLeft, At, NameAt
<1>17. ValueOf' = ValueOf /\ Longer' = Longer
  BY <1>2 DEF ValueOf, Longer
<1>18. (Expansion(variables, str, ValueOf) = Expanded)'
  BY <1>2, <1>12, <1>15, <1>17 DEF Expanded
<1>19. (Len(Expansion(variables, str, Longer)) <= Len(Expansion(variables, template, Longer)))'
  BY <1>2, <1>13, <1>15, <1>17
<1>. QED
  BY <1>15, <1>16, <1>18, <1>19 DEF OnTheWay

\* A name that is found no more has no dollar left.
LEMMA NextVariableInv ==
  ASSUME TypeOK, NextVariable
  PROVE  TypeOK' /\ (OnTheWay => OnTheWay')
PROOF
<1>1. /\ pc = "replace" /\ i <= Len(variables) /\ i' = i + 1
      /\ \A p : i \in DOMAIN variables => ~At(i, str, p)
      /\ UNCHANGED <<template, variables, str, pc>>
  BY DEF NextVariable, Busy, At, NameAt
<1>2. /\ Len(variables) \in Nat /\ DOMAIN variables = 1 .. Len(variables)
      /\ i \in 1 .. Len(variables) + 1
  BY VariablesOf DEF TypeOK
<1>3. i' \in 1 .. Len(variables) + 1 /\ i \in DOMAIN variables
  BY <1>1, <1>2
<1>4. TypeOK'
  BY <1>1, <1>3 DEF TypeOK
<1>5. ASSUME OnTheWay PROVE NamesLeft'
  <2>1. ASSUME NEW p \in 1 .. Len(str), str[p] = Dollar
        PROVE  \E k \in i + 1 .. Len(variables) : At(k, str, p)
    <3>1. PICK k \in i .. Len(variables) : At(k, str, p)
      BY <1>5, <2>1 DEF OnTheWay, NamesLeft
    <3>2. k # i
      BY <1>1, <1>3, <3>1
    <3>3. k \in i + 1 .. Len(variables)
      BY <1>2, <3>2
    <3>. QED
      BY <3>1, <3>3
  <2>. QED
    BY <1>1, <2>1 DEF NamesLeft, At
<1>6. ValueOf' = ValueOf /\ Longer' = Longer
  BY <1>1 DEF ValueOf, Longer
<1>7. OnTheWay => OnTheWay'
  BY <1>1, <1>5, <1>6 DEF OnTheWay, Expanded
<1>. QED
  BY <1>4, <1>7

LEMMA FinishInv ==
  ASSUME TypeOK, Finish
  PROVE  TypeOK' /\ (OnTheWay => OnTheWay')
PROOF
<1>1. /\ pc = "replace" /\ pc' = "done" /\ i > Len(variables)
      /\ UNCHANGED <<template, variables, str, i>>
  BY DEF Finish
<1>2. TypeOK'
  BY <1>1 DEF TypeOK
<1>3. ValueOf' = ValueOf /\ Longer' = Longer /\ (NamesLeft => NamesLeft')
  BY <1>1 DEF ValueOf, Longer, NamesLeft, At
<1>4. OnTheWay => OnTheWay'
  BY <1>1, <1>3 DEF OnTheWay, Expanded
<1>. QED
  BY <1>2, <1>4

\* What a configuration is does not change.
LEMMA SameConfiguration ==
  ASSUME [Next]_vars
  PROVE  (WellFormed /\ RoomToGrow)' => WellFormed /\ RoomToGrow
PROOF
<1>1. template' = template /\ variables' = variables
  BY DEF Next, Copy, Replace, NextVariable, Finish, vars
<1>2. Longer' = Longer
  BY <1>1 DEF Longer
<1>3. WellFormed' => WellFormed
  BY <1>1 DEF WellFormed
<1>4. RoomToGrow' => RoomToGrow
  BY <1>1, <1>2 DEF RoomToGrow
<1>. QED
  BY <1>3, <1>4

LEMMA NextInv == SubstitutionInv /\ [Next]_vars => SubstitutionInv'
PROOF
<1>. SUFFICES ASSUME SubstitutionInv, [Next]_vars PROVE SubstitutionInv'
  OBVIOUS
<1>. DEFINE Room == WellFormed /\ RoomToGrow
<1>1. TypeOK /\ (pc = "copy" => i = 1) /\ (Room => pc = "copy" \/ OnTheWay)
  BY DEF SubstitutionInv
<1>2. /\ TypeOK' /\ (pc' = "copy" => i' = 1)
      /\ Room => pc' = "copy" \/ OnTheWay'
  <2>1. CASE Copy
    <3>1. TypeOK' /\ pc' # "copy" /\ i = 1
      BY <1>1, <2>1, CopyTypes DEF Copy
    <3>. QED
      BY <1>1, <2>1, <3>1, CopyInv
  <2>2. CASE Replace
    <3>1. pc = "replace" /\ pc' # "copy"
      BY <2>2 DEF Replace, Busy
    <3>. QED
      BY <1>1, <2>2, <3>1, ReplaceTypes, ReplaceInv
  <2>3. CASE NextVariable
    <3>1. pc = "replace" /\ pc' = pc
      BY <2>3 DEF NextVariable, Busy
    <3>. QED
      BY <1>1, <2>3, <3>1, NextVariableInv
  <2>4. CASE Finish
    <3>1. pc = "replace" /\ pc' = "done"
      BY <2>4 DEF Finish
    <3>. QED
      BY <1>1, <2>4, <3>1, FinishInv
  <2>5. CASE UNCHANGED vars
    <3>1. ValueOf' = ValueOf /\ Longer' = Longer /\ (NamesLeft => NamesLeft')
      BY <2>5 DEF vars, ValueOf, Longer, NamesLeft, At
    <3>2. TypeOK' /\ (OnTheWay => OnTheWay') /\ pc' = pc /\ i' = i
      BY <1>1, <2>5, <3>1 DEF vars, TypeOK, OnTheWay, Expanded
    <3>. QED
      BY <1>1, <3>2
  <2>. QED
    BY <2>1, <2>2, <2>3, <2>4, <2>5 DEF Next
<1>3. Room' => Room
  BY SameConfiguration
<1>. QED
  BY <1>2, <1>3 DEF SubstitutionInv

\* The inductive invariant: with a well formed configuration that has room,
\* what is left to do of the string gives what the template gives
\* (config_utils.c:244-260, string_utils.c:52-70).
THEOREM SubstitutionInvariant == Spec => []SubstitutionInv
PROOF
<1>1. Init => SubstitutionInv
  BY InitInv
<1>2. SubstitutionInv /\ [Next]_vars => SubstitutionInv'
  BY NextInv
<1>. QED
  BY <1>1, <1>2, PTL DEF Spec

\* The ranges, and a string that fits its buffer with its NUL for as long as
\* nothing has been written past the end of one, for templates and variables of
\* any length (config_utils.c:228, 288, string_utils.c:58-64).
THEOREM SubstitutionTypes == Spec => []TypeOK
PROOF
<1>1. SubstitutionInv => TypeOK
  BY DEF SubstitutionInv
<1>. QED
  BY <1>1, SubstitutionInvariant, PTL

\* The loops over the variables and their occurrences end in the expansion of
\* the template: replacing the names one by one, in any order of the variables,
\* is the same as reading the template once, no replacement is refused and
\* nothing, the template and the variables as they are copied included, is
\* written past the end of a buffer
\* (config_utils.c:244-260, 288-289, string_utils.c:52-70).
THEOREM ExpandsAsRead == Spec => []ExpandsTemplate
PROOF
<1>1. SubstitutionInv => ExpandsTemplate
  <2>. SUFFICES ASSUME SubstitutionInv, WellFormed, RoomToGrow
                PROVE  /\ pc \notin {"overcopied", "overrun"}
                       /\ pc = "done" => str = Expanded
    BY DEF ExpandsTemplate
  <2>1. TypeOK /\ (pc = "copy" \/ OnTheWay)
    BY DEF SubstitutionInv
  <2>2. ASSUME pc = "done" PROVE str = Expanded
    <3>1. variables \in VariableLists /\ str \in Seq(Chars) /\ i > Len(variables)
      BY <2>1, <2>2 DEF TypeOK, OnTheWay
    <3>2. ValueOf \in Texts
      BY <3>1, TextsOf
    <3>3. i .. Len(variables) = {}
      <4>1. i \in 1 .. Len(variables) + 1 /\ Len(variables) \in Nat
        BY <2>1, VariablesOf DEF TypeOK
      <4>. QED
        BY <3>1, <4>1
    <3>4. \A p \in 1 .. Len(str) : str[p] # Dollar
      BY <2>1, <2>2, <3>3 DEF OnTheWay, NamesLeft
    <3>5. Expansion(variables, str, ValueOf) = str
      BY <3>1, <3>2, <3>4, PlainString
    <3>. QED
      BY <2>1, <2>2, <3>5 DEF OnTheWay
  <2>. QED
    BY <2>1, <2>2 DEF OnTheWay
<1>. QED
  BY <1>1, SubstitutionInvariant, PTL
=============================================================================
