---------------------------- MODULE CommandsProofs ---------------------------
(***************************************************************************)
(* Proofs about the parser and the buffers of a worker, for every line,    *)
(* every configuration, every size of the buffers and everything that may  *)
(* be left in them.                                                        *)
(*                                                                         *)
(* The first part says what a buffer holds: the bytes up to its first NUL, *)
(* whatever follows.  Trimming and cutting a buffer in place then does to  *)
(* that string what its definition on sequences says, although the memmove *)
(* of the trim may copy bytes from past the end of the buffer: it copies   *)
(* them behind the NUL.                                                    *)
(***************************************************************************)
EXTENDS Commands, SequenceTheorems, WellFoundedInduction, TLAPS

\* The buffer m holds the string s.
Holds(m, s) ==
  /\ Buffer(m)
  /\ s \in Seq(Chars)
  /\ Len(s) < BufferSize
  /\ m[Len(s)] = Nul
  /\ \A i \in 0 .. Len(s) - 1 : m[i] = s[i + 1]

-----------------------------------------------------------------------------
(* Least and greatest elements.                                            *)

\* A set of naturals has a least member.
LEMMA LeastNatural ==
  ASSUME NEW T \in SUBSET Nat, T # {}
  PROVE  \E n \in T : \A m \in T : n <= m
PROOF
<1>. DEFINE R == OpToRel(<, Nat)
<1>1. \E n \in T : \A m \in T : ~ (<<m, n>> \in R)
  BY NatLessThanWellFounded, WFMin, Zenon
<1>2. \A a, b \in Nat : a < b => <<a, b>> \in R
  BY DEF OpToRel
<1>. HIDE DEF R
<1>3. PICK n \in T : \A m \in T : ~ (<<m, n>> \in R)
  BY <1>1
<1>4. \A m \in T : ~(m < n)
  BY <1>2, <1>3
<1>. QED
  BY <1>4

LEMMA MinOf ==
  ASSUME NEW S \in SUBSET Nat, S # {}
  PROVE  Min(S) \in S /\ \A k \in S : Min(S) <= k
BY LeastNatural DEF Min

LEMMA MinIs ==
  ASSUME NEW S \in SUBSET Nat, NEW n \in S, \A k \in S : n <= k
  PROVE  Min(S) = n
PROOF
<1>. DEFINE q == Min(S)
<1>1. q \in S /\ q <= n
  BY MinOf
<1>. HIDE DEF q
<1>2. q = n
  BY <1>1
<1>. QED
  BY <1>2 DEF q

LEMMA MaxIs ==
  ASSUME NEW S \in SUBSET Nat, NEW n \in S, \A k \in S : k <= n
  PROVE  Max(S) = n
PROOF
<1>1. \A x \in S : (\A y \in S : x >= y) => x = n
  OBVIOUS
<1>2. \E x \in S : \A y \in S : x >= y
  OBVIOUS
<1>. QED
  BY <1>1, <1>2 DEF Max

\* A set of naturals below a bound has a greatest member.
LEMMA MaxOf ==
  ASSUME NEW N \in Nat, NEW S \in SUBSET (0 .. N), S # {}
  PROVE  Max(S) \in S /\ \A k \in S : k <= Max(S)
PROOF
<1>. DEFINE T == {n \in 0 .. N : N - n \in S}
<1>1. T \in SUBSET Nat /\ T # {}
  <2>1. PICK k \in S : TRUE
    OBVIOUS
  <2>2. N - k \in 0 .. N /\ N - (N - k) = k
    BY <2>1
  <2>. QED
    BY <2>2
<1>2. PICK n \in T : \A m \in T : n <= m
  <2>. HIDE DEF T
  <2>. QED
    BY <1>1, LeastNatural
<1>3. N - n \in S /\ n \in 0 .. N
  BY <1>2
<1>4. \A k \in S : k <= N - n
  <2>. TAKE k \in S
  <2>1. N - k \in 0 .. N /\ N - (N - k) = k
    OBVIOUS
  <2>2. N - k \in T
    BY <2>1
  <2>3. n <= N - k
    BY <1>2, <2>2
  <2>. QED
    BY <1>3, <2>3
<1>5. S \in SUBSET Nat
  OBVIOUS
<1>6. Max(S) = N - n
  <2>. DEFINE q == N - n
  <2>1. q \in S /\ \A k \in S : k <= q
    BY <1>3, <1>4
  <2>. HIDE DEF q
  <2>2. Max(S) = q
    BY <1>5, <2>1, MaxIs
  <2>. QED
    BY <2>2 DEF q
<1>. QED
  BY <1>3, <1>4, <1>6

-----------------------------------------------------------------------------
(* Strings in memory.                                                      *)

\* A buffer that holds s is read as s.
LEMMA HeldString ==
  ASSUME NEW m, NEW s, Holds(m, s)
  PROVE  StrLen(m) = Len(s) /\ Str(m) = s /\ Nuls(m) # {} /\ Len(s) \in Nat
PROOF
<1>1. /\ Len(s) \in Nat /\ DOMAIN m = 0 .. BufferSize - 1 /\ BufferSize \in Nat
      /\ \A i \in 1 .. Len(s) : s[i] \in Chars
      /\ s = [i \in 1 .. Len(s) |-> s[i]]
  <2>1. s \in Seq(Chars)
    BY DEF Holds
  <2>. QED
    BY <2>1, LenProperties, CommandsAssumption DEF Holds, Buffer
<1>2. Len(s) \in Nuls(m)
  BY <1>1 DEF Holds, Nuls
<1>3. \A k \in Nuls(m) : Len(s) <= k
  <2>. TAKE k \in Nuls(m)
  <2>. SUFFICES ASSUME ~(Len(s) <= k) PROVE FALSE
    OBVIOUS
  <2>1. k \in 0 .. Len(s) - 1 /\ k + 1 \in 1 .. Len(s) /\ m[k] = Nul
    BY <1>1 DEF Nuls
  <2>2. s[k + 1] = Nul
    BY <2>1 DEF Holds
  <2>. QED
    BY <1>1, <2>1, <2>2, CommandsAssumption
<1>4. Nuls(m) \in SUBSET Nat
  BY <1>1 DEF Nuls
<1>5. StrLen(m) = Len(s)
  BY <1>2, <1>3, <1>4, MinIs DEF StrLen
<1>6. \A i \in 1 .. Len(s) : m[i - 1] = s[i]
  <2>. TAKE i \in 1 .. Len(s)
  <2>1. i - 1 \in 0 .. Len(s) - 1 /\ (i - 1) + 1 = i
    BY <1>1
  <2>2. m[i - 1] = s[(i - 1) + 1]
    BY <2>1 DEF Holds
  <2>. QED
    BY <2>1, <2>2
<1>7. Str(m) = s
  <2>1. Str(m) = [i \in 1 .. Len(s) |-> m[i - 1]]
    BY <1>5 DEF Str
  <2>. QED
    BY <1>1, <1>6, <2>1
<1>. QED
  BY <1>1, <1>2, <1>5, <1>7

\* strcpy of a string that fits.
LEMMA CopiedHolds ==
  ASSUME NEW m, Buffer(m), NEW s \in Seq(Chars), Len(s) < BufferSize
  PROVE  Holds(Copied(m, s), s)
PROOF
<1>1. Len(s) \in Nat /\ BufferSize \in Nat /\ DOMAIN m = 0 .. BufferSize - 1
  BY LenProperties, CommandsAssumption DEF Buffer
<1>2. Buffer(Copied(m, s))
  BY DEF Copied, Buffer
<1>. DEFINE n == Len(s)
            c == Copied(m, s)
<1>3. \A i \in 0 .. BufferSize - 1 :
        c[i] = IF i < n THEN s[i + 1] ELSE IF i = n THEN Nul ELSE m[i]
  BY <1>1 DEF Copied
<1>4. c[n] = Nul /\ \A i \in 0 .. n - 1 : c[i] = s[i + 1]
  <2>. HIDE DEF n, c
  <2>1. n \in 0 .. BufferSize - 1 /\ n \in Nat /\ BufferSize \in Nat
    BY <1>1 DEF n
  <2>. QED
    BY <1>3, <2>1
<1>. QED
  BY <1>2, <1>4 DEF Holds

-----------------------------------------------------------------------------
(* Trimming.                                                               *)

\* The characters of s that are no spaces lie between a and b.
Inked(s, a, b) ==
  /\ a \in 1 .. Len(s) /\ b \in a .. Len(s)
  /\ s[a] \notin Spaces /\ s[b] \notin Spaces
  /\ \A i \in 1 .. Len(s) : i < a \/ b < i => s[i] \in Spaces

Blank(s) == \A i \in 1 .. Len(s) : s[i] \in Spaces

LEMMA InkedOrBlank ==
  ASSUME NEW s \in Seq(Chars)
  PROVE  Blank(s) \/ \E a \in 1 .. Len(s), b \in 1 .. Len(s) : Inked(s, a, b)
PROOF
<1>. DEFINE L == Len(s)
            ink == {i \in 1 .. L : s[i] \notin Spaces}
<1>1. L \in Nat
  BY LenProperties
<1>. SUFFICES ASSUME ~Blank(s) PROVE \E a \in 1 .. L, b \in 1 .. L : Inked(s, a, b)
  OBVIOUS
<1>2. ink # {} /\ ink \in SUBSET Nat /\ ink \in SUBSET (0 .. L)
  BY <1>1 DEF Blank
<1>3. /\ Min(ink) \in ink /\ \A k \in ink : Min(ink) <= k
      /\ Max(ink) \in ink /\ \A k \in ink : k <= Max(ink)
  <2>. HIDE DEF ink, L
  <2>. QED
    BY <1>1, <1>2, MinOf, MaxOf
<1>4. PICK a \in ink, b \in ink : \A k \in ink : a <= k /\ k <= b
  <2>. HIDE DEF ink
  <2>. QED
    BY <1>3
<1>5. a \in 1 .. L /\ b \in 1 .. L /\ a <= b /\ s[a] \notin Spaces /\ s[b] \notin Spaces
  BY <1>4
<1>6. \A i \in 1 .. L : i < a \/ b < i => s[i] \in Spaces
  <2>. SUFFICES ASSUME NEW i \in 1 .. L, i < a \/ b < i, s[i] \notin Spaces PROVE FALSE
    OBVIOUS
  <2>1. a <= i /\ i <= b
    BY <1>4
  <2>. QED
    BY <1>1, <1>5, <2>1
<1>. QED
  BY <1>1, <1>5, <1>6 DEF Inked

LEMMA TrimmedInk ==
  ASSUME NEW s \in Seq(Chars), NEW a, NEW b, Inked(s, a, b)
  PROVE  Trimmed(s) = SubSeq(s, a, b)
PROOF
<1>. DEFINE L == Len(s)
            ink == {i \in DOMAIN s : s[i] \notin Spaces}
<1>1. /\ L \in Nat /\ DOMAIN s = 1 .. L
      /\ a \in 1 .. L /\ b \in a .. L /\ s[a] \notin Spaces /\ s[b] \notin Spaces
      /\ \A i \in 1 .. L : i < a \/ b < i => s[i] \in Spaces
  BY LenProperties DEF Inked
<1>2. a \in ink /\ b \in ink /\ ink \in SUBSET Nat
  BY <1>1
<1>3. \A i \in ink : a <= i /\ i <= b
  BY <1>1
<1>4. Min(ink) = a /\ Max(ink) = b
  <2>. HIDE DEF ink
  <2>. QED
    BY <1>2, <1>3, MinIs, MaxIs
<1>5. Trimmed(s) = IF ink = {} THEN <<>> ELSE SubSeq(s, Min(ink), Max(ink))
  BY DEF Trimmed
<1>. HIDE DEF ink
<1>. QED
  BY <1>2, <1>4, <1>5

LEMMA TrimmedBlank ==
  ASSUME NEW s \in Seq(Chars), Blank(s)
  PROVE  Trimmed(s) = <<>>
PROOF
<1>. DEFINE ink == {i \in DOMAIN s : s[i] \notin Spaces}
<1>1. ink = {}
  BY LenProperties DEF Blank
<1>2. Trimmed(s) = IF ink = {} THEN <<>> ELSE SubSeq(s, Min(ink), Max(ink))
  BY DEF Trimmed
<1>. HIDE DEF ink
<1>. QED
  BY <1>1, <1>2

\* What is left of a string is a string, no longer than it was.
LEMMA TrimmedString ==
  ASSUME NEW s \in Seq(Chars)
  PROVE  Trimmed(s) \in Seq(Chars) /\ Len(Trimmed(s)) <= Len(s)
PROOF
<1>1. CASE Blank(s)
  <2>1. Trimmed(s) = <<>> /\ <<>> \in Seq(Chars) /\ Len(<<>>) = 0 /\ Len(s) \in Nat
    BY <1>1, TrimmedBlank, LenProperties
  <2>. QED
    BY <2>1
<1>2. ASSUME NEW a \in 1 .. Len(s), NEW b \in 1 .. Len(s), Inked(s, a, b)
      PROVE  Trimmed(s) \in Seq(Chars) /\ Len(Trimmed(s)) <= Len(s)
  <2>1. Trimmed(s) = SubSeq(s, a, b) /\ b \in a .. Len(s) /\ Len(s) \in Nat
    BY <1>2, TrimmedInk, LenProperties DEF Inked
  <2>2. SubSeq(s, a, b) \in Seq(Chars) /\ Len(SubSeq(s, a, b)) = b - a + 1
    BY <2>1, SubSeqProperties
  <2>3. b - a + 1 <= Len(s)
    BY <2>1
  <2>. QED
    BY <2>1, <2>2, <2>3
<1>. QED
  BY <1>1, <1>2, InkedOrBlank

\* skip_spaces finds the first character that is no space, the NUL if there is
\* none; the last one is where strim cuts.
LEMMA StartOfBlank ==
  ASSUME NEW m, NEW s, Holds(m, s), Blank(s)
  PROVE  Start(m) = Len(s) /\ Cut(m) = m
PROOF
<1>. DEFINE L == Len(s)
            visible == {i \in 0 .. StrLen(m) : m[i] \notin Spaces}
<1>1. L \in Nat /\ StrLen(m) = L /\ m[L] = Nul /\ Nul \notin Spaces
  BY HeldString DEF Holds, Nul, Spaces, Space, Tab
<1>2. \A i \in 0 .. L - 1 : m[i] \in Spaces
  <2>. TAKE i \in 0 .. L - 1
  <2>1. i + 1 \in 1 .. L
    BY <1>1
  <2>. QED
    BY <2>1 DEF Holds, Blank
<1>3. L \in visible /\ visible \in SUBSET Nat /\ \A k \in visible : L <= k
  <2>. HIDE DEF L
  <2>. QED
    BY <1>1, <1>2
<1>4. Start(m) = L
  <2>1. Start(m) = Min(visible)
    BY DEF Start
  <2>. HIDE DEF visible, L
  <2>. QED
    BY <1>3, <2>1, MinIs
<1>5. Ink(m) = {}
  BY <1>1, <1>2 DEF Ink
<1>. QED
  BY <1>4, <1>5 DEF Cut

LEMMA StartOfInk ==
  ASSUME NEW m, NEW s, Holds(m, s), NEW a, NEW b, Inked(s, a, b)
  PROVE  Start(m) = a - 1 /\ Cut(m) = [m EXCEPT ![b] = Nul]
PROOF
<1>. DEFINE L == Len(s)
            visible == {i \in 0 .. StrLen(m) : m[i] \notin Spaces}
<1>1. /\ L \in Nat /\ StrLen(m) = L
      /\ a \in 1 .. L /\ b \in 1 .. L /\ a <= b /\ s[a] \notin Spaces /\ s[b] \notin Spaces
      /\ \A i \in 1 .. L : i < a \/ b < i => s[i] \in Spaces
  BY HeldString DEF Inked
<1>2. \A i \in 0 .. L - 1 : i + 1 \in 1 .. L /\ m[i] = s[i + 1]
  BY <1>1 DEF Holds
<1>3. a - 1 \in 0 .. L - 1 /\ b - 1 \in 0 .. L - 1 /\ (a - 1) + 1 = a /\ (b - 1) + 1 = b
  BY <1>1
<1>4. m[a - 1] \notin Spaces /\ m[b - 1] \notin Spaces
  BY <1>1, <1>2, <1>3
<1>5. \A i \in 0 .. L - 1 : m[i] \notin Spaces => a - 1 <= i /\ i <= b - 1
  <2>. SUFFICES ASSUME NEW i \in 0 .. L - 1, m[i] \notin Spaces
                PROVE  a - 1 <= i /\ i <= b - 1
    OBVIOUS
  <2>1. i + 1 \in 1 .. L /\ s[i + 1] \notin Spaces
    BY <1>2
  <2>2. ~(i + 1 < a) /\ ~(b < i + 1)
    BY <1>1, <2>1
  <2>. QED
    BY <1>1, <2>2
<1>6. Start(m) = a - 1
  <2>1. a - 1 \in visible /\ visible \in SUBSET Nat /\ \A k \in visible : a - 1 <= k
    <3>1. \A k \in 0 .. L : k \in 0 .. L - 1 \/ k = L
      BY <1>1
    <3>2. a - 1 <= L
      BY <1>1
    <3>3. a - 1 \in 0 .. L
      BY <1>1
    <3>. HIDE DEF L
    <3>. QED
      BY <1>1, <1>4, <1>5, <3>1, <3>2, <3>3
  <2>2. Start(m) = Min(visible)
    BY DEF Start
  <2>. HIDE DEF visible
  <2>. QED
    BY <2>1, <2>2, MinIs
<1>7. Max(Ink(m)) = b - 1 /\ Ink(m) # {}
  <2>1. /\ b - 1 \in Ink(m) /\ Ink(m) \in SUBSET Nat
        /\ \A k \in Ink(m) : k <= b - 1
    BY <1>1, <1>3, <1>4, <1>5 DEF Ink
  <2>. QED
    BY <2>1, MaxIs
<1>8. Cut(m) = [m EXCEPT ![Max(Ink(m)) + 1] = Nul]
  BY <1>7 DEF Cut
<1>. QED
  BY <1>3, <1>6, <1>7, <1>8

\* Trimming in place, whatever the memmove reads behind the buffer
\* (queral.c:357-358, string_utils.c:28-50).
LEMMA TrimHolds ==
  ASSUME NEW m, NEW s, Holds(m, s)
  PROVE  Holds(Trim(m), Trimmed(s))
PROOF
<1>. DEFINE L == Len(s)
            r == Trim(m)
<1>1. /\ L \in Nat /\ StrLen(m) = L /\ BufferSize \in Nat /\ L < BufferSize
      /\ DOMAIN m = 0 .. BufferSize - 1 /\ m[L] = Nul /\ s \in Seq(Chars)
  BY HeldString, CommandsAssumption DEF Holds, Buffer
<1>2. Trimmed(s) \in Seq(Chars) /\ Len(Trimmed(s)) < BufferSize
  <2>1. Trimmed(s) \in Seq(Chars) /\ Len(Trimmed(s)) <= L
    BY <1>1, TrimmedString
  <2>2. Len(Trimmed(s)) \in Nat
    BY <2>1, LenProperties
  <2>. HIDE DEF L
  <2>. QED
    BY <1>1, <2>1, <2>2
<1>3. CASE Blank(s)
  <2>1. Trimmed(s) = <<>> /\ Start(m) = L /\ Cut(m) = m
    BY <1>1, <1>3, TrimmedBlank, StartOfBlank
  <2>2. r = [i \in 0 .. BufferSize - 1 |-> IF i < L THEN Byte(m, L + i) ELSE m[i]]
    BY <1>1, <2>1 DEF Trim, MemMove
  <2>3. Buffer(r)
    BY <2>2 DEF Buffer
  <2>4. r[0] = Nul
    <3>1. 0 \in 0 .. BufferSize - 1 /\ L + 0 = L /\ L \in DOMAIN m
      BY <1>1
    <3>2. r[0] = IF 0 < L THEN Byte(m, L) ELSE m[0]
      BY <2>2, <3>1
    <3>3. Byte(m, L) = Nul
      BY <1>1, <3>1 DEF Byte
    <3>4. ~(0 < L) => L = 0
      BY <1>1
    <3>. QED
      BY <1>1, <3>2, <3>3, <3>4
  <2>5. Len(<<>>) = 0 /\ \A i \in 0 .. 0 - 1 : FALSE
    OBVIOUS
  <2>. QED
    BY <1>2, <2>1, <2>3, <2>4, <2>5 DEF Holds
<1>4. ASSUME NEW a \in 1 .. L, NEW b \in 1 .. L, Inked(s, a, b)
      PROVE  Holds(r, Trimmed(s))
  <2>. DEFINE c == [m EXCEPT ![b] = Nul]
  <2>1. Trimmed(s) = SubSeq(s, a, b) /\ Start(m) = a - 1 /\ Cut(m) = c /\ a <= b
    <3>1. Trimmed(s) = SubSeq(s, a, b)
      BY <1>1, <1>4, TrimmedInk
    <3>2. Start(m) = a - 1 /\ Cut(m) = [m EXCEPT ![b] = Nul]
      BY <1>4, StartOfInk
    <3>3. a <= b
      BY <1>1, <1>4 DEF Inked
    <3>. QED
      BY <3>1, <3>2, <3>3
  <2>2. /\ DOMAIN c = 0 .. BufferSize - 1 /\ b \in 0 .. BufferSize - 1 /\ c[b] = Nul
        /\ \A i \in 0 .. BufferSize - 1 : i # b => c[i] = m[i]
    <3>1. b \in 0 .. BufferSize - 1
      BY <1>1
    <3>. QED
      BY <1>1, <3>1
  <2>. HIDE DEF c
  <2>3. r = [i \in 0 .. BufferSize - 1 |-> IF i < L THEN Byte(c, (a - 1) + i) ELSE c[i]]
    BY <1>1, <2>1, <2>2 DEF Trim, MemMove
  <2>4. Buffer(r)
    BY <2>3 DEF Buffer
  <2>. HIDE DEF r
  <2>. DEFINE n == b - a + 1
  <2>5. n \in 0 .. BufferSize - 1 /\ n \in Nat /\ n <= L /\ (a - 1) + n = b
    BY <1>1, <2>1
  <2>6. r[n] = Nul
    <3>1. CASE n < L
      <4>1. r[n] = Byte(c, (a - 1) + n)
        <5>. HIDE DEF n
        <5>. QED
          BY <2>3, <2>5, <3>1
      <4>. QED
        BY <2>2, <2>5, <4>1 DEF Byte
    <3>2. CASE ~(n < L)
      <4>1. n = L /\ b = L
        BY <1>1, <2>1, <2>5, <3>2
      <4>2. r[n] = c[n]
        <5>. HIDE DEF n
        <5>. QED
          BY <2>3, <2>5, <3>2
      <4>. QED
        BY <2>2, <4>1, <4>2
    <3>. QED
      BY <3>1, <3>2
  <2>7. /\ Len(SubSeq(s, a, b)) = n
        /\ \A i \in 1 .. n : SubSeq(s, a, b)[i] = s[a + i - 1]
    BY <1>1, <2>1, SubSeqProperties
  <2>8. \A i \in 0 .. n - 1 : r[i] = SubSeq(s, a, b)[i + 1]
    <3>. TAKE i \in 0 .. n - 1
    <3>1. /\ i \in 0 .. BufferSize - 1 /\ i < L /\ (a - 1) + i \in 0 .. BufferSize - 1
          /\ (a - 1) + i # b /\ (a - 1) + i \in 0 .. L - 1 /\ i + 1 \in 1 .. n
          /\ a + (i + 1) - 1 = ((a - 1) + i) + 1
      BY <1>1, <2>1, <2>5
    <3>2. r[i] = Byte(c, (a - 1) + i)
      BY <2>3, <3>1
    <3>3. r[i] = m[(a - 1) + i]
      BY <2>2, <3>1, <3>2 DEF Byte
    <3>4. m[(a - 1) + i] = s[((a - 1) + i) + 1]
      BY <3>1 DEF Holds
    <3>5. SubSeq(s, a, b)[i + 1] = s[a + (i + 1) - 1]
      BY <2>7, <3>1
    <3>. QED
      BY <3>1, <3>3, <3>4, <3>5
  <2>. HIDE DEF n
  <2>. QED
    BY <1>2, <2>1, <2>4, <2>6, <2>7, <2>8 DEF Holds
<1>. QED
  BY <1>1, <1>3, <1>4, InkedOrBlank

-----------------------------------------------------------------------------
(* get_command.                                                            *)

\* job from the blank on, moved to its start: the memmove stays within the
\* string.
LEMMA ArgumentHolds ==
  ASSUME NEW m, NEW s, Holds(m, s), NEW b \in 0 .. Len(s) - 1
  PROVE  Holds(Argument(m, b), SubSeq(s, b + 1, Len(s)))
PROOF
<1>. DEFINE L == Len(s)
            n == L - b
            r == Argument(m, b)
<1>1. /\ L \in Nat /\ StrLen(m) = L /\ BufferSize \in Nat /\ L < BufferSize
      /\ DOMAIN m = 0 .. BufferSize - 1 /\ m[L] = Nul /\ s \in Seq(Chars)
  BY HeldString, CommandsAssumption DEF Holds, Buffer
<1>2. /\ n \in 0 .. BufferSize - 1 /\ n \in 1 .. L /\ b + 1 \in 1 .. L
      /\ L - (b + 1) + 1 = n
  BY <1>1
<1>3. /\ SubSeq(s, b + 1, L) \in Seq(Chars) /\ Len(SubSeq(s, b + 1, L)) = n
      /\ \A i \in 1 .. n : SubSeq(s, b + 1, L)[i] = s[(b + 1) + i - 1]
  <2>1. b + 1 \in 1 .. L + 1 /\ L \in 0 .. L /\ L \in b .. L
    BY <1>1
  <2>. QED
    BY <1>1, <1>2, <2>1, SubSeqProperties
<1>4. MemMove(m, b, n) =
        [i \in 0 .. BufferSize - 1 |-> IF i < n THEN Byte(m, b + i) ELSE m[i]]
  BY <1>1 DEF MemMove
<1>5. r = [MemMove(m, b, n) EXCEPT ![n] = Nul]
  BY <1>1 DEF Argument
<1>6. /\ Buffer(r) /\ r[n] = Nul
      /\ \A i \in 0 .. BufferSize - 1 : i # n => r[i] = MemMove(m, b, n)[i]
  <2>. HIDE DEF n, r
  <2>. QED
    BY <1>2, <1>4, <1>5 DEF Buffer
<1>7. \A i \in 0 .. n - 1 : r[i] = SubSeq(s, b + 1, L)[i + 1]
  <2>. TAKE i \in 0 .. n - 1
  <2>1. /\ i \in 0 .. BufferSize - 1 /\ i < n /\ i # n /\ b + i \in 0 .. L - 1
        /\ b + i \in DOMAIN m /\ i + 1 \in 1 .. n /\ (b + 1) + (i + 1) - 1 = (b + i) + 1
    BY <1>1, <1>2
  <2>2. r[i] = Byte(m, b + i)
    <3>. HIDE DEF n, r
    <3>. QED
      BY <1>4, <1>6, <2>1
  <2>3. r[i] = m[b + i]
    BY <2>1, <2>2 DEF Byte
  <2>4. m[b + i] = s[(b + i) + 1]
    BY <2>1 DEF Holds
  <2>5. SubSeq(s, b + 1, L)[i + 1] = s[(b + 1) + (i + 1) - 1]
    BY <1>3, <2>1
  <2>. QED
    BY <2>1, <2>3, <2>4, <2>5
<1>8. n < BufferSize
  BY <1>1, <1>2
<1>. HIDE DEF n, r
<1>. QED
  BY <1>3, <1>6, <1>7, <1>8 DEF Holds, r

\* The blanks of the buffer are those of the string, counted from zero.
LEMMA BlanksHeld ==
  ASSUME NEW m, NEW s, Holds(m, s)
  PROVE  LET blanks == {i \in 0 .. StrLen(m) - 1 : m[i] = Space}
         IN  /\ blanks = {} <=> Blanks(s) = {}
             /\ blanks # {} =>
                  /\ Min(blanks) = Min(Blanks(s)) - 1
                  /\ Min(Blanks(s)) \in 1 .. Len(s)
PROOF
<1>. DEFINE L == Len(s)
            B == {i \in 0 .. L - 1 : m[i] = Space}
            q == Min(Blanks(s))
<1>1. L \in Nat /\ StrLen(m) = L /\ s \in Seq(Chars) /\ DOMAIN s = 1 .. L
  BY HeldString, LenProperties DEF Holds
<1>2. \A i \in 0 .. L - 1 : m[i] = s[i + 1]
  BY DEF Holds
<1>3. Blanks(s) = {i \in 1 .. L : s[i] = Space} /\ Blanks(s) \in SUBSET Nat
  BY <1>1 DEF Blanks
<1>4. \A i \in Blanks(s) : i - 1 \in B
  <2>. TAKE i \in Blanks(s)
  <2>1. i \in 1 .. L /\ s[i] = Space
    BY <1>3
  <2>2. i - 1 \in 0 .. L - 1 /\ (i - 1) + 1 = i
    BY <1>1, <2>1
  <2>. QED
    BY <1>2, <2>1, <2>2
<1>5. \A i \in B : i + 1 \in Blanks(s)
  <2>. TAKE i \in B
  <2>1. i \in 0 .. L - 1 /\ m[i] = Space /\ i + 1 \in 1 .. L
    BY <1>1
  <2>. QED
    BY <1>2, <1>3, <2>1
<1>6. B = {} <=> Blanks(s) = {}
  <2>. HIDE DEF B
  <2>. QED
    BY <1>4, <1>5
<1>7. ASSUME B # {} PROVE Min(B) = q - 1 /\ q \in 1 .. L
  <2>1. q \in Blanks(s) /\ \A k \in Blanks(s) : q <= k
    BY <1>3, <1>6, <1>7, MinOf
  <2>2. q - 1 \in B /\ q \in 1 .. L
    BY <1>3, <1>4, <2>1
  <2>3. \A k \in B : q - 1 <= k
    <3>. TAKE k \in B
    <3>1. q <= k + 1 /\ k \in Nat /\ q \in Nat
      BY <1>5, <2>1, <2>2
    <3>. HIDE DEF q
    <3>. QED
      BY <3>1
  <2>4. B \in SUBSET Nat
    OBVIOUS
  <2>. HIDE DEF B, q
  <2>. QED
    BY <2>2, <2>3, <2>4, MinIs
<1>. QED
  BY <1>1, <1>6, <1>7

LEMMA MeaningOfWord ==
  ASSUME NEW s, NEW o \in Operations, Asks(s, o)
  PROVE  Meaning(s) = <<o, AfterWord(s)>>
PROOF
<1>1. \A p \in Operations : Asks(s, p) => p = o
  BY WordsAssumption DEF Asks
<1>2. (CHOOSE p \in Operations : Asks(s, p)) = o
  BY <1>1
<1>. QED
  BY <1>2 DEF Meaning

LEMMA MeaningOfNone ==
  ASSUME NEW s, \A o \in Operations : ~Asks(s, o)
  PROVE  Meaning(s) = <<"UNDEFINED", Trimmed(s)>>
BY DEF Meaning

\* The words are strings that leave room for a blank.
LEMMA WordString ==
  ASSUME NEW o \in Operations
  PROVE  /\ Words[o] \in Seq(Chars) /\ Len(Words[o]) \in Nat \ {0}
         /\ \A i \in 1 .. Len(Words[o]) : Words[o][i] \in Chars \ Spaces
PROOF
<1>1. Words[o] \in Seq(Chars \ Spaces) /\ Words[o] # <<>>
  BY WordsAssumption
<1>2. /\ Len(Words[o]) \in Nat
      /\ \A i \in 1 .. Len(Words[o]) : Words[o][i] \in Chars \ Spaces
  BY <1>1, LenProperties
<1>3. Len(Words[o]) # 0
  BY <1>1, EmptySeq
<1>4. Words[o] \in Seq(Chars)
  BY <1>1
<1>. QED
  BY <1>2, <1>3, <1>4

\* The first word and the argument, in the buffer and in the string
\* (queral.c:357-400).
LEMMA ParseMeans ==
  ASSUME ParseLine, Holds(job, line), Buffer(command),
         lastWord # Nobody => Holds(command, lastWord)
  PROVE  /\ op' = Meaning(line)[1] /\ op' \in Operations \union {"UNDEFINED"}
         /\ Holds(job', Meaning(line)[2])
         /\ Buffer(command')
         /\ lastWord' # Nobody => Holds(command', lastWord')
PROOF
<1>. DEFINE m == Trim(job)
            t == Trimmed(line)
            blanks == {i \in 0 .. StrLen(m) - 1 : m[i] = Space}
            b == Min(blanks)
            q == Min(Blanks(t))
<1>1. Holds(m, t) /\ Str(m) = t /\ t \in Seq(Chars) /\ Len(t) \in Nat /\ Len(t) < BufferSize
  <2>1. Holds(m, t)
    BY TrimHolds
  <2>. QED
    BY <2>1, HeldString DEF Holds
<1>2. /\ blanks = {} <=> Blanks(t) = {}
      /\ blanks # {} => b = q - 1 /\ q \in 1 .. Len(t)
  BY <1>1, BlanksHeld
<1>3. HasWord(line) <=> blanks # {}
  BY <1>2 DEF HasWord
<1>4. lastWord' = IF HasWord(line) THEN FirstWord(line) ELSE lastWord
  BY DEF ParseLine
<1>5. \/ /\ blanks = {}
         /\ op' = "UNDEFINED"
         /\ job' = m
         /\ UNCHANGED command
      \/ /\ blanks # {}
         /\ command' = Copied(command, Word(m, b))
         /\ \/ \E o \in Operations :
                 /\ Str(command') = Words[o]
                 /\ op' = o
                 /\ job' = Trim(Argument(m, b))
            \/ /\ \A o \in Operations : Str(command') # Words[o]
               /\ op' = "UNDEFINED"
               /\ job' = m
  BY DEF ParseLine
<1>. HIDE DEF m, t, blanks, b, q
<1>6. CASE blanks = {}
  <2>1. /\ op' = "UNDEFINED" /\ job' = m /\ UNCHANGED command /\ ~HasWord(line)
        /\ lastWord' = lastWord
    BY <1>3, <1>4, <1>5, <1>6
  <2>2. Meaning(line) = <<"UNDEFINED", t>>
    BY <2>1, MeaningOfNone DEF Asks, t
  <2>. QED
    BY <1>1, <2>1, <2>2
<1>7. CASE blanks # {}
  <2>1. HasWord(line) /\ lastWord' = FirstWord(line) /\ b = q - 1 /\ q \in 1 .. Len(t)
    BY <1>2, <1>3, <1>4, <1>7
  <2>. DEFINE w == FirstWord(line)
  <2>2. w = SubSeq(t, 1, q - 1) /\ AfterWord(line) = Trimmed(SubSeq(t, q, Len(t)))
    BY DEF FirstWord, AfterWord, t, q
  <2>3. w = Word(m, b) /\ w \in Seq(Chars) /\ Len(w) < BufferSize
    <3>1. q - 1 \in 0 .. Len(t) /\ q - 1 \in Nat /\ q - 1 <= Len(t) /\ (q - 1) - 1 + 1 = q - 1
      BY <1>1, <2>1
    <3>2. SubSeq(t, 1, q - 1) \in Seq(Chars) /\ Len(SubSeq(t, 1, q - 1)) = q - 1
      <4>. DEFINE n == q - 1
      <4>1. n \in 0 .. Len(t) /\ 1 \in 1 .. Len(t) + 1 /\ n - 1 + 1 = n /\ n \in 1 - 1 .. Len(t)
        BY <1>1, <3>1
      <4>. HIDE DEF n
      <4>2. SubSeq(t, 1, n) \in Seq(Chars) /\ Len(SubSeq(t, 1, n)) = n
        BY <1>1, <4>1, SubSeqProperties
      <4>. QED
        BY <4>2 DEF n
    <3>3. Word(m, b) = SubSeq(t, 1, q - 1)
      BY <1>1, <2>1 DEF Word
    <3>4. q - 1 < BufferSize
      BY <1>1, <3>1, CommandsAssumption
    <3>. QED
      BY <2>2, <3>2, <3>3, <3>4
  <2>. HIDE DEF w
  <2>4. Holds(command', w) /\ Str(command') = w /\ Buffer(command')
    <3>1. command' = Copied(command, w)
      BY <1>5, <1>7, <2>3
    <3>2. Holds(command', w)
      BY <2>3, <3>1, CopiedHolds
    <3>. QED
      BY <3>2, HeldString DEF Holds
  <2>5. ASSUME NEW o \in Operations, w = Words[o], op' = o, job' = Trim(Argument(m, b))
        PROVE  op' = Meaning(line)[1] /\ Holds(job', Meaning(line)[2])
    <3>1. Meaning(line) = <<o, AfterWord(line)>>
      BY <2>1, <2>5, MeaningOfWord DEF Asks, w
    <3>2. b \in 0 .. Len(t) - 1 /\ b + 1 = q
      BY <1>1, <2>1
    <3>3. Holds(Argument(m, b), SubSeq(t, q, Len(t)))
      BY <1>1, <3>2, ArgumentHolds
    <3>4. Holds(job', AfterWord(line))
      BY <2>2, <2>5, <3>3, TrimHolds
    <3>. QED
      BY <2>5, <3>1, <3>4
  <2>6. ASSUME \A o \in Operations : w # Words[o], op' = "UNDEFINED", job' = m
        PROVE  op' = Meaning(line)[1] /\ Holds(job', Meaning(line)[2])
    <3>1. Meaning(line) = <<"UNDEFINED", t>>
      BY <2>6, MeaningOfNone DEF Asks, w, t
    <3>. QED
      BY <1>1, <2>6, <3>1
  <2>7. op' = Meaning(line)[1] /\ Holds(job', Meaning(line)[2])
        /\ op' \in Operations \union {"UNDEFINED"}
    <3>1. \/ \E o \in Operations :
               /\ w = Words[o] /\ op' = o /\ job' = Trim(Argument(m, b))
          \/ (\A o \in Operations : w # Words[o]) /\ op' = "UNDEFINED" /\ job' = m
      BY <1>5, <1>7, <2>4
    <3>2. CASE \E o \in Operations :
                 /\ w = Words[o] /\ op' = o /\ job' = Trim(Argument(m, b))
      <4>1. PICK o \in Operations : w = Words[o] /\ op' = o /\ job' = Trim(Argument(m, b))
        BY <3>2
      <4>. QED
        BY <2>5, <4>1
    <3>. QED
      BY <2>6, <3>1, <3>2
  <2>. QED
    BY <2>1, <2>4, <2>7 DEF w
<1>. QED
  BY <1>6, <1>7

\* The CACHE line of a page.
Prefixed(p) == Append(Words.CACHE, Space) \o p

LEMMA PrefixedString ==
  ASSUME NEW p \in Seq(Chars)
  PROVE  /\ Prefixed(p) \in Seq(Chars) /\ Len(Prefixed(p)) = Length1 + Len(p)
         /\ Length1 \in Nat /\ Length1 > 1
         /\ \A i \in 1 .. Length1 - 1 :
              Prefixed(p)[i] = Words.CACHE[i] /\ Prefixed(p)[i] \notin Spaces
         /\ Prefixed(p)[Length1] = Space
         /\ \A i \in 1 .. Len(p) : Prefixed(p)[Length1 + i] = p[i]
         /\ Append(Words.CACHE, Space) \in Seq(Chars)
         /\ Len(Append(Words.CACHE, Space)) = Length1
PROOF
<1>. DEFINE W == Words["CACHE"]
            w == Len(W)
            A == Append(W, Space)
            L == Len(p)
            s == Prefixed(p)
<1>1. /\ W \in Seq(Chars) /\ w \in Nat \ {0} /\ \A i \in 1 .. w : W[i] \in Chars \ Spaces
      /\ Space \in Chars /\ L \in Nat
  BY WordString, LenProperties, CommandsAssumption DEF Operations, Spaces
<1>2. /\ A \in Seq(Chars) /\ Len(A) = w + 1 /\ A[w + 1] = Space
      /\ \A i \in 1 .. w : A[i] = W[i]
  <2>. HIDE DEF W
  <2>. QED
    BY <1>1, AppendProperties
<1>3. s = A \o p /\ Length1 = w + 1
  BY DEF Prefixed, Length1
<1>. HIDE DEF W, w, A, L, s
<1>4. /\ s \in Seq(Chars) /\ Len(s) = (w + 1) + L
      /\ \A i \in 1 .. (w + 1) + L : s[i] = IF i <= w + 1 THEN A[i] ELSE p[i - (w + 1)]
  <2>1. /\ A \o p \in Seq(Chars) /\ Len(A \o p) = Len(A) + Len(p)
        /\ \A i \in 1 .. Len(A) + Len(p) :
             (A \o p)[i] = IF i <= Len(A) THEN A[i] ELSE p[i - Len(A)]
    BY <1>2, ConcatProperties
  <2>2. Len(A) = w + 1 /\ Len(p) = L
    BY <1>2 DEF L
  <2>. HIDE DEF A
  <2>. QED
    BY <1>3, <2>1, <2>2
<1>5. \A i \in 1 .. w : s[i] = W[i] /\ s[i] \notin Spaces
  BY <1>1, <1>2, <1>4
<1>6. s[w + 1] = Space
  BY <1>1, <1>2, <1>4
<1>7. \A i \in 1 .. L : s[(w + 1) + i] = p[i]
  <2>. TAKE i \in 1 .. L
  <2>1. (w + 1) + i \in 1 .. (w + 1) + L /\ ~((w + 1) + i <= w + 1) /\ ((w + 1) + i) - (w + 1) = i
    BY <1>1
  <2>. QED
    BY <1>4, <2>1
<1>8. Length1 \in Nat /\ Length1 > 1 /\ Length1 - 1 = w
  BY <1>1, <1>3
<1>. QED
  BY <1>2, <1>3, <1>4, <1>5, <1>6, <1>7, <1>8 DEF s, L, A, W

\* The line an UPDATE writes for a page that is not blank is understood as an
\* order to refresh that page (queral.c:494-505).
LEMMA PrefixedMeans ==
  ASSUME NEW p \in Seq(Chars), Trimmed(p) # <<>>
  PROVE  Meaning(Prefixed(p)) = <<"CACHE", Trimmed(p)>>
PROOF
<1>. DEFINE s == Prefixed(p)
            c == Length1
            t == Trimmed(s)
<1>1. PICK a \in 1 .. Len(p), b \in 1 .. Len(p) : Inked(p, a, b)
  BY InkedOrBlank, TrimmedBlank
<1>2. /\ Len(p) \in Nat /\ a <= b /\ p[a] \notin Spaces /\ p[b] \notin Spaces
      /\ \A i \in 1 .. Len(p) : i < a \/ b < i => p[i] \in Spaces
      /\ \A i \in 1 .. Len(p) : p[i] \in Chars
  BY <1>1, LenProperties DEF Inked
<1>3. /\ s \in Seq(Chars) /\ Len(s) = c + Len(p) /\ c \in Nat /\ c > 1
      /\ \A i \in 1 .. c - 1 : s[i] = Words.CACHE[i] /\ s[i] \notin Spaces
      /\ s[c] = Space
      /\ \A i \in 1 .. Len(p) : s[c + i] = p[i]
      /\ \A i \in 1 .. Len(s) : s[i] \in Chars
  <2>1. /\ s \in Seq(Chars) /\ Len(s) = c + Len(p) /\ c \in Nat /\ c > 1
        /\ \A i \in 1 .. c - 1 : s[i] = Words.CACHE[i] /\ s[i] \notin Spaces
        /\ s[c] = Space
        /\ \A i \in 1 .. Len(p) : s[c + i] = p[i]
    BY PrefixedString
  <2>. HIDE DEF s, c
  <2>2. \A i \in 1 .. Len(s) : s[i] \in Chars
    BY <2>1, LenProperties
  <2>. QED
    BY <2>1, <2>2
<1>. HIDE DEF s, c
<1>4. Inked(s, 1, c + b)
  <2>1. 1 \in 1 .. Len(s) /\ c + b \in 1 .. Len(s) /\ 1 \in 1 .. c - 1
    BY <1>2, <1>3
  <2>2. s[1] \notin Spaces /\ s[c + b] \notin Spaces
    BY <1>2, <1>3, <2>1
  <2>3. \A i \in 1 .. Len(s) : i < 1 \/ c + b < i => s[i] \in Spaces
    <3>. SUFFICES ASSUME NEW i \in 1 .. Len(s), c + b < i PROVE s[i] \in Spaces
      BY <1>3
    <3>1. i - c \in 1 .. Len(p) /\ b < i - c /\ c + (i - c) = i
      BY <1>2, <1>3
    <3>2. s[c + (i - c)] = p[i - c] /\ p[i - c] \in Spaces
      BY <1>2, <1>3, <3>1
    <3>. QED
      BY <3>1, <3>2
  <2>4. c + b \in 1 .. Len(s) /\ 1 <= c + b
    BY <2>1
  <2>. QED
    BY <2>1, <2>2, <2>3, <2>4 DEF Inked
<1>5. /\ t = SubSeq(s, 1, c + b) /\ Len(t) = c + b /\ t \in Seq(Chars)
      /\ \A i \in 1 .. c + b : t[i] = s[i]
  <2>. DEFINE e == c + b
  <2>1. e \in Nat /\ e >= 1 /\ e <= Len(s) /\ e - 1 + 1 = e /\ Len(s) \in Nat
    BY <1>2, <1>3
  <2>2. t = SubSeq(s, 1, e)
    BY <1>3, <1>4, TrimmedInk
  <2>. HIDE DEF e, t
  <2>3. \A i \in 1 .. e : s[i] \in Chars
    BY <1>3, <2>1
  <2>4. /\ SubSeq(s, 1, e) \in Seq(Chars) /\ Len(SubSeq(s, 1, e)) = e
        /\ \A i \in 1 .. e - 1 + 1 : SubSeq(s, 1, e)[i] = s[1 + i - 1]
    BY <2>1, <2>3, SubSeqProperties
  <2>5. \A i \in 1 .. e : t[i] = s[i]
    BY <2>1, <2>2, <2>4
  <2>. QED
    BY <2>2, <2>4, <2>5 DEF e
<1>. HIDE DEF t
<1>6. Blanks(t) # {} /\ Min(Blanks(t)) = c
  <2>1. c \in 1 .. c + b /\ DOMAIN t = 1 .. c + b
    BY <1>2, <1>3, <1>5, LenProperties
  <2>2. c \in Blanks(t)
    BY <1>3, <1>5, <2>1 DEF Blanks
  <2>3. \A i \in Blanks(t) : c <= i
    <3>. SUFFICES ASSUME NEW i \in Blanks(t), ~(c <= i) PROVE FALSE
      OBVIOUS
    <3>1. i \in 1 .. c + b /\ t[i] = Space
      BY <2>1 DEF Blanks
    <3>2. i \in 1 .. c - 1
      BY <1>2, <1>3, <3>1
    <3>3. s[i] = Space
      BY <1>5, <3>1
    <3>. QED
      BY <1>3, <3>2, <3>3 DEF Spaces
  <2>4. Blanks(t) \in SUBSET Nat
    BY <1>2, <1>3, <2>1 DEF Blanks
  <2>. QED
    BY <2>2, <2>3, <2>4, MinIs
<1>7. FirstWord(s) = Words.CACHE /\ HasWord(s)
  <2>. DEFINE e == c - 1
              W == Words["CACHE"]
  <2>1. /\ e \in Nat /\ e >= 1 /\ e - 1 + 1 = e /\ \A i \in 1 .. e : i \in 1 .. c + b
        /\ W \in Seq(Chars) /\ Len(W) = e
    <3>1. W \in Seq(Chars) /\ Len(W) \in Nat
      BY WordString, LenProperties DEF Operations
    <3>2. Len(W) = e
      BY <3>1 DEF c, Length1
    <3>. HIDE DEF W
    <3>3. e \in Nat /\ e >= 1 /\ e - 1 + 1 = e /\ \A i \in 1 .. e : i \in 1 .. c + b
      BY <1>2, <1>3
    <3>. QED
      BY <3>1, <3>2, <3>3
  <2>2. FirstWord(s) = SubSeq(t, 1, e)
    BY <1>6 DEF FirstWord, t
  <2>3. \A i \in 1 .. e : t[i] = W[i] /\ t[i] \in Chars
    BY <1>3, <1>5, <2>1, LenProperties
  <2>. HIDE DEF e, W
  <2>4. /\ SubSeq(t, 1, e) \in Seq(Chars) /\ Len(SubSeq(t, 1, e)) = e
        /\ \A i \in 1 .. e - 1 + 1 : SubSeq(t, 1, e)[i] = t[1 + i - 1]
    BY <2>1, <2>3, SubSeqProperties
  <2>5. \A i \in 1 .. e : SubSeq(t, 1, e)[i] = W[i]
    BY <2>1, <2>3, <2>4
  <2>6. SubSeq(t, 1, e) = W
    BY <2>1, <2>4, <2>5, SeqEqual
  <2>. QED
    BY <1>6, <2>2, <2>6 DEF W, HasWord, t
<1>8. AfterWord(s) = Trimmed(p)
  <2>. DEFINE e == c + b
              u == SubSeq(t, c, e)
  <2>1. /\ e \in Nat /\ c <= e /\ e - c + 1 = b + 1 /\ b \in Nat
        /\ \A i \in c .. e : i \in 1 .. c + b
    BY <1>2, <1>3
  <2>2. AfterWord(s) = Trimmed(u)
    BY <1>5, <1>6 DEF AfterWord, t
  <2>3. \A i \in c .. e : t[i] \in Chars
    BY <1>5, <2>1, LenProperties
  <2>. HIDE DEF e
  <2>4. /\ u \in Seq(Chars) /\ Len(u) = b + 1
        /\ \A i \in 1 .. b + 1 : u[i] = t[c + i - 1]
    BY <1>3, <2>1, <2>3, SubSeqProperties
  <2>. HIDE DEF u
  <2>5. u[1] = Space /\ \A i \in 1 .. b : u[i + 1] = p[i]
    <3>1. u[1] = Space
      <4>1. 1 \in 1 .. b + 1 /\ c + 1 - 1 = c /\ c \in 1 .. c + b
        BY <1>2, <1>3
      <4>2. u[1] = t[c]
        BY <2>4, <4>1
      <4>. QED
        BY <1>3, <1>5, <4>1, <4>2
    <3>2. ASSUME NEW i \in 1 .. b PROVE u[i + 1] = p[i]
      <4>1. i + 1 \in 1 .. b + 1 /\ c + (i + 1) - 1 = c + i /\ c + i \in 1 .. c + b /\ i \in 1 .. Len(p)
        BY <1>2, <1>3
      <4>2. u[i + 1] = t[c + i] /\ t[c + i] = s[c + i]
        BY <1>5, <2>4, <4>1
      <4>. QED
        BY <1>3, <4>1, <4>2
    <3>. QED
      BY <3>1, <3>2
  <2>6. Inked(u, a + 1, b + 1)
    <3>1. a + 1 \in 1 .. Len(u) /\ b + 1 \in a + 1 .. Len(u) /\ a \in 1 .. b /\ b \in 1 .. b
      BY <1>2, <2>4
    <3>2. u[a + 1] \notin Spaces /\ u[b + 1] \notin Spaces
      BY <1>2, <2>5, <3>1
    <3>3. \A i \in 1 .. Len(u) : i < a + 1 \/ b + 1 < i => u[i] \in Spaces
      <4>. SUFFICES ASSUME NEW i \in 1 .. Len(u), i < a + 1 \/ b + 1 < i
                    PROVE  u[i] \in Spaces
        OBVIOUS
      <4>1. CASE i = 1
        BY <2>5, <4>1 DEF Spaces
      <4>2. CASE i # 1
        <5>1. i - 1 \in 1 .. b /\ i - 1 < a /\ (i - 1) + 1 = i /\ i - 1 \in 1 .. Len(p)
          BY <1>2, <2>4, <4>2
        <5>2. u[(i - 1) + 1] = p[i - 1] /\ p[i - 1] \in Spaces
          BY <1>2, <2>5, <5>1
        <5>. QED
          BY <5>1, <5>2
      <4>. QED
        BY <4>1, <4>2
    <3>. QED
      BY <3>1, <3>2, <3>3 DEF Inked
  <2>7. Trimmed(u) = SubSeq(u, a + 1, b + 1) /\ Trimmed(p) = SubSeq(p, a, b)
    BY <1>1, <2>4, <2>6, TrimmedInk
  <2>8. SubSeq(u, a + 1, b + 1) = SubSeq(p, a, b)
    <3>. DEFINE x == SubSeq(u, a + 1, b + 1)
                y == SubSeq(p, a, b)
                n == b - a + 1
    <3>1. /\ n \in Nat /\ (b + 1) - (a + 1) + 1 = n /\ a + 1 <= b + 1
          /\ \A i \in a + 1 .. b + 1 : i \in 1 .. Len(u)
          /\ \A i \in a .. b : i \in 1 .. Len(p)
          /\ a + 1 \in Int /\ b + 1 \in Int /\ a \in Int /\ b \in Int
      BY <1>2, <2>4
    <3>2. \A i \in a + 1 .. b + 1 : u[i] \in Chars
      BY <2>4, <3>1, LenProperties
    <3>3. \A i \in a .. b : p[i] \in Chars
      BY <1>2, <3>1
    <3>4. /\ x \in Seq(Chars) /\ Len(x) = n
          /\ \A i \in 1 .. n : x[i] = u[(a + 1) + i - 1]
      BY <3>1, <3>2, SubSeqProperties
    <3>5. /\ y \in Seq(Chars) /\ Len(y) = n
          /\ \A i \in 1 .. n : y[i] = p[a + i - 1]
      BY <1>2, <3>1, <3>3, SubSeqProperties
    <3>6. \A i \in 1 .. n : x[i] = y[i]
      <4>. TAKE i \in 1 .. n
      <4>1. (a + 1) + i - 1 = (a + i - 1) + 1 /\ a + i - 1 \in 1 .. b
        BY <1>2
      <4>2. u[(a + i - 1) + 1] = p[a + i - 1]
        BY <2>5, <4>1
      <4>. QED
        BY <3>4, <3>5, <4>1, <4>2
    <3>. HIDE DEF x, y, n
    <3>7. x = y
      BY <3>4, <3>5, <3>6, SeqEqual
    <3>. QED
      BY <3>7 DEF x, y
  <2>. QED
    BY <2>2, <2>7, <2>8
<1>9. Asks(s, "CACHE")
  BY <1>7 DEF Asks
<1>. QED
  BY <1>8, <1>9, MeaningOfWord DEF s, Operations
-----------------------------------------------------------------------------
(* The invariant.                                                          *)

AllPages == UNION {Range(Caches[n]) : n \in DOMAIN Caches}
PipeEntries == {[line |-> Prefixed(p), page |-> p] : p \in AllPages}

\* Lines are strings that fit; those of an UPDATE are the CACHE lines of pages.
LinesInv ==
  /\ line \in Seq(Chars) /\ Len(line) < BufferSize
  /\ pipe \in Seq(PipeEntries)
  /\ origin # Nobody => origin \in Seq(Chars) /\ line = Prefixed(origin)

\* job holds the line, then its argument; command the last word there was.
BuffersInv ==
  /\ pc = "parse" => Holds(job, line)
  /\ pc \in {"switch", "refresh"} =>
       op = Meaning(line)[1] /\ Holds(job, Meaning(line)[2])
  /\ lastWord # Nobody => Holds(command, lastWord)

\* An UPDATE on its way has met no page that overruns new_command.
RefreshInv ==
  pc = "refresh" =>
    /\ op = "UPDATE" /\ Str(job) \in DOMAIN Caches
    /\ SubSeq(new_command, 1, Length1) = Append(Words.CACHE, Space)
    /\ \A k \in 1 .. page - 1 : Len(Pages[k]) # BufferSize - Length1 - 1

CommandsInv ==
  TypeOK /\ LinesInv /\ BuffersInv /\ RefreshInv /\ NamesLastWord
    /\ OverrunsAtKnownLengths

-----------------------------------------------------------------------------
(* The steps.                                                              *)

\* What the assumptions say of the numbers and the pages.
LEMMA Numbers ==
  /\ BufferSize \in Nat \ {0} /\ LogSize \in Nat /\ MaxKey \in Nat /\ PrefixLength \in Nat
  /\ MaxLines \in Nat
  /\ Text.refused \in Nat /\ Text.undefined \in Nat /\ Text.unknown \in Nat
  /\ \A t \in Text.url : t \in Nat
  /\ \A t \in Text.key : t \in Nat
PROOF
<1>1. \A T \in {Text.url, Text.key} : T \subseteq Nat
  BY CommandsAssumption
<1>2. Text.url \subseteq Nat /\ Text.key \subseteq Nat
  BY <1>1
<1>. QED
  BY <1>2, CommandsAssumption

LEMMA PagesOf ==
  ASSUME NEW n \in DOMAIN Caches
  PROVE  /\ Len(Caches[n]) \in Nat /\ DOMAIN Caches[n] = 1 .. Len(Caches[n])
         /\ \A k \in 1 .. Len(Caches[n]) :
              /\ Caches[n][k] \in Seq(Chars) /\ Len(Caches[n][k]) \in Nat
              /\ Caches[n][k] \in Range(Caches[n]) /\ Caches[n][k] \in AllPages
         /\ \A p \in Range(Caches[n]) : \E k \in 1 .. Len(Caches[n]) : p = Caches[n][k]
PROOF
<1>1. Caches[n] \in Seq(Seq(Chars))
  BY CommandsAssumption
<1>. DEFINE c == Caches[n]
<1>2. Len(c) \in Nat /\ DOMAIN c = 1 .. Len(c) /\ \A k \in 1 .. Len(c) : c[k] \in Seq(Chars)
  BY <1>1, LenProperties
<1>3. Range(c) = {c[k] : k \in 1 .. Len(c)}
  BY <1>2 DEF Range
<1>4. \A k \in 1 .. Len(c) : c[k] \in Range(c) /\ c[k] \in AllPages
  BY <1>3 DEF AllPages
<1>5. \A k \in 1 .. Len(c) : Len(c[k]) \in Nat
  BY <1>2, LenProperties
<1>. QED
  BY <1>2, <1>3, <1>4, <1>5

LEMMA PipeEntry ==
  ASSUME NEW e \in PipeEntries
  PROVE  e.page \in Seq(Chars) /\ e.line = Prefixed(e.page) /\ e.line \in Seq(Chars)
PROOF
<1>1. PICK p \in AllPages : e = [line |-> Prefixed(p), page |-> p]
  BY DEF PipeEntries
<1>2. PICK n \in DOMAIN Caches : p \in Range(Caches[n])
  BY DEF AllPages
<1>3. PICK k \in 1 .. Len(Caches[n]) : p = Caches[n][k]
  BY <1>2, PagesOf
<1>4. p \in Seq(Chars)
  BY <1>3, PagesOf
<1>. QED
  BY <1>1, <1>4, PrefixedString

LEMMA InitCommands == Init => CommandsInv
PROOF
<1>. SUFFICES ASSUME Init PROVE CommandsInv
  OBVIOUS
<1>1. Buffer(job) /\ Buffer(command)
  BY CommandsAssumption DEF Init, Buffer
<1>2. Len(<<>>) = 0 /\ <<>> \in Seq(Chars) /\ <<>> \in Seq(PipeEntries) /\ DOMAIN <<>> = {}
  OBVIOUS
<1>3. TypeOK
  BY <1>1, <1>2, Numbers DEF Init, TypeOK
<1>4. LinesInv
  BY <1>2, Numbers DEF Init, LinesInv
<1>. QED
  BY <1>3, <1>4
     DEF Init, CommandsInv, BuffersInv, RefreshInv, NamesLastWord, OverrunsAtKnownLengths

LEMMA TakeKeeps == CommandsInv /\ TakeLine => CommandsInv'
PROOF
<1>. SUFFICES ASSUME CommandsInv, TakeLine PROVE CommandsInv'
  OBVIOUS
<1>1. /\ TypeOK /\ LinesInv /\ BuffersInv /\ pc = "wait" /\ pc' = "parse"
      /\ job' = Copied(job, line')
      /\ UNCHANGED <<command, new_command, page, op, said, lastWord>>
  BY DEF CommandsInv, TakeLine
<1>2. CASE /\ taken < MaxLines /\ taken' = taken + 1
           /\ line' \in Lines
           /\ origin' = Nobody
           /\ UNCHANGED pipe
  <2>1. line' \in Seq(Chars) /\ Len(line') < BufferSize
    BY <1>2, CommandsAssumption
  <2>2. LinesInv'
    BY <1>1, <1>2, <2>1 DEF LinesInv
  <2>3. taken' \in 0 .. MaxLines
    BY <1>1, <1>2, Numbers DEF TypeOK
  <2>4. Holds(job', line')
    BY <1>1, <2>1, CopiedHolds DEF TypeOK
  <2>5. TypeOK'
    BY <1>1, <1>2, <2>3, <2>4, HeldString DEF TypeOK, Holds
  <2>6. BuffersInv'
    BY <1>1, <2>4 DEF BuffersInv
  <2>. QED
    BY <1>1, <2>2, <2>5, <2>6
       DEF CommandsInv, RefreshInv, NamesLastWord, OverrunsAtKnownLengths
<1>3. CASE /\ pipe # <<>>
           /\ line' = Head(pipe).line
           /\ origin' = Head(pipe).page
           /\ pipe' = Tail(pipe)
           /\ UNCHANGED taken
  <2>1. /\ Head(pipe) \in PipeEntries /\ pipe' \in Seq(PipeEntries) /\ Head(pipe) = pipe[1]
        /\ 1 \in DOMAIN pipe /\ Len(pipe') \in Nat /\ DOMAIN pipe' = 1 .. Len(pipe')
        /\ \A k \in DOMAIN pipe' : k + 1 \in DOMAIN pipe /\ pipe'[k] = pipe[k + 1]
    <3>1. pipe \in Seq(PipeEntries) /\ pipe # <<>>
      BY <1>1, <1>3 DEF LinesInv
    <3>. QED
      BY <1>3, <3>1, HeadTailProperties, LenProperties, EmptySeq
  <2>2. /\ line' \in Seq(Chars) /\ origin' \in Seq(Chars) /\ line' = Prefixed(origin')
        /\ Len(line') < BufferSize
    BY <1>1, <1>3, <2>1, PipeEntry DEF TypeOK
  <2>3. LinesInv'
    BY <2>1, <2>2 DEF LinesInv
  <2>4. Holds(job', line')
    BY <1>1, <2>2, CopiedHolds DEF TypeOK
  <2>5. \A k \in DOMAIN pipe' : Len(pipe'[k].line) < BufferSize
    BY <1>1, <2>1 DEF TypeOK
  <2>6. TypeOK'
    BY <1>1, <1>3, <2>4, <2>5, HeldString DEF TypeOK, Holds
  <2>7. BuffersInv'
    BY <1>1, <2>4 DEF BuffersInv
  <2>. QED
    BY <1>1, <2>3, <2>6, <2>7
       DEF CommandsInv, RefreshInv, NamesLastWord, OverrunsAtKnownLengths
<1>. QED
  BY <1>2, <1>3 DEF TakeLine

LEMMA ParseKeeps == CommandsInv /\ ParseLine => CommandsInv'
PROOF
<1>. SUFFICES ASSUME CommandsInv, ParseLine PROVE CommandsInv'
  OBVIOUS
<1>1. /\ TypeOK /\ LinesInv /\ BuffersInv /\ pc = "parse" /\ pc' = "switch"
      /\ UNCHANGED <<new_command, page, pipe, taken, line, origin, said>>
  BY DEF CommandsInv, ParseLine
<1>2. /\ op' = Meaning(line)[1] /\ op' \in Operations \union {"UNDEFINED"}
      /\ Holds(job', Meaning(line)[2])
      /\ Buffer(command')
      /\ lastWord' # Nobody => Holds(command', lastWord')
  BY <1>1, ParseMeans DEF TypeOK, BuffersInv
<1>3. Meaning(line)' = Meaning(line)
  BY <1>1 DEF Meaning, Asks, HasWord, FirstWord, AfterWord, Blanks, Trimmed
<1>4. BuffersInv'
  BY <1>1, <1>2, <1>3 DEF BuffersInv
<1>5. TypeOK'
  BY <1>1, <1>2, HeldString DEF TypeOK, Holds
<1>6. LinesInv'
  BY <1>1 DEF LinesInv
<1>. QED
  BY <1>1, <1>4, <1>5, <1>6
     DEF CommandsInv, RefreshInv, NamesLastWord, OverrunsAtKnownLengths

\* What every end of a line has in common.
LEMMA EndOfLine ==
  ASSUME CommandsInv, pc' \in {"wait", "undefined"},
         UNCHANGED <<job, command, pipe, op, taken, line, origin, lastWord>>,
         pc' = "wait" => Len(new_command') < BufferSize,
         op = "UNDEFINED" /\ pc' = "wait" /\ lastWord # Nobody => said' = lastWord,
         pc' = "undefined" => ~Harmless(Meaning(line)[1], Meaning(line)[2]),
         pc' = "wait" => ~Fatal(Meaning(line)[1], Meaning(line)[2])
  PROVE  CommandsInv'
PROOF
<1>1. TypeOK /\ LinesInv /\ BuffersInv
  BY DEF CommandsInv
<1>2. TypeOK'
  BY <1>1 DEF TypeOK
<1>3. LinesInv' /\ BuffersInv'
  BY <1>1 DEF LinesInv, BuffersInv
<1>4. RefreshInv' /\ NamesLastWord'
  BY DEF RefreshInv, NamesLastWord
<1>5. OverrunsAtKnownLengths'
  BY DEF OverrunsAtKnownLengths, Harmless
<1>. QED
  BY <1>2, <1>3, <1>4, <1>5 DEF CommandsInv

LEMMA FetchKeeps == CommandsInv /\ Fetch => CommandsInv'
PROOF
<1>. DEFINE o == Meaning(line)[1]
            s == Meaning(line)[2]
<1>. SUFFICES ASSUME CommandsInv, Fetch PROVE CommandsInv'
  OBVIOUS
<1>1. /\ pc = "switch" /\ op = "FETCH" /\ op = o /\ Holds(job, s) /\ Len(new_command) < BufferSize
      /\ UNCHANGED <<job, command, new_command, page, pipe, op, taken, line, origin, said, lastWord>>
  BY DEF CommandsInv, TypeOK, BuffersInv, Fetch, history
<1>2. PICK u \in Text.url : Say(u + StrLen(job))
  BY DEF Fetch
<1>3. StrLen(job) = Len(s) /\ Len(s) \in Nat /\ u \in Nat /\ LogSize \in Nat
  BY <1>1, HeldString, Numbers
<1>. HIDE DEF o, s
<1>4. /\ pc' \in {"wait", "undefined"}
      /\ pc' = "undefined" => ~(u + Len(s) < LogSize)
  BY <1>2, <1>3 DEF Say
<1>5. pc' = "undefined" => ~Harmless(o, s)
  BY <1>1, <1>4 DEF Harmless, Quotable
<1>6. ~Fatal(o, s)
  BY <1>1 DEF Fatal
<1>. QED
  BY <1>1, <1>4, <1>5, <1>6, EndOfLine DEF o, s

LEMMA MaxOfTwo ==
  ASSUME NEW x \in Nat, NEW y \in Nat
  PROVE  Max({x, y}) \in {x, y}
PROOF
<1>1. CASE x <= y
  BY <1>1, MaxIs
<1>2. CASE y <= x
  BY <1>2, MaxIs
<1>. QED
  BY <1>1, <1>2

\* A key that create_key refuses is quoted by a message that is too long for its
\* buffer; one that is accepted at the greatest length overruns `key'
\* (memcached_client.c:119-134, logger.c:84-93).
LEMMA CacheKeeps == CommandsInv /\ Cache => CommandsInv'
PROOF
<1>. DEFINE o == Meaning(line)[1]
            s == Meaning(line)[2]
            n == PrefixLength + StrLen(job)
<1>. SUFFICES ASSUME CommandsInv, Cache PROVE CommandsInv'
  OBVIOUS
<1>1. /\ pc = "switch" /\ op = "CACHE" /\ op = o /\ Holds(job, s) /\ Len(new_command) < BufferSize
      /\ UNCHANGED <<job, command, new_command, page, pipe, op, taken, line, origin, said, lastWord>>
  BY DEF CommandsInv, TypeOK, BuffersInv, Cache, history
<1>2. StrLen(job) = Len(s) /\ Len(s) \in Nat /\ n \in Nat
  BY <1>1, HeldString, Numbers
<1>3. ASSUME pc' \in {"wait", "undefined"},
             pc' = "undefined" => ~Harmless(o, s), pc' = "wait" => ~Fatal(o, s)
      PROVE  CommandsInv'
  BY <1>1, <1>3, EndOfLine
<1>. HIDE DEF o, s
<1>4. CASE ~KeyAccepted(n) /\ Say(Text.refused + StrLen(job))
  <2>1. PrefixLength + Len(s) >= MaxKey
    BY <1>2, <1>4, Numbers DEF KeyAccepted
  <2>2. ~(Text.refused + Len(s) < LogSize)
    BY <1>2, <2>1, Numbers, RefusalAssumption
  <2>3. pc' = "undefined"
    BY <1>2, <1>4, <2>2 DEF Say
  <2>4. ~(PrefixLength + Len(s) < MaxKey - 1)
    BY <1>2, <2>1, Numbers
  <2>5. ~Harmless(o, s)
    BY <1>1, <2>4 DEF Harmless
  <2>. QED
    BY <1>3, <2>3, <2>5
<1>5. CASE KeyAccepted(n) /\ n + 1 > MaxKey - 1 /\ pc' = "undefined"
  <2>1. ~(PrefixLength + Len(s) < MaxKey - 1)
    BY <1>2, <1>5, Numbers
  <2>2. ~Harmless(o, s)
    BY <1>1, <2>1 DEF Harmless
  <2>. QED
    BY <1>3, <1>5, <2>2
<1>6. CASE /\ KeyAccepted(n) /\ n + 1 <= MaxKey - 1
           /\ \E k \in Text.key, u \in Text.url : Say(Max({k + n, u + StrLen(job)}))
  <2>1. PICK k \in Text.key, u \in Text.url : Say(Max({k + n, u + StrLen(job)}))
    BY <1>6
  <2>2. k \in Nat /\ u \in Nat /\ k + n \in Nat /\ u + Len(s) \in Nat /\ LogSize \in Nat
    BY <1>2, Numbers
  <2>3. Max({k + n, u + Len(s)}) \in {k + n, u + Len(s)}
    BY <2>2, MaxOfTwo
  <2>4. /\ pc' \in {"wait", "undefined"}
        /\ pc' = "undefined" => ~(k + (PrefixLength + Len(s)) < LogSize) \/ ~(u + Len(s) < LogSize)
    BY <1>2, <2>1, <2>3 DEF Say
  <2>5. pc' = "undefined" => ~Harmless(o, s)
    BY <1>1, <2>4 DEF Harmless, Quotable
  <2>6. ~Fatal(o, s)
    <3>1. ~(PrefixLength + Len(s) >= MaxKey - 1)
      BY <1>2, <1>6, Numbers
    <3>. QED
      BY <1>1, <3>1 DEF Fatal
  <2>. QED
    BY <1>3, <2>4, <2>5, <2>6
<1>. QED
  BY <1>4, <1>5, <1>6 DEF Cache

\* The message on an undefined operation quotes what command holds
\* (queral.c:514-518).
LEMMA UndefinedKeeps == CommandsInv /\ Undefined => CommandsInv'
PROOF
<1>. DEFINE o == Meaning(line)[1]
            s == Meaning(line)[2]
<1>. SUFFICES ASSUME CommandsInv, Undefined PROVE CommandsInv'
  OBVIOUS
<1>1. /\ pc = "switch" /\ op = "UNDEFINED" /\ op = o /\ Len(new_command) < BufferSize
      /\ lastWord # Nobody => Holds(command, lastWord)
      /\ UNCHANGED <<job, command, new_command, page, pipe, op, taken, line, origin, lastWord>>
  BY DEF CommandsInv, TypeOK, BuffersInv, Undefined
<1>. HIDE DEF o, s
<1>2. lastWord # Nobody =>
        /\ Nuls(command) # {} /\ StrLen(command) = Len(lastWord) /\ Str(command) = lastWord
  BY <1>1, HeldString
<1>3. ~Fatal(o, s)
  BY <1>1 DEF Fatal
<1>4. Harmless(o, s) =>
        lastWord # Nobody /\ Quotable({Text.undefined}, Len(lastWord))
  BY <1>1 DEF Harmless
<1>5. CASE Nuls(command) = {} /\ pc' = "undefined" /\ UNCHANGED said
  BY <1>1, <1>2, <1>4, <1>5, EndOfLine DEF o, s
<1>6. CASE /\ said' = Str(command)
           /\ Say(Text.undefined + StrLen(command))
  <2>1. /\ pc' \in {"wait", "undefined"}
        /\ pc' = "undefined" => ~(Text.undefined + StrLen(command) < LogSize)
    BY <1>6 DEF Say
  <2>2. pc' = "undefined" => ~Harmless(o, s)
    BY <1>2, <1>4, <2>1 DEF Quotable
  <2>. QED
    BY <1>1, <1>2, <1>3, <1>6, <2>1, <2>2, EndOfLine DEF o, s
<1>. QED
  BY <1>5, <1>6 DEF Undefined

\* The beginning of a string that starts with CACHE and a blank.
LEMMA PrefixOf ==
  ASSUME NEW S, NEW p \in Seq(S), Chars \subseteq S
  PROVE  SubSeq(Append(Words.CACHE, Space) \o p, 1, Length1) = Append(Words.CACHE, Space)
PROOF
<1>. DEFINE A == Append(Words.CACHE, Space)
            c == Length1
            x == SubSeq(A \o p, 1, c)
<1>1. A \in Seq(Chars) /\ Len(A) = c /\ c \in Nat /\ c > 1
  <2>1. <<>> \in Seq(Chars)
    OBVIOUS
  <2>. QED
    BY <2>1, PrefixedString
<1>2. A \in Seq(S)
  BY <1>1
<1>. HIDE DEF A, c
<1>3. Len(p) \in Nat /\ \A i \in 1 .. c : A[i] \in S /\ i \in 1 .. c + Len(p)
  BY <1>1, <1>2, LenProperties
<1>4. \A i \in 1 .. c : (A \o p)[i] = A[i]
  BY <1>1, <1>2, <1>3, ConcatProperties
<1>5. /\ x \in Seq(S) /\ Len(x) = c
      /\ \A i \in 1 .. c : x[i] = (A \o p)[i]
  <2>1. 1 \in Int /\ c \in Int /\ 1 <= c /\ c - 1 + 1 = c /\ \A i \in 1 .. c : 1 + i - 1 = i
    BY <1>1
  <2>. DEFINE y == A \o p
  <2>2. \A i \in 1 .. c : y[i] \in S
    BY <1>3, <1>4
  <2>. HIDE DEF y
  <2>3. /\ SubSeq(y, 1, c) \in Seq(S)
        /\ Len(SubSeq(y, 1, c)) = IF 1 <= c THEN c - 1 + 1 ELSE 0
        /\ \A i \in 1 .. c - 1 + 1 : SubSeq(y, 1, c)[i] = y[1 + i - 1]
    BY <2>1, <2>2, SubSeqProperties
  <2>4. x = SubSeq(y, 1, c)
    BY DEF y
  <2>. HIDE DEF x
  <2>5. x \in Seq(S) /\ Len(x) = c /\ \A i \in 1 .. c : x[i] = y[i]
    BY <2>1, <2>3, <2>4
  <2>. QED
    BY <2>5 DEF y
<1>. HIDE DEF x
<1>6. \A i \in 1 .. c : x[i] = A[i]
  BY <1>4, <1>5
<1>7. x = A
  BY <1>1, <1>2, <1>5, <1>6, SeqEqual
<1>. QED
  BY <1>7 DEF x, A, c

\* An UPDATE of a cache that exists begins with "CACHE " in new_command.
LEMMA StartUpdateKeeps == CommandsInv /\ StartUpdate => CommandsInv'
PROOF
<1>. DEFINE o == Meaning(line)[1]
            s == Meaning(line)[2]
<1>. SUFFICES ASSUME CommandsInv, StartUpdate PROVE CommandsInv'
  OBVIOUS
<1>1. /\ pc = "switch" /\ op = "UPDATE" /\ op = o /\ Holds(job, s)
      /\ TypeOK /\ LinesInv /\ BuffersInv
      /\ UNCHANGED <<job, command, pipe, op, taken, line, origin, said, lastWord>>
  BY DEF CommandsInv, BuffersInv, StartUpdate, history
<1>2. StrLen(job) = Len(s) /\ Str(job) = s /\ Len(s) \in Nat
  BY <1>1, HeldString
<1>3. CASE /\ Str(job) \in DOMAIN Caches
           /\ new_command' = Append(Words.CACHE, Space)
           /\ page' = 1
           /\ pc' = "refresh"
  <2>1. Length1 < BufferSize /\ Len(new_command') = Length1
        /\ SubSeq(new_command', 1, Length1) = Append(Words.CACHE, Space)
    <3>1. <<>> \in Seq(Chars)
      OBVIOUS
    <3>2. /\ Append(Words.CACHE, Space) \in Seq(Chars)
          /\ Len(Append(Words.CACHE, Space)) = Length1
          /\ SubSeq(Append(Words.CACHE, Space) \o <<>>, 1, Length1) = Append(Words.CACHE, Space)
      BY <3>1, PrefixedString, PrefixOf
    <3>3. Append(Words.CACHE, Space) \o <<>> = Append(Words.CACHE, Space)
      BY <3>2, ConcatEmptySeq
    <3>4. Length1 < BufferSize
      BY WordsAssumption DEF Length1
    <3>. QED
      BY <1>3, <3>2, <3>3, <3>4
  <2>2. Pages' = Caches[Str(job)] /\ Len(Caches[Str(job)]) \in Nat
    BY <1>1, <1>3, PagesOf DEF Pages, Str, StrLen, Nuls
  <2>3. TypeOK'
    <3>1. page' \in 1 .. Len(Pages') + 1
      BY <1>3, <2>2
    <3>2. Nuls(job)' # {}
      BY <1>1, HeldString DEF Nuls
    <3>3. (page \in 1 .. Len(Pages) + 1)'
      BY <3>1
    <3>. QED
      BY <1>1, <1>3, <2>1, <3>2, <3>3 DEF TypeOK
  <2>4. LinesInv' /\ BuffersInv'
    BY <1>1, <1>3 DEF LinesInv, BuffersInv
  <2>5. RefreshInv'
    BY <1>1, <1>3, <2>1 DEF RefreshInv, Str, StrLen, Nuls
  <2>6. NamesLastWord' /\ OverrunsAtKnownLengths'
    BY <1>3 DEF NamesLastWord, OverrunsAtKnownLengths
  <2>. QED
    BY <2>3, <2>4, <2>5, <2>6 DEF CommandsInv
<1>4. CASE /\ Str(job) \notin DOMAIN Caches
           /\ Say(Text.unknown + StrLen(job))
           /\ UNCHANGED <<new_command, page>>
  <2>1. /\ pc' \in {"wait", "undefined"} /\ s \notin DOMAIN Caches
        /\ pc' = "undefined" => ~(Text.unknown + Len(s) < LogSize)
    BY <1>2, <1>4 DEF Say
  <2>2. Len(new_command') < BufferSize
    BY <1>1, <1>4 DEF TypeOK
  <2>. HIDE DEF o, s
  <2>3. pc' = "undefined" => ~Harmless(o, s)
    BY <1>1, <2>1 DEF Harmless, Quotable
  <2>4. ~Fatal(o, s)
    BY <1>1, <2>1 DEF Fatal
  <2>. QED
    BY <1>1, <2>1, <2>2, <2>3, <2>4, EndOfLine DEF o, s
<1>. QED
  BY <1>3, <1>4 DEF StartUpdate

\* The last page is done; none of them had the one length that overruns.
LEMMA EndUpdateKeeps == CommandsInv /\ EndUpdate => CommandsInv'
PROOF
<1>. DEFINE o == Meaning(line)[1]
            s == Meaning(line)[2]
<1>. SUFFICES ASSUME CommandsInv, EndUpdate PROVE CommandsInv'
  OBVIOUS
<1>1. /\ pc = "refresh" /\ op = "UPDATE" /\ op = o /\ Holds(job, s) /\ pc' = "wait"
      /\ Len(new_command) < BufferSize /\ s = Str(job) /\ Pages = Caches[s]
      /\ s \in DOMAIN Caches /\ page > Len(Pages) /\ page \in 1 .. Len(Pages) + 1
      /\ \A k \in 1 .. page - 1 : Len(Pages[k]) # BufferSize - Length1 - 1
      /\ UNCHANGED <<job, command, new_command, page, pipe, op, taken, line, origin, said, lastWord>>
  BY HeldString DEF CommandsInv, TypeOK, BuffersInv, RefreshInv, EndUpdate, history, Pages
<1>. HIDE DEF o, s
<1>2. Len(Pages) \in Nat
  BY <1>1, PagesOf
<1>3. \A k \in 1 .. Len(Pages) : Len(Pages[k]) # BufferSize - Length1 - 1
  BY <1>1, <1>2
<1>4. \A p \in Range(Caches[s]) : Len(p) # BufferSize - Length1 - 1
  <2>. TAKE p \in Range(Caches[s])
  <2>1. PICK k \in 1 .. Len(Caches[s]) : p = Caches[s][k]
    BY <1>1, PagesOf
  <2>. QED
    BY <1>1, <1>3, <2>1
<1>5. ~Fatal(o, s)
  BY <1>1, <1>4 DEF Fatal
<1>. QED
  BY <1>1, <1>5, EndOfLine DEF o, s

\* A page that is too long is left out; one that fits is written after
\* "CACHE ", with nothing left of the page before it; only at one length is
\* there no room for the NUL (queral.c:498-509).
LEMMA RefreshKeeps == CommandsInv /\ RefreshPage => CommandsInv'
PROOF
<1>. DEFINE o == Meaning(line)[1]
            s == Meaning(line)[2]
            p == Pages[page]
            text == WithPage(p)
            S == Chars \union {"newline"}
<1>. SUFFICES ASSUME CommandsInv, RefreshPage PROVE CommandsInv'
  OBVIOUS
<1>1. /\ pc = "refresh" /\ op = "UPDATE" /\ op = o /\ Holds(job, s)
      /\ Len(new_command) < BufferSize /\ s = Str(job) /\ Pages = Caches[s]
      /\ s \in DOMAIN Caches /\ page <= Len(Pages) /\ page \in 1 .. Len(Pages) + 1
      /\ \A k \in 1 .. page - 1 : Len(Pages[k]) # BufferSize - Length1 - 1
      /\ SubSeq(new_command, 1, Length1) = Append(Words.CACHE, Space)
      /\ TypeOK /\ LinesInv /\ BuffersInv
      /\ page' = page + 1
      /\ UNCHANGED <<job, command, op, taken, line, origin, said, lastWord>>
  BY HeldString DEF CommandsInv, TypeOK, BuffersInv, RefreshInv, RefreshPage, history, Pages
<1>2. \/ ~PageAccepted(Len(p)) /\ UNCHANGED <<new_command, pipe, pc>>
      \/ /\ PageAccepted(Len(p))
         /\ new_command' = Append(text, "newline")
         /\ \/ /\ Len(new_command') < BufferSize
               /\ UNCHANGED pc
               /\ \/ pipe' = Append(pipe, [line |-> text, page |-> p])
                  \/ UNCHANGED pipe
            \/ /\ Len(new_command') >= BufferSize
               /\ pc' = "undefined"
               /\ UNCHANGED pipe
  BY DEF RefreshPage
<1>3. /\ Len(Pages) \in Nat /\ page \in 1 .. Len(Pages)
      /\ p \in Seq(Chars) /\ Len(p) \in Nat /\ p \in Range(Caches[s]) /\ p \in AllPages
  <2>1. Len(Pages) \in Nat
    BY <1>1, PagesOf
  <2>2. page \in 1 .. Len(Pages)
    BY <1>1, <2>1
  <2>. QED
    BY <1>1, <2>1, <2>2, PagesOf
<1>4. /\ text = Prefixed(p) /\ text \in Seq(Chars) /\ Len(text) = Length1 + Len(p)
      /\ Length1 \in Nat
  BY <1>1, <1>3, PrefixedString DEF WithPage, Prefixed
<1>5. /\ Len(Append(text, "newline")) = Length1 + Len(p) + 1
      /\ SubSeq(Append(text, "newline"), 1, Length1) = Append(Words.CACHE, Space)
  <2>. DEFINE A == Append(Words.CACHE, Space)
              n == <<"newline">>
  <2>1. text \in Seq(S) /\ p \in Seq(S) /\ "newline" \in S /\ n \in Seq(S) /\ A \in Seq(S)
    <3>1. Chars \subseteq S /\ "newline" \in S
      OBVIOUS
    <3>2. A \in Seq(Chars)
      BY <1>3, PrefixedString
    <3>. HIDE DEF S, A
    <3>3. \A q \in Seq(Chars) : q \in Seq(S)
      BY <3>1
    <3>4. n \in Seq(S)
      BY <3>1
    <3>. QED
      BY <1>3, <1>4, <3>1, <3>2, <3>3, <3>4
  <2>2. Len(Append(text, "newline")) = Len(text) + 1
    BY <2>1, AppendProperties
  <2>3. Append(text, "newline") = text \o n
    BY <2>1, AppendIsConcat
  <2>4. text \o n = A \o (p \o n)
    <3>1. text = A \o p
      BY <1>4 DEF Prefixed
    <3>. HIDE DEF text, A, p, n
    <3>. QED
      BY <2>1, <3>1, ConcatAssociative
  <2>5. p \o n \in Seq(S)
    BY <2>1, ConcatProperties
  <2>6. SubSeq(A \o (p \o n), 1, Length1) = A
    BY <2>5, PrefixOf
  <2>. QED
    BY <1>4, <2>2, <2>3, <2>4, <2>6
<1>6. Pages' = Pages /\ Str(job)' = Str(job)
  BY <1>1 DEF Pages, Str, StrLen, Nuls
<1>7. page' \in 1 .. Len(Pages) + 1 /\ page' - 1 = page
  BY <1>1, <1>3
<1>. HIDE DEF o, s, text
<1>8. ASSUME UNCHANGED pc, Len(new_command') < BufferSize,
             pipe' = pipe \/ pipe' = Append(pipe, [line |-> text, page |-> p]),
             Len(text) < BufferSize \/ pipe' = pipe,
             SubSeq(new_command', 1, Length1) = Append(Words.CACHE, Space),
             Len(p) # BufferSize - Length1 - 1
      PROVE  CommandsInv'
  <2>1. /\ pipe' \in Seq(PipeEntries)
        /\ \A k \in DOMAIN pipe' : Len(pipe'[k].line) < BufferSize
    <3>1. pipe \in Seq(PipeEntries) /\ \A k \in DOMAIN pipe : Len(pipe[k].line) < BufferSize
      BY <1>1 DEF LinesInv, TypeOK
    <3>2. CASE pipe' = pipe
      BY <3>1, <3>2
    <3>3. CASE pipe' = Append(pipe, [line |-> text, page |-> p]) /\ Len(text) < BufferSize
      <4>. DEFINE e == [line |-> text, page |-> p]
      <4>1. e \in PipeEntries /\ Len(e.line) < BufferSize
        BY <1>3, <1>4, <3>3 DEF PipeEntries
      <4>. HIDE DEF e
      <4>2. pipe' = Append(pipe, e)
        BY <3>3 DEF e
      <4>3. /\ pipe' \in Seq(PipeEntries) /\ Len(pipe) \in Nat
            /\ Len(pipe') = Len(pipe) + 1 /\ DOMAIN pipe' = 1 .. Len(pipe')
            /\ DOMAIN pipe = 1 .. Len(pipe)
            /\ pipe'[Len(pipe) + 1] = e /\ \A k \in 1 .. Len(pipe) : pipe'[k] = pipe[k]
        BY <3>1, <4>1, <4>2, AppendProperties, LenProperties
      <4>4. \A k \in DOMAIN pipe' : k \in DOMAIN pipe \/ k = Len(pipe) + 1
        BY <4>3
      <4>. QED
        BY <3>1, <4>1, <4>3, <4>4
    <3>. QED
      BY <1>8, <3>2, <3>3
  <2>2. TypeOK'
    <3>1. (page \in 1 .. Len(Pages) + 1)'
      BY <1>6, <1>7
    <3>2. Nuls(job)' # {}
      BY <1>1, HeldString DEF Nuls
    <3>. QED
      BY <1>1, <1>8, <2>1, <3>1, <3>2 DEF TypeOK
  <2>3. LinesInv' /\ BuffersInv'
    BY <1>1, <1>8, <2>1 DEF LinesInv, BuffersInv
  <2>4. RefreshInv'
    <3>1. \A k \in 1 .. page : Len(Pages[k]) # BufferSize - Length1 - 1
      <4>. TAKE k \in 1 .. page
      <4>1. k \in 1 .. page - 1 \/ k = page
        BY <1>3
      <4>. QED
        BY <1>1, <1>8, <4>1
    <3>2. (\A k \in 1 .. page - 1 : Len(Pages[k]) # BufferSize - Length1 - 1)'
      BY <1>6, <1>7, <3>1 DEF Length1
    <3>. QED
      BY <1>1, <1>6, <1>8, <3>2 DEF RefreshInv
  <2>5. NamesLastWord' /\ OverrunsAtKnownLengths'
    BY <1>1, <1>8 DEF NamesLastWord, OverrunsAtKnownLengths
  <2>. QED
    BY <2>2, <2>3, <2>4, <2>5 DEF CommandsInv
<1>9. CASE ~PageAccepted(Len(p)) /\ UNCHANGED <<new_command, pipe, pc>>
  <2>1. ~(Length1 + Len(p) + 1 <= BufferSize)
    BY <1>9 DEF PageAccepted
  <2>2. Len(p) # BufferSize - Length1 - 1
    <3>. HIDE DEF Length1
    <3>. QED
      BY <2>1, <1>3, <1>4, Numbers
  <2>. QED
    BY <1>1, <1>8, <1>9, <2>2
<1>10. CASE /\ PageAccepted(Len(p))
            /\ new_command' = Append(text, "newline")
            /\ Len(new_command') < BufferSize
            /\ UNCHANGED pc
            /\ \/ pipe' = Append(pipe, [line |-> text, page |-> p])
               \/ UNCHANGED pipe
  <2>1. Length1 + Len(p) + 1 < BufferSize
    BY <1>5, <1>10
  <2>2. Len(p) # BufferSize - Length1 - 1 /\ Len(text) < BufferSize
    BY <1>3, <1>4, <2>1, Numbers
  <2>. QED
    BY <1>5, <1>8, <1>10, <2>2
<1>11. CASE /\ PageAccepted(Len(p))
            /\ new_command' = Append(text, "newline")
            /\ Len(new_command') >= BufferSize
            /\ pc' = "undefined"
            /\ UNCHANGED pipe
  <2>1. Len(p) = BufferSize - Length1 - 1
    <3>1. Length1 + Len(p) + 1 >= BufferSize /\ Length1 + Len(p) + 1 <= BufferSize
      BY <1>5, <1>11 DEF PageAccepted
    <3>. QED
      BY <1>3, <1>4, <3>1, Numbers
  <2>2. ~Harmless(o, s)
    BY <1>1, <1>3, <2>1 DEF Harmless
  <2>. QED
    BY <1>1, <1>11, <2>2, EndOfLine DEF o, s
<1>. QED
  BY <1>2, <1>9, <1>10, <1>11

LEMMA StutterKeeps == CommandsInv /\ UNCHANGED vars => CommandsInv'
PROOF
<1>. SUFFICES ASSUME CommandsInv, UNCHANGED vars PROVE CommandsInv'
  OBVIOUS
<1>1. UNCHANGED <<job, command, new_command, page, pipe, op, pc, taken, line, origin, said, lastWord>>
  BY DEF vars, history
<1>2. TypeOK' /\ LinesInv' /\ BuffersInv' /\ RefreshInv'
  BY <1>1 DEF CommandsInv, TypeOK, LinesInv, BuffersInv, RefreshInv, Pages, Str, StrLen, Nuls
<1>3. NamesLastWord' /\ OverrunsAtKnownLengths'
  BY <1>1 DEF CommandsInv, NamesLastWord, OverrunsAtKnownLengths, Harmless
<1>. QED
  BY <1>2, <1>3 DEF CommandsInv

-----------------------------------------------------------------------------
(* The theorems.                                                           *)

\* The invariant: what the buffers hold at each step of a worker.
THEOREM CommandsInvariant == Spec => []CommandsInv
PROOF
<1>1. CommandsInv /\ [Next]_vars => CommandsInv'
  BY TakeKeeps, ParseKeeps, FetchKeeps, CacheKeeps, StartUpdateKeeps, RefreshKeeps,
     EndUpdateKeeps, UndefinedKeeps, StutterKeeps DEF Next
<1>. QED
  BY <1>1, InitCommands, PTL DEF Spec

\* Ranges; job holds a string from the time a line is taken, and new_command
\* fits its buffer until the one overrun there is (queral.c:498-509).
THEOREM CommandsTypes == Spec => []TypeOK
PROOF
<1>1. CommandsInv => TypeOK
  BY DEF CommandsInv
<1>. QED
  BY <1>1, CommandsInvariant, PTL

\* The parser finds what the line says, whatever earlier lines have left in the
\* buffers (queral.c:357-400, string_utils.c:28-50).
THEOREM LinesAreUnderstood == Spec => []Understood
PROOF
<1>1. CommandsInv => Understood
  <2>. SUFFICES ASSUME CommandsInv, pc = "switch" PROVE <<op, Str(job)>> = Meaning(line)
    BY DEF Understood
  <2>1. op = Meaning(line)[1] /\ Str(job) = Meaning(line)[2]
    BY HeldString DEF CommandsInv, BuffersInv
  <2>2. Meaning(line) = <<Meaning(line)[1], Meaning(line)[2]>>
    BY DEF Meaning
  <2>. QED
    BY <2>1, <2>2
<1>. QED
  BY <1>1, CommandsInvariant, PTL

\* The line an UPDATE writes for a page comes back as the order to refresh that
\* page (queral.c:494-505).
THEOREM RefreshesArrive == Spec => []RefreshReachesCache
PROOF
<1>1. CommandsInv => RefreshReachesCache
  <2>. SUFFICES ASSUME CommandsInv, pc = "switch", origin # Nobody, Trimmed(origin) # <<>>
                PROVE  op = "CACHE" /\ Str(job) = Trimmed(origin)
    BY DEF RefreshReachesCache
  <2>1. op = Meaning(line)[1] /\ Str(job) = Meaning(line)[2]
    BY HeldString DEF CommandsInv, BuffersInv
  <2>2. Meaning(line) = <<"CACHE", Trimmed(origin)>>
    BY PrefixedMeans DEF CommandsInv, LinesInv
  <2>. QED
    BY <2>1, <2>2
<1>. QED
  BY <1>1, CommandsInvariant, PTL

\* The message on an undefined operation names the last word there was
\* (queral.c:360-366, 516).
THEOREM LastWordIsNamed == Spec => []NamesLastWord
PROOF
<1>1. CommandsInv => NamesLastWord
  BY DEF CommandsInv
<1>. QED
  BY <1>1, CommandsInvariant, PTL

\* Writes past a buffer happen at the known lengths and at no others
\* (queral.c:501-505, 516, memcached_client.c:119-134, logger.c:51-93).
THEOREM OverrunsAreKnown == Spec => []OverrunsAtKnownLengths
PROOF
<1>1. CommandsInv => OverrunsAtKnownLengths
  BY DEF CommandsInv
<1>. QED
  BY <1>1, CommandsInvariant, PTL
=============================================================================
