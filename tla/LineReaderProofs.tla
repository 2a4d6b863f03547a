-------------------------- MODULE LineReaderProofs --------------------------
(***************************************************************************)
(* Proofs about the line reader, for every buffer size, every length of    *)
(* lines, every pipe and any number of lines.  The argument: what the      *)
(* callback has not queued yet, in its two buffers and in the pipe, is one *)
(* stretch of the bytes written.  Giving up and overwriting the cache cut  *)
(* it at its beginning, and a writer adds a line at its end, which is      *)
(* always the end of a line.  Where the lines fit the buffer, a piece in   *)
(* the cache gets its end with one read and nothing is overwritten: the    *)
(* stream loses its beginning only when the callback gives up.             *)
(***************************************************************************)
EXTENDS LineReader, SequenceTheorems, FiniteSetTheorems, TLAPS

Bytes == Nat \X Nat

\* s is a stretch of the bytes of lines of the lengths ls: its bytes are of
\* these lines, they follow each other until the end of the line they are of,
\* and behind a newline comes a later line.
Stretch(ls, s) ==
  /\ \A i \in DOMAIN s :
       s[i] # Newline => s[i][1] \in DOMAIN ls /\ s[i][2] \in 1 .. ls[s[i][1]]
  /\ \A i, j \in DOMAIN s :
       i <= j /\ (\A m \in i .. j : s[m] # Newline) => s[j] = <<s[i][1], s[i][2] + (j - i)>>
  /\ \A i \in DOMAIN s :
       i + 1 \in DOMAIN s /\ s[i] # Newline /\ s[i + 1] = Newline =>
         s[i][2] = ls[s[i][1]]
  /\ \A i, m, j \in DOMAIN s :
       i < m /\ m < j /\ s[i] # Newline /\ s[m] = Newline /\ s[j] # Newline =>
         s[i][1] < s[j][1]

\* s has come to the end of a line.
AtLineEnd(ls, s) == s # <<>> => s[Len(s)] = Newline /\ ls # <<>>

\* What SequenceTheorems says of \o, for sequences of bytes.
LEMMA ConcatBytes ==
  \A a, b \in Seq(Bytes) :
    /\ a \o b \in Seq(Bytes)
    /\ Len(a \o b) = Len(a) + Len(b)
    /\ DOMAIN (a \o b) = 1 .. Len(a) + Len(b)
    /\ \A i \in 1 .. Len(a) + Len(b) :
         (a \o b)[i] = IF i <= Len(a) THEN a[i] ELSE b[i - Len(a)]
PROOF
<1>. TAKE a, b \in Seq(Bytes)
<1>1. a \o b \in Seq(Bytes) /\ Len(a \o b) = Len(a) + Len(b)
  BY SMTT(40)
<1>2. \A i \in 1 .. Len(a) + Len(b) :
        (a \o b)[i] = IF i <= Len(a) THEN a[i] ELSE b[i - Len(a)]
  BY SMTT(40)
<1>. QED
  BY <1>1, <1>2, LenProperties

\* Part of a stretch is a stretch.
LEMMA StretchCut ==
  ASSUME NEW ls \in Seq(Nat), NEW s \in Seq(Bytes), Stretch(ls, s),
         NEW m \in Int, NEW n \in Int, 1 <= m, n <= Len(s)
  PROVE  SubSeq(s, m, n) \in Seq(Bytes) /\ Stretch(ls, SubSeq(s, m, n))
PROOF
<1>. DEFINE t == SubSeq(s, m, n)
<1>1. /\ t \in Seq(Bytes) /\ Len(t) = IF m <= n THEN n - m + 1 ELSE 0
      /\ \A i \in 1 .. Len(t) : t[i] = s[m + i - 1]
  <2>1. \A i \in m .. n : s[i] \in Bytes
    BY ElementOfSeq
  <2>. QED
    BY <2>1, SubSeqProperties
<1>2. DOMAIN t = 1 .. Len(t) /\ DOMAIN s = 1 .. Len(s) /\ Len(t) \in Nat /\ Len(s) \in Nat
  BY <1>1, LenProperties
<1>3. \A i \in DOMAIN t : m + i - 1 \in DOMAIN s /\ t[i] = s[m + i - 1]
  BY <1>1, <1>2
<1>. HIDE DEF t
<1>4. \A i \in DOMAIN t :
        t[i] # Newline => t[i][1] \in DOMAIN ls /\ t[i][2] \in 1 .. ls[t[i][1]]
  BY <1>3 DEF Stretch
<1>5. ASSUME NEW i \in DOMAIN t, NEW j \in DOMAIN t, i <= j, \A k \in i .. j : t[k] # Newline
      PROVE  t[j] = <<t[i][1], t[i][2] + (j - i)>>
  <2>. DEFINE a == m + i - 1
              b == m + j - 1
  <2>1. a \in DOMAIN s /\ b \in DOMAIN s /\ a <= b /\ b - a = j - i /\ t[i] = s[a] /\ t[j] = s[b]
    BY <1>2, <1>3, <1>5
  <2>2. \A k \in a .. b : s[k] # Newline
    <3>. SUFFICES ASSUME NEW k \in a .. b PROVE s[k] # Newline
      OBVIOUS
    <3>1. k - m + 1 \in i .. j /\ k - m + 1 \in DOMAIN t /\ m + (k - m + 1) - 1 = k
      BY <1>2
    <3>. QED
      BY <1>3, <1>5, <3>1
  <2>. QED
    BY <2>1, <2>2 DEF Stretch
<1>6. ASSUME NEW i \in DOMAIN t, i + 1 \in DOMAIN t, t[i] # Newline, t[i + 1] = Newline
      PROVE  t[i][2] = ls[t[i][1]]
  <2>1. /\ m + i - 1 \in DOMAIN s /\ (m + i - 1) + 1 \in DOMAIN s
        /\ t[i] = s[m + i - 1] /\ t[i + 1] = s[(m + i - 1) + 1]
    BY <1>2, <1>3, <1>6, SMTT(40)
  <2>. QED
    BY <1>6, <2>1 DEF Stretch
<1>7. ASSUME NEW i \in DOMAIN t, NEW k \in DOMAIN t, NEW j \in DOMAIN t, i < k, k < j,
             t[i] # Newline, t[k] = Newline, t[j] # Newline
      PROVE  t[i][1] < t[j][1]
  <2>1. /\ m + i - 1 \in DOMAIN s /\ m + k - 1 \in DOMAIN s /\ m + j - 1 \in DOMAIN s
        /\ m + i - 1 < m + k - 1 /\ m + k - 1 < m + j - 1
        /\ t[i] = s[m + i - 1] /\ t[k] = s[m + k - 1] /\ t[j] = s[m + j - 1]
    BY <1>2, <1>3, <1>7, SMTT(40)
  <2>. QED
    BY <1>7, <2>1 DEF Stretch
<1>8. Stretch(ls, t)
  BY <1>4, <1>5, <1>6, <1>7 DEF Stretch
<1>. QED
  BY <1>1, <1>8 DEF t

\* A stretch that has come to the end of a line goes on with the next line.
LEMMA StretchMore ==
  ASSUME NEW ls \in Seq(Nat), NEW s \in Seq(Bytes), Stretch(ls, s), AtLineEnd(ls, s),
         NEW n \in Nat
  PROVE  LET t == s \o Append(Line(Len(ls) + 1, n), Newline)
         IN  /\ t \in Seq(Bytes)
             /\ Stretch(Append(ls, n), t)
             /\ AtLineEnd(Append(ls, n), t)
PROOF
<1>. DEFINE k == Len(ls) + 1
            new == Append(Line(k, n), Newline)
            t == s \o new
            L == Len(s)
            more == Append(ls, n)
<1>1. /\ k \in Nat \ {0} /\ L \in Nat /\ DOMAIN s = 1 .. L
      /\ DOMAIN ls = 1 .. Len(ls) /\ DOMAIN more = 1 .. k
      /\ more[k] = n /\ \A i \in DOMAIN ls : more[i] = ls[i]
      /\ more # <<>> /\ more \in Seq(Nat)
  BY LenProperties, AppendProperties
<1>2. /\ Line(k, n) \in Seq(Bytes) /\ Len(Line(k, n)) = n
      /\ \A i \in 1 .. n : Line(k, n)[i] = <<k, i>>
  BY <1>1 DEF Line, Bytes
<1>3. /\ new \in Seq(Bytes) /\ Len(new) = n + 1
      /\ \A i \in 1 .. n : new[i] = <<k, i>>
      /\ new[n + 1] = Newline
  BY <1>2 DEF Newline, Bytes
<1>4. /\ t \in Seq(Bytes) /\ Len(t) = L + n + 1 /\ DOMAIN t = 1 .. L + n + 1
      /\ \A i \in 1 .. L : t[i] = s[i]
      /\ \A i \in L + 1 .. L + n : t[i] = <<k, i - L>>
      /\ t[L + n + 1] = Newline
  <2>. HIDE DEF new
  <2>1. /\ t \in Seq(Bytes) /\ Len(t) = L + n + 1 /\ DOMAIN t = 1 .. L + n + 1
        /\ \A i \in 1 .. L + n + 1 : t[i] = IF i <= L THEN s[i] ELSE new[i - L]
    <3>1. /\ s \o new \in Seq(Bytes) /\ Len(s \o new) = Len(s) + Len(new)
          /\ DOMAIN (s \o new) = 1 .. Len(s) + Len(new)
          /\ \A i \in 1 .. Len(s) + Len(new) :
               (s \o new)[i] = IF i <= Len(s) THEN s[i] ELSE new[i - Len(s)]
      BY <1>3, ConcatBytes, Zenon
    <3>2. Len(s) + Len(new) = L + n + 1
      BY <1>1, <1>3
    <3>. QED
      BY <3>1, <3>2, Zenon
  <2>2. \A i \in L + 1 .. L + n : i - L \in 1 .. n /\ t[i] = new[i - L]
    BY <1>1, <2>1
  <2>. QED
    BY <1>1, <1>3, <2>1, <2>2, SMTT(40)
<1>. HIDE DEF t, new, k, more, L
<1>a. DOMAIN t = 1 .. L + n + 1 /\ DOMAIN s = 1 .. L /\ L \in Nat
  BY <1>1, <1>4
<1>b. \A i \in DOMAIN t : i <= L => i \in DOMAIN s /\ t[i] = s[i]
  BY <1>4, <1>a
<1>c. \A i \in DOMAIN t : L < i /\ i <= L + n => t[i] = <<k, i - L>>
  BY <1>4, <1>a
<1>d. \A i \in DOMAIN t : L < i => (t[i] # Newline <=> i <= L + n)
  <2>1. \A i \in DOMAIN t : L < i /\ i <= L + n => t[i] # Newline
    BY <1>1, <1>a, <1>c DEF Newline
  <2>2. \A i \in DOMAIN t : L < i /\ ~(i <= L + n) => i = L + n + 1
    BY <1>a
  <2>. QED
    BY <1>4, <2>1, <2>2
<1>e. L # 0 => s[L] = Newline
  BY <1>a DEF AtLineEnd, L
<1>f. /\ \A i \in DOMAIN ls : more[i] = ls[i] /\ i \in DOMAIN more /\ i < k
      /\ k \in DOMAIN more /\ more[k] = n /\ k \in Nat
  BY <1>1 DEF k
<1>6. \A i \in DOMAIN t :
        t[i] # Newline => t[i][1] \in DOMAIN more /\ t[i][2] \in 1 .. more[t[i][1]]
  <2>. SUFFICES ASSUME NEW i \in DOMAIN t, t[i] # Newline
                PROVE  t[i][1] \in DOMAIN more /\ t[i][2] \in 1 .. more[t[i][1]]
    OBVIOUS
  <2>1. CASE i <= L
    BY <1>b, <1>f, <2>1 DEF Stretch
  <2>2. CASE L < i
    <3>1. t[i] = <<k, i - L>> /\ i - L \in 1 .. n
      BY <1>a, <1>c, <1>d, <2>2
    <3>. QED
      BY <1>f, <3>1
  <2>. QED
    BY <1>a, <2>1, <2>2
<1>7. ASSUME NEW i \in DOMAIN t, NEW j \in DOMAIN t, i <= j, \A m \in i .. j : t[m] # Newline
      PROVE  t[j] = <<t[i][1], t[i][2] + (j - i)>>
  <2>1. CASE j <= L
    <3>1. i \in DOMAIN s /\ j \in DOMAIN s /\ t[i] = s[i] /\ t[j] = s[j]
      BY <1>a, <1>b, <1>7, <2>1
    <3>2. \A m \in i .. j : s[m] # Newline
      BY <1>a, <1>b, <1>7, <2>1
    <3>. QED
      BY <1>7, <3>1, <3>2 DEF Stretch
  <2>2. CASE i <= L /\ L < j
    <3>1. L \in i .. j /\ L \in DOMAIN t /\ L # 0
      BY <1>a, <2>2
    <3>2. t[L] = Newline
      BY <1>a, <1>b, <1>e, <3>1
    <3>. QED
      BY <1>7, <3>1, <3>2
  <2>3. CASE L < i
    <3>1. t[i] # Newline /\ t[j] # Newline /\ L < j
      BY <1>a, <1>7, <2>3
    <3>2. t[i] = <<k, i - L>> /\ t[j] = <<k, j - L>>
      BY <1>c, <1>d, <2>3, <3>1
    <3>3. j - L = (i - L) + (j - i)
      BY <1>a
    <3>4. t[i][1] = k /\ t[i][2] = i - L
      BY <3>2
    <3>. QED
      BY <3>2, <3>3, <3>4
  <2>. QED
    BY <1>a, <2>1, <2>2, <2>3
<1>8. ASSUME NEW i \in DOMAIN t, i + 1 \in DOMAIN t, t[i] # Newline, t[i + 1] = Newline
      PROVE  t[i][2] = more[t[i][1]]
  <2>1. CASE i + 1 <= L
    <3>1. /\ i \in DOMAIN s /\ i + 1 \in DOMAIN s
          /\ t[i] = s[i] /\ t[i + 1] = s[i + 1]
      BY <1>a, <1>b, <1>8, <2>1
    <3>2. t[i][2] = ls[t[i][1]] /\ t[i][1] \in DOMAIN ls
      BY <1>8, <3>1 DEF Stretch
    <3>. QED
      BY <1>f, <3>2
  <2>2. CASE i = L
    BY <1>a, <1>b, <1>e, <1>8, <2>2
  <2>3. CASE L < i
    <3>1. i <= L + n /\ ~(i + 1 <= L + n) /\ t[i] = <<k, i - L>>
      BY <1>a, <1>c, <1>d, <1>8, <2>3
    <3>2. i - L = n
      BY <1>a, <3>1
    <3>. QED
      BY <1>f, <3>1, <3>2
  <2>. QED
    BY <1>a, <2>1, <2>2, <2>3
<1>9. ASSUME NEW i \in DOMAIN t, NEW m \in DOMAIN t, NEW j \in DOMAIN t, i < m, m < j,
             t[i] # Newline, t[m] = Newline, t[j] # Newline
      PROVE  t[i][1] < t[j][1]
  <2>1. CASE j <= L
    <3>1. /\ i \in DOMAIN s /\ m \in DOMAIN s /\ j \in DOMAIN s
          /\ t[i] = s[i] /\ t[m] = s[m] /\ t[j] = s[j]
      BY <1>a, <1>b, <1>9, <2>1
    <3>. QED
      BY <1>9, <3>1 DEF Stretch
  <2>2. CASE L < j
    <3>1. j <= L + n /\ t[j] = <<k, j - L>>
      BY <1>c, <1>d, <1>9, <2>2
    <3>2. m <= L
      <4>1. L < m => ~(m <= L + n)
        BY <1>d, <1>9
      <4>. QED
        BY <1>a, <1>9, <3>1, <4>1
    <3>3. i \in DOMAIN s /\ t[i] = s[i]
      BY <1>a, <1>b, <1>9, <3>2
    <3>4. t[i][1] \in DOMAIN ls
      BY <1>9, <3>3 DEF Stretch
    <3>. QED
      BY <1>f, <3>1, <3>4
  <2>. QED
    BY <1>a, <2>1, <2>2
<1>10. Stretch(more, t)
  BY <1>6, <1>7, <1>8, <1>9 DEF Stretch
<1>11. AtLineEnd(more, t)
  BY <1>1, <1>4 DEF AtLineEnd
<1>. QED
  BY <1>4, <1>10, <1>11 DEF t, new, k, more, L

\* What is left of a stretch when its beginning is cut off.
LEMMA StretchRest ==
  ASSUME NEW ls \in Seq(Nat), NEW s \in Seq(Bytes), Stretch(ls, s), AtLineEnd(ls, s),
         NEW d \in 0 .. Len(s)
  PROVE  LET t == SubSeq(s, d + 1, Len(s))
         IN  /\ t \in Seq(Bytes) /\ Stretch(ls, t) /\ AtLineEnd(ls, t)
             /\ \A i \in DOMAIN t : d + i \in DOMAIN s /\ t[i] = s[d + i]
PROOF
<1>. DEFINE t == SubSeq(s, d + 1, Len(s))
<1>1. /\ Len(s) \in Nat /\ DOMAIN s = 1 .. Len(s)
      /\ d \in Nat /\ d <= Len(s)
  BY LenProperties
<1>2. t \in Seq(Bytes) /\ Stretch(ls, t)
  BY <1>1, StretchCut
<1>3. \A i \in (d + 1) .. Len(s) : s[i] \in Bytes
  BY ElementOfSeq
<1>4. /\ Len(t) = Len(s) - d /\ DOMAIN t = 1 .. Len(s) - d
      /\ \A i \in 1 .. Len(s) - d : t[i] = s[d + i]
  <2>1. /\ Len(t) = IF d + 1 <= Len(s) THEN Len(s) - (d + 1) + 1 ELSE 0
        /\ \A i \in 1 .. Len(s) - (d + 1) + 1 : t[i] = s[(d + 1) + i - 1]
    BY <1>1, <1>3, SubSeqProperties
  <2>. HIDE DEF t
  <2>2. Len(t) = Len(s) - d /\ Len(s) - (d + 1) + 1 = Len(s) - d
    <3>. DEFINE n == Len(s)
                k == Len(t)
    <3>1. n \in Nat /\ d \in Nat /\ d <= n /\ k = IF d + 1 <= n THEN n - (d + 1) + 1 ELSE 0
      BY <1>1, <2>1
    <3>. HIDE DEF n, k
    <3>2. k = n - d /\ n - (d + 1) + 1 = n - d
      BY <3>1
    <3>. QED
      BY <3>2 DEF n, k
  <2>3. \A i \in 1 .. Len(s) - d : (d + 1) + i - 1 = d + i
    BY <1>1
  <2>. QED
    BY <1>2, <2>1, <2>2, <2>3, LenProperties
<1>. HIDE DEF t
<1>5. \A i \in DOMAIN t : d + i \in DOMAIN s /\ t[i] = s[d + i]
  BY <1>1, <1>4, SMTT(40)
<1>6. AtLineEnd(ls, t)
  <2>. SUFFICES ASSUME t # <<>> PROVE t[Len(t)] = Newline /\ ls # <<>>
    BY DEF AtLineEnd
  <2>1. Len(t) # 0 /\ Len(t) \in Nat /\ Len(t) \in DOMAIN t
    BY <1>2, EmptySeq, LenProperties
  <2>2. d + Len(t) = Len(s) /\ Len(s) # 0
    <3>. DEFINE n == Len(s)
                k == Len(t)
    <3>1. n \in Nat /\ d \in Nat /\ k \in Nat /\ k # 0 /\ k = n - d
      BY <1>1, <1>4, <2>1
    <3>. HIDE DEF n, k
    <3>2. d + k = n /\ n # 0
      BY <3>1
    <3>. QED
      BY <3>2 DEF n, k
  <2>3. t[Len(t)] = s[Len(s)] /\ s # <<>>
    BY <1>5, <2>1, <2>2
  <2>. QED
    BY <2>3 DEF AtLineEnd
<1>. QED
  BY <1>2, <1>5, <1>6 DEF t

\* The two parts of a concatenation.
LEMMA ConcatParts ==
  ASSUME NEW a \in Seq(Bytes), NEW b \in Seq(Bytes)
  PROVE  /\ a \o b \in Seq(Bytes) /\ Len(a) \in 0 .. Len(a \o b)
         /\ a = SubSeq(a \o b, 1, Len(a))
         /\ b = SubSeq(a \o b, Len(a) + 1, Len(a \o b))
PROOF
<1>. DEFINE c == a \o b
<1>1. /\ Len(a) \in Nat /\ Len(b) \in Nat /\ c \in Seq(Bytes) /\ Len(c) = Len(a) + Len(b)
      /\ DOMAIN c = 1 .. Len(a) + Len(b)
      /\ \A i \in 1 .. Len(a) + Len(b) : c[i] = IF i <= Len(a) THEN a[i] ELSE b[i - Len(a)]
  BY ConcatBytes, LenProperties DEF c
<1>. HIDE DEF c
<1>2. \A i \in DOMAIN c : c[i] \in Bytes
  BY <1>1, LenProperties
<1>3. a = SubSeq(c, 1, Len(a))
  <2>1. /\ SubSeq(c, 1, Len(a)) \in Seq(Bytes) /\ Len(SubSeq(c, 1, Len(a))) = Len(a)
        /\ \A i \in 1 .. Len(a) : SubSeq(c, 1, Len(a))[i] = c[i]
    BY <1>1, <1>2, SubSeqProperties
  <2>2. \A i \in 1 .. Len(a) : SubSeq(c, 1, Len(a))[i] = a[i]
    BY <1>1, <2>1
  <2>. QED
    BY <2>1, <2>2, SeqEqual
<1>4. b = SubSeq(c, Len(a) + 1, Len(c))
  <2>. DEFINE t == SubSeq(c, Len(a) + 1, Len(c))
  <2>1. /\ t \in Seq(Bytes) /\ Len(t) = Len(b)
        /\ \A i \in 1 .. Len(b) : t[i] = c[Len(a) + i]
    BY <1>1, <1>2, SubSeqProperties
  <2>. HIDE DEF t
  <2>2. \A i \in 1 .. Len(b) : t[i] = b[i]
    <3>. SUFFICES ASSUME NEW i \in 1 .. Len(b) PROVE c[Len(a) + i] = b[i]
      BY <2>1
    <3>1. Len(a) + i \in 1 .. Len(a) + Len(b) /\ ~(Len(a) + i <= Len(a)) /\ (Len(a) + i) - Len(a) = i
      BY <1>1
    <3>. QED
      BY <1>1, <3>1
  <2>. QED
    BY <2>1, <2>2, SeqEqual DEF t
<1>. QED
  BY <1>1, <1>3, <1>4 DEF c

\* A sequence cut in two.
LEMMA CutAndJoin ==
  ASSUME NEW s \in Seq(Bytes), NEW n \in 0 .. Len(s)
  PROVE  LET a == SubSeq(s, 1, n)
             b == SubSeq(s, n + 1, Len(s))
         IN  /\ a \in Seq(Bytes) /\ b \in Seq(Bytes) /\ a \o b = s
             /\ Len(a) = n /\ \A i \in 1 .. n : a[i] = s[i]
             /\ Len(b) <= Len(s)
PROOF
<1>. DEFINE a == SubSeq(s, 1, n)
            b == SubSeq(s, n + 1, Len(s))
            L == Len(s)
<1>1. /\ L \in Nat /\ n \in Nat /\ n <= L /\ DOMAIN s = 1 .. L
      /\ \A i \in 1 .. L : s[i] \in Bytes
  BY LenProperties, ElementOfSeq
<1>2. /\ a \in Seq(Bytes) /\ Len(a) = IF 1 <= n THEN n - 1 + 1 ELSE 0
      /\ \A i \in 1 .. n - 1 + 1 : a[i] = s[1 + i - 1]
  <2>1. \A i \in 1 .. n : s[i] \in Bytes
    BY <1>1
  <2>. QED
    BY <1>1, <2>1, SubSeqProperties
<1>3. /\ b \in Seq(Bytes) /\ Len(b) = IF n + 1 <= L THEN L - (n + 1) + 1 ELSE 0
      /\ \A i \in 1 .. L - (n + 1) + 1 : b[i] = s[(n + 1) + i - 1]
  <2>1. \A i \in n + 1 .. L : s[i] \in Bytes
    BY <1>1
  <2>. QED
    BY <1>1, <2>1, SubSeqProperties
<1>. HIDE DEF a, b, L
<1>4. Len(a) = n /\ Len(b) = L - n /\ n - 1 + 1 = n /\ L - (n + 1) + 1 = L - n
  BY <1>1, <1>2, <1>3
<1>5. \A i \in 1 .. n : a[i] = s[i]
  BY <1>1, <1>2, <1>4
<1>6. \A i \in 1 .. L - n : b[i] = s[n + i]
  <2>1. \A i \in 1 .. L - n : (n + 1) + i - 1 = n + i
    BY <1>1
  <2>. QED
    BY <1>3, <1>4, <2>1
<1>7. a \o b = s
  <2>. DEFINE c == a \o b
  <2>1. /\ c \in Seq(Bytes) /\ Len(c) = n + (L - n)
        /\ \A i \in 1 .. n + (L - n) : c[i] = IF i <= n THEN a[i] ELSE b[i - n]
    <3>1. /\ c \in Seq(Bytes) /\ Len(c) = Len(a) + Len(b)
          /\ \A i \in 1 .. Len(a) + Len(b) : c[i] = IF i <= Len(a) THEN a[i] ELSE b[i - Len(a)]
      BY <1>2, <1>3, ConcatProperties
    <3>. HIDE DEF c
    <3>. QED
      BY <1>4, <3>1
  <2>. HIDE DEF c
  <2>2. Len(c) = L
    BY <1>1, <2>1
  <2>3. \A i \in 1 .. L : c[i] = s[i]
    <3>. SUFFICES ASSUME NEW i \in 1 .. L PROVE c[i] = s[i]
      OBVIOUS
    <3>1. i \in 1 .. n + (L - n)
      BY <1>1
    <3>2. CASE i <= n
      BY <1>1, <1>5, <2>1, <3>1, <3>2
    <3>3. CASE ~(i <= n)
      <4>1. i - n \in 1 .. L - n /\ n + (i - n) = i
        BY <1>1, <3>3
      <4>. QED
        BY <1>6, <2>1, <3>1, <3>3, <4>1
    <3>. QED
      BY <3>2, <3>3
  <2>. QED
    BY <2>1, <2>2, <2>3, SeqEqual DEF c, L
<1>8. Len(b) <= L
  BY <1>1, <1>4
<1>. QED
  BY <1>2, <1>3, <1>4, <1>5, <1>7, <1>8 DEF a, b, L

-----------------------------------------------------------------------------
\* What the callback has not queued yet.
Stream == cache_buffer \o (read_buffer \o pipe)

\* Where the newlines are in the callback's buffers.
BuffersInv ==
  /\ pc = "poll" => read_buffer = <<>>
  /\ Len(cache_buffer) <= BufferSize
  /\ \A i \in DOMAIN cache_buffer :
       cache_buffer[i] = Newline <=> pc = "joined" /\ i = Len(cache_buffer)
  /\ pc = "joined" => cache_buffer # <<>>
  /\ pc # "joined" => Len(cache_buffer) < BufferSize

\* A line was written, and everything that is not queued comes after it.
Before(q) ==
  q # <<>> =>
    /\ q[1][1] \in DOMAIN lengths
    /\ \A i \in DOMAIN Stream : Stream[i] # Newline => q[1][1] < Stream[i][1]

QueuedInv ==
  /\ \A i \in DOMAIN queued : Before(queued[i])
  /\ NoMixedLines
  /\ InOrder

StreamInv == Stretch(lengths, Stream) /\ AtLineEnd(lengths, Stream)

ReaderInv == TypeOK /\ BuffersInv /\ StreamInv /\ QueuedInv

\* The types of what the lemmas about sequences speak of.
LEMMA Sequences ==
  ASSUME TypeOK
  PROVE  /\ lengths \in Seq(Nat)
         /\ pipe \in Seq(Bytes) /\ read_buffer \in Seq(Bytes) /\ cache_buffer \in Seq(Bytes)
         /\ read_buffer \o pipe \in Seq(Bytes) /\ Stream \in Seq(Bytes)
         /\ BufferSize \in Nat /\ 2 <= BufferSize
PROOF
<1>1. lengths \in Seq(Nat)
  BY ReaderAssumption, SeqMonotonic DEF TypeOK
<1>2. pipe \in Seq(Bytes) /\ read_buffer \in Seq(Bytes) /\ cache_buffer \in Seq(Bytes)
  BY DEF TypeOK, Bytes
<1>. QED
  BY <1>1, <1>2, ReaderAssumption DEF Stream

\* A step that takes from the stream at its beginning at most.
LEMMA TakingKeepsStream ==
  ASSUME TypeOK, StreamInv, QueuedInv, NEW d \in 0 .. Len(Stream),
         Stream' = SubSeq(Stream, d + 1, Len(Stream)), lengths' = lengths
  PROVE  /\ StreamInv'
         /\ queued' = queued => QueuedInv'
PROOF
<1>1. /\ StreamInv'
      /\ \A i \in DOMAIN Stream' : d + i \in DOMAIN Stream /\ Stream'[i] = Stream[d + i]
  BY Sequences, StretchRest DEF StreamInv
<1>2. ASSUME queued' = queued
      PROVE  QueuedInv'
  <2>1. NoMixedLines' /\ InOrder'
    BY <1>2 DEF QueuedInv, NoMixedLines, InOrder, Body, Line
  <2>2. \A i \in DOMAIN queued : Before(queued[i])'
    BY <1>1, <1>2 DEF QueuedInv, Before
  <2>. QED
    BY <1>2, <2>1, <2>2 DEF QueuedInv
<1>. QED
  BY <1>1, <1>2

\* A step that moves bytes along the stream.
LEMMA MovingKeepsStream ==
  ASSUME TypeOK, StreamInv, QueuedInv, Stream' = Stream, lengths' = lengths,
         queued' = queued
  PROVE  StreamInv' /\ QueuedInv'
PROOF
  BY DEF StreamInv, QueuedInv, Before, NoMixedLines, InOrder, Body, Line

\* The daemon starts with empty buffers.
LEMMA InitReader == Init => ReaderInv
PROOF
<1>. SUFFICES ASSUME Init PROVE ReaderInv
  OBVIOUS
<1>1. /\ <<>> \in Seq(Bytes) /\ <<>> \in Seq(Lengths) /\ <<>> \in Seq(Seq(Bytes))
      /\ Len(<<>>) = 0 /\ <<>> \o <<>> = <<>> /\ DOMAIN <<>> = {}
  OBVIOUS
<1>2. TypeOK
  BY <1>1, ReaderAssumption DEF Init, TypeOK, Bytes
<1>3. Stream = <<>>
  BY <1>1 DEF Init, Stream
<1>4. BuffersInv
  BY <1>1, ReaderAssumption DEF Init, BuffersInv
<1>5. StreamInv
  BY <1>1, <1>3 DEF StreamInv, Stretch, AtLineEnd
<1>6. QueuedInv
  BY <1>1 DEF Init, QueuedInv, NoMixedLines, InOrder, Range
<1>. QED
  BY <1>2, <1>4, <1>5, <1>6 DEF ReaderInv

\* How much a read takes.
LEMMA ReadSizes ==
  ASSUME TypeOK
  PROVE  /\ ReadSize \in 0 .. Len(pipe) /\ ReadSize < BufferSize
         /\ ReadSize = Len(pipe) \/ ReadSize = BufferSize - 1
PROOF
<1>1. Len(pipe) \in Nat /\ BufferSize \in Nat /\ 2 <= BufferSize
  BY Sequences, LenProperties
<1>. QED
  BY <1>1 DEF ReadSize

\* The bytes of a read stay in the stream.
LEMMA ReadStream ==
  ASSUME TypeOK, BuffersInv, Read
  PROVE  Stream' = Stream
PROOF
<1>1. ReadSize \in 0 .. Len(pipe) /\ pipe \in Seq(Bytes) /\ read_buffer = <<>>
  BY Sequences, ReadSizes DEF BuffersInv, Read
<1>2. read_buffer' \o pipe' = pipe
  BY <1>1, CutAndJoin DEF Read
<1>. QED
  BY <1>1, <1>2, ConcatEmptySeq DEF Stream, Read

\* A read puts the beginning of the pipe into read_buffer.
LEMMA ReadKeepsReader == ASSUME ReaderInv, Read PROVE ReaderInv'
PROOF
<1>. USE DEF ReaderInv
<1>1. /\ ReadSize \in 0 .. Len(pipe) /\ ReadSize < BufferSize
      /\ pipe \in Seq(Bytes) /\ read_buffer = <<>> /\ BufferSize \in Nat
  BY Sequences, ReadSizes DEF BuffersInv, Read
<1>2. /\ read_buffer' \in Seq(Bytes) /\ pipe' \in Seq(Bytes)
      /\ Len(read_buffer') = ReadSize /\ Len(pipe') <= Len(pipe)
  BY <1>1, CutAndJoin DEF Read
<1>3. Stream' = Stream
  BY ReadStream
<1>4. TypeOK'
  <2>1. Len(pipe') \in Nat /\ Len(pipe) \in Nat /\ Len(pipe') <= PipeCapacity
    BY <1>1, <1>2, LenProperties, ReaderAssumption DEF TypeOK
  <2>. QED
    BY <1>1, <1>2, <2>1 DEF TypeOK, Read, Bytes
<1>5. BuffersInv'
  BY DEF BuffersInv, Read
<1>. QED
  BY <1>3, <1>4, <1>5, MovingKeepsStream DEF Read

\* The bytes of the k-th line, with its newline.
Written(k, n) == Append(Line(k, n), Newline)

\* A line appears at the end of the stream.
LEMMA WrittenStream ==
  ASSUME TypeOK, NEW n \in Lengths, WriteLine(n)
  PROVE  /\ Stream' = Stream \o Written(Len(lengths) + 1, n)
         /\ Len(Stream') = Len(Stream) + (n + 1)
         /\ DOMAIN Stream' = 1 .. Len(Stream) + (n + 1)
         /\ \A i \in 1 .. Len(Stream) : Stream'[i] = Stream[i]
         /\ \A i \in 1 .. n : Stream'[Len(Stream) + i] = <<Len(lengths) + 1, i>>
         /\ Stream'[Len(Stream) + (n + 1)] = Newline
PROOF
<1>. DEFINE new == Written(Len(lengths) + 1, n)
            L == Len(Stream)
<1>1. /\ n \in Nat /\ Len(lengths) \in Nat
      /\ pipe \in Seq(Bytes) /\ read_buffer \in Seq(Bytes) /\ cache_buffer \in Seq(Bytes)
      /\ Stream \in Seq(Bytes) /\ L \in Nat
  BY Sequences, LenProperties, ReaderAssumption
<1>2. /\ new \in Seq(Bytes) /\ Len(new) = n + 1
      /\ \A i \in 1 .. n : new[i] = <<Len(lengths) + 1, i>>
      /\ new[n + 1] = Newline
  <2>1. /\ Line(Len(lengths) + 1, n) \in Seq(Bytes) /\ Len(Line(Len(lengths) + 1, n)) = n
        /\ \A i \in 1 .. n : Line(Len(lengths) + 1, n)[i] = <<Len(lengths) + 1, i>>
    BY <1>1 DEF Line, Bytes
  <2>. QED
    BY <2>1, AppendProperties DEF Written, Newline, Bytes
<1>3. pipe' = pipe \o new /\ UNCHANGED <<read_buffer, cache_buffer>>
  BY DEF WriteLine, Written
<1>. HIDE DEF new
<1>4. Stream' = Stream \o new
  <2>1. read_buffer \o pipe \in Seq(Bytes)
    BY <1>1, ConcatBytes, Zenon
  <2>2. (cache_buffer \o (read_buffer \o pipe)) \o new
          = cache_buffer \o ((read_buffer \o pipe) \o new)
    BY <1>1, <1>2, <2>1, SMTT(40)
  <2>3. (read_buffer \o pipe) \o new = read_buffer \o (pipe \o new)
    BY <1>1, <1>2, SMTT(40)
  <2>. QED
    BY <1>3, <2>2, <2>3, Zenon DEF Stream
<1>5. /\ Len(Stream') = L + (n + 1) /\ DOMAIN Stream' = 1 .. L + (n + 1)
      /\ \A i \in 1 .. L + (n + 1) : Stream'[i] = IF i <= L THEN Stream[i] ELSE new[i - L]
  <2>1. /\ Len(Stream \o new) = L + Len(new) /\ DOMAIN (Stream \o new) = 1 .. L + Len(new)
        /\ \A i \in 1 .. L + Len(new) :
             (Stream \o new)[i] = IF i <= L THEN Stream[i] ELSE new[i - L]
    BY <1>1, <1>2, ConcatBytes
  <2>. HIDE DEF L
  <2>. QED
    BY <1>2, <1>4, <2>1
<1>6. /\ \A i \in 1 .. L : i \in 1 .. L + (n + 1) /\ i <= L
      /\ \A i \in 1 .. n + 1 : L + i \in 1 .. L + (n + 1) /\ ~(L + i <= L) /\ (L + i) - L = i
      /\ n + 1 \in 1 .. n + 1 /\ \A i \in 1 .. n : i \in 1 .. n + 1
  <2>. HIDE DEF L
  <2>. QED
    BY <1>1
<1>7. \A i \in 1 .. n + 1 : Stream'[L + i] = new[i]
  BY <1>5, <1>6
<1>8. \A i \in 1 .. L : Stream'[i] = Stream[i]
  BY <1>5, <1>6
<1>. HIDE DEF L
<1>. QED
  BY <1>2, <1>4, <1>5, <1>6, <1>7, <1>8 DEF L, new

\* A writer adds the next line at the end of the stream.
LEMMA WriteKeepsReader ==
  ASSUME ReaderInv, NEW n \in Lengths, WriteLine(n)
  PROVE  ReaderInv'
PROOF
<1>. USE DEF ReaderInv
<1>. DEFINE new == Written(Len(lengths) + 1, n)
<1>0. /\ n \in Nat /\ lengths \in Seq(Nat) /\ Len(lengths) \in Nat
      /\ DOMAIN lengths = 1 .. Len(lengths)
  BY Sequences, LenProperties, ReaderAssumption
<1>s. /\ pipe \in Seq(Bytes) /\ read_buffer \in Seq(Bytes) /\ cache_buffer \in Seq(Bytes)
      /\ read_buffer \o pipe \in Seq(Bytes) /\ Stream \in Seq(Bytes)
      /\ Len(pipe) \in Nat /\ Len(Stream) \in Nat /\ DOMAIN Stream = 1 .. Len(Stream)
  BY Sequences, LenProperties
<1>1. new \in Seq(Bytes) /\ Len(new) = n + 1
  <2>1. Line(Len(lengths) + 1, n) \in Seq(Bytes) /\ Len(Line(Len(lengths) + 1, n)) = n
    BY <1>0 DEF Line, Bytes
  <2>. QED
    BY <2>1, AppendProperties DEF Written, Newline, Bytes
<1>2. /\ lengths' = Append(lengths, n) /\ pipe' = pipe \o new
      /\ UNCHANGED <<read_buffer, cache_buffer, pc, queued, drops>>
  BY DEF WriteLine, Written
<1>. HIDE DEF new
<1>3. Stream' = Stream \o new
  BY <1>0, WrittenStream DEF new
<1>4. StreamInv'
  <2>1. Stream \in Seq(Bytes) /\ Stretch(lengths, Stream) /\ AtLineEnd(lengths, Stream)
    BY <1>s DEF StreamInv
  <2>. QED
    BY <1>0, <1>2, <1>3, <2>1, StretchMore DEF StreamInv, new, Written
<1>5. /\ DOMAIN lengths' = 1 .. Len(lengths) + 1
      /\ \A k \in DOMAIN lengths : k \in DOMAIN lengths' /\ lengths'[k] = lengths[k]
  <2>1. /\ lengths' \in Seq(Nat) /\ Len(lengths') = Len(lengths) + 1
        /\ \A k \in 1 .. Len(lengths) : lengths'[k] = lengths[k]
    BY <1>0, <1>2, AppendProperties
  <2>. QED
    BY <1>0, <2>1, LenProperties
<1>6. TypeOK'
  <2>1. lengths' \in Seq(Lengths) /\ Len(lengths') <= MaxLines
    BY <1>0, <1>2, AppendProperties, ReaderAssumption DEF TypeOK, WriteLine
  <2>2. pipe' \in Seq(Bytes) /\ Len(pipe') <= PipeCapacity
    <3>1. pipe \o new \in Seq(Bytes) /\ Len(pipe \o new) = Len(pipe) + Len(new)
      BY <1>1, <1>s, ConcatProperties
    <3>2. Len(pipe) + n + 1 <= PipeCapacity
      BY DEF WriteLine
    <3>3. Len(pipe) + (n + 1) = Len(pipe) + n + 1
      BY <1>0, <1>s
    <3>. QED
      BY <1>1, <1>2, <3>1, <3>2, <3>3
  <2>. QED
    BY <1>2, <2>1, <2>2 DEF TypeOK, Bytes
<1>7. BuffersInv'
  BY <1>2 DEF BuffersInv
<1>8. QueuedInv'
  <2>1. NoMixedLines'
    <3>. SUFFICES ASSUME NEW q \in Range(queued)
                  PROVE  \E k \in DOMAIN lengths' : IsSuffix(q, Line(k, lengths'[k]))
      BY <1>2 DEF NoMixedLines, Body
    <3>1. PICK k \in DOMAIN lengths : IsSuffix(q, Line(k, lengths[k]))
      BY DEF QueuedInv, NoMixedLines, Body
    <3>. QED
      BY <1>5, <3>1
  <2>2. InOrder'
    BY <1>2 DEF QueuedInv, InOrder
  <2>3. ASSUME NEW q \in DOMAIN queued, queued[q] # <<>>
        PROVE  /\ queued[q][1][1] \in DOMAIN lengths'
               /\ \A i \in DOMAIN Stream' :
                    Stream'[i] # Newline => queued[q][1][1] < Stream'[i][1]
    <3>. DEFINE h == queued[q][1][1]
    <3>1. /\ h \in DOMAIN lengths
          /\ \A i \in DOMAIN Stream : Stream[i] # Newline => h < Stream[i][1]
      BY <2>3 DEF QueuedInv, Before
    <3>. HIDE DEF h
    <3>2. h \in DOMAIN lengths' /\ h < Len(lengths) + 1
      BY <1>0, <1>5, <3>1
    <3>3. ASSUME NEW i \in DOMAIN Stream', Stream'[i] # Newline
          PROVE  h < Stream'[i][1]
      <4>. DEFINE L == Len(Stream)
      <4>1. /\ L \in Nat /\ DOMAIN Stream = 1 .. L /\ i \in 1 .. L + (n + 1)
        BY <1>s, <3>3, WrittenStream
      <4>2. CASE i <= L
        <5>1. i \in 1 .. L /\ Stream'[i] = Stream[i]
          <6>1. i \in 1 .. L
            BY <4>1, <4>2
          <6>. QED
            BY <6>1, WrittenStream
        <5>. QED
          BY <3>1, <3>3, <4>1, <5>1
      <4>3. CASE ~(i <= L)
        <5>1. i - L \in 1 .. n \/ i = L + (n + 1)
          <6>. HIDE DEF L
          <6>1. i \in Nat /\ L < i /\ i <= L + (n + 1)
            BY <1>0, <4>1, <4>3
          <6>2. i - L \in Nat /\ 1 <= i - L /\ (i - L <= n \/ i = L + (n + 1))
            BY <1>0, <4>1, <6>1
          <6>. QED
            BY <1>0, <6>2
        <5>2. L + (i - L) = i
          <6>. HIDE DEF L
          <6>. QED
            BY <4>1
        <5>3. Stream'[i] = <<Len(lengths) + 1, i - L>>
          BY <3>3, <5>1, <5>2, WrittenStream
        <5>. QED
          BY <3>2, <5>3
      <4>. QED
        BY <4>2, <4>3
    <3>. QED
      BY <3>2, <3>3 DEF h
  <2>. QED
    BY <1>2, <2>1, <2>2, <2>3 DEF QueuedInv, Before
<1>. QED
  BY <1>4, <1>6, <1>7, <1>8

\* The stream when the buffers are emptied, or the rest that was read takes the
\* place of the cache.
LEMMA DroppedStream ==
  ASSUME TypeOK, read_buffer' = <<>>, cache_buffer' \in {<<>>, read_buffer}, pipe' = pipe
  PROVE  \E d \in 0 .. Len(Stream) : Stream' = SubSeq(Stream, d + 1, Len(Stream))
PROOF
<1>. DEFINE both == read_buffer \o pipe
<1>1. /\ pipe \in Seq(Bytes) /\ read_buffer \in Seq(Bytes) /\ cache_buffer \in Seq(Bytes)
      /\ read_buffer \o pipe \in Seq(Bytes)
  BY Sequences
<1>2. /\ Len(cache_buffer) \in 0 .. Len(Stream)
      /\ both = SubSeq(Stream, Len(cache_buffer) + 1, Len(Stream))
  BY <1>1, ConcatParts DEF Stream
<1>3. CASE cache_buffer' = read_buffer
  <2>1. read_buffer' \o pipe' = pipe
    BY <1>1, ConcatEmptySeq
  <2>2. Stream' = both
    BY <1>3, <2>1 DEF Stream
  <2>. QED
    BY <1>2, <2>2
<1>4. CASE cache_buffer' = <<>>
  <2>1. read_buffer' \o pipe' = pipe /\ <<>> \o pipe = pipe
    BY <1>1, ConcatEmptySeq
  <2>2. Stream' = pipe
    BY <1>4, <2>1 DEF Stream
  <2>3. /\ cache_buffer \o read_buffer \in Seq(Bytes)
        /\ Stream = (cache_buffer \o read_buffer) \o pipe
    BY <1>1 DEF Stream
  <2>4. /\ Len(cache_buffer \o read_buffer) \in 0 .. Len(Stream)
        /\ pipe = SubSeq(Stream, Len(cache_buffer \o read_buffer) + 1, Len(Stream))
    BY <1>1, <2>3, ConcatParts
  <2>. QED
    BY <2>2, <2>4
<1>. QED
  BY <1>3, <1>4

\* Giving up and overwriting the cache take from the beginning of the stream:
\* what is left is what is left of read_buffer, and the pipe.
LEMMA DroppingKeepsReader ==
  ASSUME ReaderInv, UNCHANGED <<lengths, pipe, queued>>, read_buffer' = <<>>,
         cache_buffer' \in {<<>>, read_buffer}, pc' # "joined", drops' \in Nat,
         pc' \in {"poll", "parse"},
         cache_buffer' = read_buffer => \A i \in DOMAIN read_buffer : read_buffer[i] # Newline
  PROVE  ReaderInv'
PROOF
<1>. USE DEF ReaderInv
<1>1. /\ pipe \in Seq(Bytes) /\ read_buffer \in Seq(Bytes) /\ cache_buffer \in Seq(Bytes)
      /\ read_buffer \o pipe \in Seq(Bytes) /\ Stream \in Seq(Bytes)
      /\ BufferSize \in Nat /\ 2 <= BufferSize
      /\ <<>> \in Seq(Bytes) /\ Len(<<>>) = 0 /\ DOMAIN <<>> = {}
  BY Sequences
<1>2. TypeOK'
  <2>1. cache_buffer' \in Seq(Bytes) /\ read_buffer' \in Seq(Bytes) /\ Len(read_buffer') = 0
    BY <1>1
  <2>. QED
    BY <1>1, <2>1 DEF TypeOK, Bytes
<1>3. BuffersInv'
  <2>1. Len(cache_buffer') < BufferSize
    BY <1>1 DEF TypeOK
  <2>2. Len(cache_buffer') <= BufferSize
    BY <1>1, <2>1, LenProperties
  <2>. QED
    BY <1>1, <2>1, <2>2 DEF BuffersInv
<1>4. \E d \in 0 .. Len(Stream) : Stream' = SubSeq(Stream, d + 1, Len(Stream))
  BY DroppedStream
<1>. QED
  BY <1>2, <1>3, <1>4, TakingKeepsStream

\* The bytes of a line move into the cache.
LEMMA JoinedStream ==
  ASSUME TypeOK, NEW p \in Newlines, pipe' = pipe,
         cache_buffer' = Joined(p), read_buffer' = Rest(p)
  PROVE  Stream' = Stream
PROOF
<1>. DEFINE first == SubSeq(read_buffer, 1, p)
            rest == SubSeq(read_buffer, p + 1, Len(read_buffer))
<1>1. /\ pipe \in Seq(Bytes) /\ read_buffer \in Seq(Bytes) /\ cache_buffer \in Seq(Bytes)
      /\ p \in 0 .. Len(read_buffer)
  <2>1. p \in DOMAIN read_buffer
    BY DEF Newlines
  <2>. QED
    BY <2>1, Sequences, LenProperties
<1>2. first \in Seq(Bytes) /\ rest \in Seq(Bytes)
  BY <1>1, CutAndJoin
<1>5. first \o rest = read_buffer
  BY <1>1, CutAndJoin
<1>3. cache_buffer' = cache_buffer \o first /\ read_buffer' = rest
  BY DEF Joined, Rest
<1>. HIDE DEF first, rest
<1>4. (cache_buffer \o first) \o (rest \o pipe) = cache_buffer \o ((first \o rest) \o pipe)
  <2>1. first \o rest \in Seq(Bytes) /\ rest \o pipe \in Seq(Bytes)
    BY <1>1, <1>2, ConcatBytes, Zenon
  <2>2. (cache_buffer \o first) \o (rest \o pipe) = cache_buffer \o (first \o (rest \o pipe))
    BY <1>1, <1>2, <2>1, SMTT(40)
  <2>3. (first \o rest) \o pipe = first \o (rest \o pipe)
    BY <1>1, <1>2, SMTT(40)
  <2>. QED
    BY <2>2, <2>3, Zenon
<1>. QED
  BY <1>5, <1>3, <1>4, Zenon DEF Stream

\* A line is put together, or the callback gives up.
LEMMA JoinKeepsReader == ASSUME ReaderInv, JoinLine PROVE ReaderInv'
PROOF
<1>. USE DEF ReaderInv
<1>1. PICK p \in Newlines :
        /\ Found(p)
        /\ \/ /\ Accepted(p)
              /\ cache_buffer' = Joined(p)
              /\ read_buffer' = Rest(p)
              /\ pc' = "joined"
              /\ UNCHANGED drops
           \/ ~Accepted(p) /\ GiveUp
  BY DEF JoinLine
<1>2. pc = "parse" /\ UNCHANGED <<lengths, pipe, queued>>
  BY DEF JoinLine
<1>3. CASE GiveUp
  BY <1>2, <1>3, DroppingKeepsReader DEF GiveUp, TypeOK
<1>4. CASE /\ Accepted(p)
           /\ cache_buffer' = Joined(p)
           /\ read_buffer' = Rest(p)
           /\ pc' = "joined"
           /\ UNCHANGED drops
  <2>. DEFINE first == SubSeq(read_buffer, 1, p)
              rest == SubSeq(read_buffer, p + 1, Len(read_buffer))
              C == Len(cache_buffer)
  <2>1. /\ pipe \in Seq(Bytes) /\ read_buffer \in Seq(Bytes) /\ cache_buffer \in Seq(Bytes)
        /\ BufferSize \in Nat /\ C \in Nat /\ Len(read_buffer) \in Nat
        /\ DOMAIN cache_buffer = 1 .. C
        /\ p \in 0 .. Len(read_buffer) /\ p # 0 /\ p \in Nat
    <3>1. /\ pipe \in Seq(Bytes) /\ read_buffer \in Seq(Bytes) /\ cache_buffer \in Seq(Bytes)
          /\ BufferSize \in Nat
      BY Sequences
    <3>2. p \in DOMAIN read_buffer
      BY DEF Newlines
    <3>. QED
      BY <3>1, <3>2, LenProperties
  <2>2. /\ first \in Seq(Bytes) /\ rest \in Seq(Bytes) /\ first \o rest = read_buffer
        /\ Len(first) = p /\ Len(rest) <= Len(read_buffer) /\ Len(rest) \in Nat
        /\ \A i \in 1 .. p : first[i] = read_buffer[i]
    BY <2>1, CutAndJoin, LenProperties
  <2>3. \A i \in 1 .. p : first[i] = Newline <=> i = p
    BY <1>1, <2>1, <2>2, SMTT(40) DEF Found, Newlines
  <2>. HIDE DEF first, rest
  <2>4. cache_buffer' = cache_buffer \o first /\ read_buffer' = rest
    BY <1>4 DEF Joined, Rest, first, rest
  <2>5. /\ cache_buffer' \in Seq(Bytes) /\ Len(cache_buffer') = C + p
        /\ DOMAIN cache_buffer' = 1 .. C + p
        /\ \A i \in 1 .. C + p :
             cache_buffer'[i] = IF i <= C THEN cache_buffer[i] ELSE first[i - C]
    <3>1. /\ cache_buffer \o first \in Seq(Bytes)
          /\ Len(cache_buffer \o first) = C + Len(first)
          /\ \A i \in 1 .. C + Len(first) :
               (cache_buffer \o first)[i] = IF i <= C THEN cache_buffer[i] ELSE first[i - C]
      BY <2>1, <2>2, ConcatBytes DEF C
    <3>. QED
      BY <2>2, <2>4, <3>1, LenProperties
  <2>6. Stream' = Stream
    BY <1>2, <1>4, JoinedStream
  <2>7. TypeOK'
    <3>1. Len(read_buffer') < BufferSize
      <4>1. Len(read_buffer) < BufferSize
        BY DEF TypeOK
      <4>. QED
        BY <2>1, <2>2, <2>4, <4>1
    <3>. QED
      BY <1>2, <1>4, <2>2, <2>4, <2>5, <3>1 DEF TypeOK, Bytes
  <2>8. BuffersInv'
    <3>1. C + p <= BufferSize /\ C + p # 0 /\ C + p \in Nat
      BY <1>4, <2>1 DEF Accepted
    <3>2. cache_buffer' # <<>>
      BY <2>5, <3>1
    <3>3. ASSUME NEW i \in 1 .. C + p
          PROVE  cache_buffer'[i] = Newline <=> i = C + p
      <4>1. CASE i <= C
        <5>1. cache_buffer[i] # Newline /\ i # C + p
          BY <1>2, <2>1, <4>1 DEF BuffersInv
        <5>. QED
          BY <2>5, <4>1, <5>1
      <4>2. CASE ~(i <= C)
        <5>1. i - C \in 1 .. p /\ (i - C = p <=> i = C + p)
          BY <2>1, <4>2
        <5>. QED
          BY <2>3, <2>5, <4>2, <5>1
      <4>. QED
        BY <4>1, <4>2
    <3>. QED
      BY <1>4, <2>5, <3>1, <3>2, <3>3 DEF BuffersInv
  <2>. QED
    BY <1>2, <2>6, <2>7, <2>8, MovingKeepsStream
<1>. QED
  BY <1>1, <1>3, <1>4

\* The rest that came without a newline takes the place of the cache.
LEMMA RestKeepsReader == ASSUME ReaderInv, KeepRest PROVE ReaderInv'
PROOF
<1>. USE DEF ReaderInv
<1>1. /\ \A i \in DOMAIN read_buffer : read_buffer[i] # Newline
      /\ pc = "parse" /\ pc' = "poll" /\ read_buffer' = <<>>
      /\ UNCHANGED <<lengths, pipe, queued, drops>>
  BY DEF KeepRest, Newlines
<1>2. CASE read_buffer = <<>>
  <2>1. UNCHANGED <<cache_buffer, read_buffer>>
    BY <1>2 DEF KeepRest
  <2>2. Stream' = Stream
    BY <1>1, <2>1 DEF Stream
  <2>3. TypeOK'
    BY <1>1, <2>1 DEF TypeOK
  <2>4. BuffersInv'
    BY <1>1, <2>1 DEF BuffersInv
  <2>. QED
    BY <1>1, <2>2, <2>3, <2>4, MovingKeepsStream
<1>3. CASE cache_buffer' = read_buffer
  BY <1>1, <1>3, DroppingKeepsReader DEF TypeOK
<1>. QED
  BY <1>2, <1>3 DEF KeepRest

\* The line put together is the beginning of the stream.
LEMMA CacheOnStream ==
  ASSUME ReaderInv, pc = "joined"
  PROVE  LET q == Front(cache_buffer)
             c == Len(cache_buffer)
         IN  /\ c \in 1 .. Len(Stream)
             /\ \A i \in 1 .. c : Stream[i] = Newline <=> i = c
             /\ q \in Seq(Bytes) /\ Len(q) = c - 1
             /\ \A i \in 1 .. c - 1 : q[i] = Stream[i]
             /\ read_buffer \o pipe = SubSeq(Stream, c + 1, Len(Stream))
PROOF
<1>. USE DEF ReaderInv
<1>. DEFINE q == Front(cache_buffer)
            c == Len(cache_buffer)
<1>1. /\ cache_buffer \in Seq(Bytes) /\ Stream \in Seq(Bytes) /\ lengths \in Seq(Nat)
      /\ read_buffer \o pipe \in Seq(Bytes)
      /\ c \in Nat /\ c # 0 /\ DOMAIN cache_buffer = 1 .. c
      /\ DOMAIN Stream = 1 .. Len(Stream) /\ Len(Stream) \in Nat
  <2>1. /\ cache_buffer \in Seq(Bytes) /\ Stream \in Seq(Bytes) /\ lengths \in Seq(Nat)
        /\ read_buffer \o pipe \in Seq(Bytes)
    BY Sequences
  <2>2. cache_buffer # <<>>
    BY DEF BuffersInv
  <2>. QED
    BY <2>1, <2>2, EmptySeq, LenProperties
<1>2. /\ c <= Len(Stream)
      /\ \A i \in 1 .. c : i \in DOMAIN Stream /\ cache_buffer[i] = Stream[i]
  <2>1. /\ Len(Stream) = c + Len(read_buffer \o pipe) /\ Len(read_buffer \o pipe) \in Nat
        /\ \A i \in 1 .. c + Len(read_buffer \o pipe) :
             Stream[i] = IF i <= c THEN cache_buffer[i] ELSE (read_buffer \o pipe)[i - c]
    BY <1>1, ConcatProperties, LenProperties DEF Stream
  <2>. HIDE DEF c
  <2>. QED
    BY <1>1, <2>1
<1>3. \A i \in 1 .. c : Stream[i] = Newline <=> i = c
  BY <1>1, <1>2 DEF BuffersInv
<1>4. /\ q \in Seq(Bytes) /\ Len(q) = c - 1 /\ c - 1 \in Nat
      /\ \A i \in 1 .. c - 1 : q[i] = Stream[i]
  <2>1. \A i \in 1 .. c - 1 : cache_buffer[i] \in Bytes
    BY <1>1, ElementOfSeq
  <2>2. /\ q \in Seq(Bytes) /\ Len(q) = IF 1 <= c - 1 THEN (c - 1) - 1 + 1 ELSE 0
        /\ \A i \in 1 .. (c - 1) - 1 + 1 : q[i] = cache_buffer[1 + i - 1]
    BY <1>1, <2>1, SubSeqProperties DEF Front
  <2>. HIDE DEF q, c
  <2>3. c - 1 \in Nat /\ (c - 1) - 1 + 1 = c - 1 /\ Len(q) = c - 1
    BY <1>1, <2>2
  <2>4. \A i \in 1 .. c - 1 : 1 + i - 1 = i /\ i \in 1 .. c
    BY <1>1
  <2>. QED
    BY <1>2, <2>2, <2>3, <2>4
<1>5. read_buffer \o pipe = SubSeq(Stream, c + 1, Len(Stream))
  BY <1>1, ConcatParts DEF Stream
<1>. HIDE DEF q, c
<1>6. c \in 1 .. Len(Stream)
  BY <1>1, <1>2
<1>. QED
  BY <1>3, <1>4, <1>5, <1>6 DEF q, c

\* The line put together, without its newline: the end of a line that was
\* written, and it begins where the stream does.
LEMMA PieceOfLine ==
  ASSUME ReaderInv, pc = "joined"
  PROVE  LET q == Front(cache_buffer)
         IN  /\ q \in Seq(Bytes)
             /\ Len(cache_buffer) \in 1 .. Len(Stream)
             /\ Stream[Len(cache_buffer)] = Newline
             /\ \E k \in DOMAIN lengths : IsSuffix(q, Body(k))
             /\ q # <<>> =>
                  /\ q[1] = Stream[1] /\ Stream[1] # Newline
                  /\ 1 < Len(cache_buffer)
                  /\ \E k \in DOMAIN lengths : lengths[k] >= Len(cache_buffer) - 1
PROOF
<1>. USE DEF ReaderInv
<1>. DEFINE q == Front(cache_buffer)
            c == Len(cache_buffer)
<1>1. /\ cache_buffer \in Seq(Bytes) /\ Stream \in Seq(Bytes) /\ lengths \in Seq(Nat)
      /\ c \in Nat /\ DOMAIN Stream = 1 .. Len(Stream) /\ Len(Stream) \in Nat
  BY Sequences, LenProperties
<1>2. /\ c # 0 /\ c <= Len(Stream)
      /\ \A i \in 1 .. c : i \in DOMAIN Stream
  <2>1. c \in 1 .. Len(Stream)
    BY CacheOnStream
  <2>. HIDE DEF c
  <2>. QED
    BY <1>1, <2>1
<1>3. \A i \in 1 .. c : Stream[i] = Newline <=> i = c
  BY CacheOnStream
<1>4. /\ q \in Seq(Bytes) /\ Len(q) = c - 1 /\ c - 1 \in Nat
      /\ \A i \in 1 .. c - 1 : q[i] = Stream[i]
  <2>1. c - 1 \in Nat
    <3>. HIDE DEF c
    <3>. QED
      BY <1>1, <1>2
  <2>. QED
    BY <2>1, CacheOnStream
<1>. HIDE DEF q, c
<1>5. c \in 1 .. Len(Stream) /\ Stream[c] = Newline
  BY <1>1, <1>2, <1>3
<1>6. CASE c = 1
  <2>1. q = <<>>
    BY <1>4, <1>6, EmptySeq
  <2>2. lengths # <<>>
    BY <1>1, <1>5, EmptySeq DEF StreamInv, AtLineEnd
  <2>3. 1 \in DOMAIN lengths
    BY <1>1, <2>2, EmptySeq, LenProperties
  <2>4. IsSuffix(<<>>, Body(1))
    <3>1. lengths[1] \in Nat
      BY <1>1, <2>3
    <3>2. Reverse(<<>>) = <<>> /\ Len(<<>>) = 0
      BY DEF Reverse
    <3>3. Len(Reverse(Body(1))) \in Nat
      BY <3>1 DEF Reverse, Body, Line
    <3>4. SubSeq(<<>>, 1, 0) = <<>> /\ SubSeq(Reverse(Body(1)), 1, 0) = <<>>
      BY SubSeqEmpty
    <3>. QED
      BY <3>2, <3>3, <3>4 DEF IsSuffix, IsPrefix
  <2>. QED
    BY <1>4, <1>5, <2>1, <2>3, <2>4 DEF q, c
<1>7. CASE 1 < c
  <2>. DEFINE k == Stream[1][1]
              n == lengths[k]
              a == Stream[1][2]
  <2>1. /\ 1 \in DOMAIN Stream /\ Stream[1] # Newline /\ 1 \in 1 .. c - 1
        /\ c - 1 \in DOMAIN Stream /\ Stream[c - 1] # Newline
        /\ (c - 1) + 1 \in DOMAIN Stream /\ Stream[(c - 1) + 1] = Newline
    BY <1>1, <1>2, <1>3, <1>5, <1>7
  <2>2. k \in DOMAIN lengths /\ a \in 1 .. n /\ n \in Nat /\ a \in Nat
    <3>1. k \in DOMAIN lengths /\ a \in 1 .. n
      BY <2>1 DEF StreamInv, Stretch
    <3>2. n \in Nat
      BY <1>1, <3>1, SMTT(40)
    <3>. QED
      BY <3>1, <3>2
  <2>3. \A i \in 1 .. c - 1 : Stream[i] = <<k, a + (i - 1)>>
    <3>. SUFFICES ASSUME NEW i \in 1 .. c - 1 PROVE Stream[i] = <<k, a + (i - 1)>>
      OBVIOUS
    <3>1. i \in DOMAIN Stream /\ 1 <= i /\ \A m \in 1 .. i : Stream[m] # Newline
      BY <1>1, <1>2, <1>3
    <3>. QED
      BY <2>1, <3>1 DEF StreamInv, Stretch
  <2>4. a + (c - 1 - 1) = n
    <3>1. Stream[c - 1][2] = lengths[Stream[c - 1][1]]
      BY <2>1 DEF StreamInv, Stretch
    <3>2. Stream[c - 1] = <<k, a + (c - 1 - 1)>>
      BY <1>1, <1>7, <2>3
    <3>. QED
      BY <3>1, <3>2
  <2>. HIDE DEF k, n, a
  <2>5. c - 1 <= n /\ a = n - (c - 1) + 1
    BY <1>1, <1>7, <2>2, <2>4
  <2>6. IsSuffix(q, Line(k, n))
    <3>. DEFINE r == Reverse(q)
                b == Reverse(Line(k, n))
    <3>1. /\ r = [i \in 1 .. c - 1 |-> q[(c - 1 - i) + 1]]
          /\ b = [i \in 1 .. n |-> Line(k, n)[(n - i) + 1]]
      <4>1. Len(Line(k, n)) = n
        BY <2>2 DEF Line
      <4>. QED
        BY <1>4, <4>1 DEF Reverse
    <3>2. Len(r) = c - 1 /\ Len(b) = n
      BY <1>4, <2>2, <3>1
    <3>3. \A i \in 1 .. c - 1 : r[i] = <<k, (n - i) + 1>> /\ b[i] = <<k, (n - i) + 1>>
      <4>. SUFFICES ASSUME NEW i \in 1 .. c - 1
                    PROVE  r[i] = <<k, (n - i) + 1>> /\ b[i] = <<k, (n - i) + 1>>
        OBVIOUS
      <4>1. /\ (c - 1 - i) + 1 \in 1 .. c - 1 /\ (n - i) + 1 \in 1 .. n /\ i \in 1 .. n
            /\ a + (((c - 1 - i) + 1) - 1) = (n - i) + 1
        BY <1>1, <2>2, <2>5
      <4>2. r[i] = q[(c - 1 - i) + 1] /\ b[i] = Line(k, n)[(n - i) + 1]
        BY <3>1, <4>1
      <4>3. q[(c - 1 - i) + 1] = <<k, (n - i) + 1>>
        BY <1>4, <2>3, <4>1
      <4>4. Line(k, n)[(n - i) + 1] = <<k, (n - i) + 1>>
        BY <4>1 DEF Line
      <4>. QED
        BY <4>2, <4>3, <4>4
    <3>. HIDE DEF r, b
    <3>4. SubSeq(r, 1, c - 1) = SubSeq(b, 1, c - 1)
      <4>1. \A i \in 1 .. c - 1 : r[i] = b[i] /\ r[i] \in Bytes
        <5>1. k \in Nat
          BY <1>1, <2>2, LenProperties
        <5>2. \A i \in 1 .. c - 1 : (n - i) + 1 \in Nat
          BY <1>1, <2>2, <2>5
        <5>. QED
          BY <3>3, <5>1, <5>2 DEF Bytes
      <4>2. /\ SubSeq(r, 1, c - 1) \in Seq(Bytes) /\ SubSeq(b, 1, c - 1) \in Seq(Bytes)
            /\ Len(SubSeq(r, 1, c - 1)) = Len(SubSeq(b, 1, c - 1))
            /\ Len(SubSeq(r, 1, c - 1)) = c - 1
            /\ \A i \in 1 .. c - 1 : SubSeq(r, 1, c - 1)[i] = SubSeq(b, 1, c - 1)[i]
        <5>1. /\ SubSeq(r, 1, c - 1) \in Seq(Bytes)
              /\ Len(SubSeq(r, 1, c - 1)) = IF 1 <= c - 1 THEN c - 1 - 1 + 1 ELSE 0
              /\ \A i \in 1 .. c - 1 - 1 + 1 : SubSeq(r, 1, c - 1)[i] = r[1 + i - 1]
          BY <1>1, <4>1, SubSeqProperties
        <5>2. /\ SubSeq(b, 1, c - 1) \in Seq(Bytes)
              /\ Len(SubSeq(b, 1, c - 1)) = IF 1 <= c - 1 THEN c - 1 - 1 + 1 ELSE 0
              /\ \A i \in 1 .. c - 1 - 1 + 1 : SubSeq(b, 1, c - 1)[i] = b[1 + i - 1]
          BY <1>1, <4>1, SubSeqProperties
        <5>3. c - 1 - 1 + 1 = c - 1 /\ 1 <= c - 1 /\ \A i \in 1 .. c - 1 : 1 + i - 1 = i
          BY <1>1, <1>7
        <5>. QED
          BY <4>1, <5>1, <5>2, <5>3
      <4>. QED
        BY <4>2, SeqEqual
    <3>. QED
      BY <2>5, <3>2, <3>4 DEF IsSuffix, IsPrefix, r, b
  <2>7. q # <<>> => q[1] = Stream[1]
    BY <1>4, <2>1
  <2>. QED
    BY <1>4, <1>5, <1>7, <2>1, <2>2, <2>5, <2>6, <2>7 DEF Body, q, c, k, n
<1>. QED
  BY <1>1, <1>2, <1>6, <1>7

\* A line is queued: what is queued after it comes from later lines.
LEMMA QueueKeepsReader == ASSUME ReaderInv, QueueLine PROVE ReaderInv'
PROOF
<1>. USE DEF ReaderInv
<1>1. CASE GiveUp /\ UNCHANGED <<lengths, pipe, queued>>
  BY <1>1, DroppingKeepsReader DEF GiveUp, TypeOK
<1>2. CASE /\ queued' = Append(queued, Front(cache_buffer))
           /\ cache_buffer' = <<>>
           /\ pc' = "parse"
           /\ UNCHANGED <<read_buffer, drops, lengths, pipe>>
  <2>. DEFINE q == Front(cache_buffer)
              c == Len(cache_buffer)
              N == Len(queued)
  <2>1. pc = "joined"
    BY DEF QueueLine
  <2>2. /\ q \in Seq(Bytes) /\ c \in 1 .. Len(Stream)
        /\ Stream[c] = Newline
        /\ \E k \in DOMAIN lengths : IsSuffix(q, Body(k))
        /\ q # <<>> => q[1] = Stream[1] /\ Stream[1] # Newline /\ 1 < c
    BY <2>1, PieceOfLine
  <2>3. /\ queued \in Seq(Seq(Bytes)) /\ Stream \in Seq(Bytes)
        /\ cache_buffer \in Seq(Bytes) /\ read_buffer \o pipe \in Seq(Bytes)
        /\ DOMAIN Stream = 1 .. Len(Stream) /\ Len(Stream) \in Nat
        /\ DOMAIN queued = 1 .. N /\ N \in Nat
        /\ BufferSize \in Nat /\ 2 <= BufferSize
        /\ read_buffer \in Seq(Bytes) /\ pipe \in Seq(Bytes) /\ c \in Nat
    <3>1. queued \in Seq(Seq(Bytes))
      BY DEF TypeOK, Bytes
    <3>. QED
      BY <3>1, Sequences, LenProperties
  <2>4. Stream' = SubSeq(Stream, c + 1, Len(Stream))
    <3>1. <<>> \o (read_buffer \o pipe) = read_buffer \o pipe
      BY <2>3, ConcatEmptySeq
    <3>2. read_buffer \o pipe = SubSeq(Stream, c + 1, Len(Stream))
      BY <2>3, ConcatParts DEF Stream
    <3>. QED
      BY <1>2, <3>1, <3>2 DEF Stream
  <2>. HIDE DEF q, c, N
  <2>5. StreamInv'
    BY <1>2, <2>2, <2>4, TakingKeepsStream
  <2>6. /\ Stream' \in Seq(Bytes)
        /\ \A i \in DOMAIN Stream' : c + i \in DOMAIN Stream /\ Stream'[i] = Stream[c + i]
    <3>1. lengths \in Seq(Nat) /\ c \in 0 .. Len(Stream)
      BY <2>2, Sequences
    <3>. QED
      BY <2>3, <2>4, <3>1, StretchRest DEF StreamInv
  <2>7. /\ queued' \in Seq(Seq(Bytes)) /\ DOMAIN queued' = 1 .. N + 1
        /\ queued'[N + 1] = q /\ \A i \in 1 .. N : queued'[i] = queued[i]
    <3>1. queued' = Append(queued, q)
      BY <1>2 DEF q
    <3>. QED
      BY <2>2, <2>3, <3>1, AppendProperties, LenProperties DEF N
  <2>8. TypeOK'
    <3>1. cache_buffer' \in Seq(Bytes)
      BY <1>2
    <3>. QED
      BY <1>2, <2>7, <3>1 DEF TypeOK, Bytes
  <2>9. BuffersInv'
    <3>1. Len(cache_buffer') = 0 /\ DOMAIN cache_buffer' = {}
      BY <1>2
    <3>. QED
      BY <1>2, <2>3, <3>1 DEF BuffersInv
  <2>10. QueuedInv'
    <3>1. ASSUME q # <<>>
          PROVE  /\ q[1][1] \in DOMAIN lengths
                 /\ \A i \in DOMAIN Stream' :
                      Stream'[i] # Newline => q[1][1] < Stream'[i][1]
      <4>1. /\ q[1] = Stream[1] /\ Stream[1] # Newline /\ 1 < c
            /\ 1 \in DOMAIN Stream /\ c \in DOMAIN Stream /\ Stream[c] = Newline
        BY <2>2, <2>3, <3>1
      <4>2. q[1][1] \in DOMAIN lengths
        BY <4>1 DEF StreamInv, Stretch
      <4>3. ASSUME NEW i \in DOMAIN Stream', Stream'[i] # Newline
            PROVE  q[1][1] < Stream'[i][1]
        <5>1. c + i \in DOMAIN Stream /\ Stream'[i] = Stream[c + i]
          BY <2>6, <4>3
        <5>2. c < c + i
          <6>1. DOMAIN Stream' = 1 .. Len(Stream')
            BY <2>6, LenProperties
          <6>. QED
            BY <2>3, <4>3, <6>1
        <5>. QED
          BY <4>1, <4>3, <5>1, <5>2 DEF StreamInv, Stretch
      <4>. QED
        BY <4>2, <4>3
    <3>2. ASSUME NEW i \in DOMAIN queued, queued[i] # <<>>
          PROVE  /\ queued[i][1][1] \in DOMAIN lengths
                 /\ \A j \in DOMAIN Stream' :
                      Stream'[j] # Newline => queued[i][1][1] < Stream'[j][1]
      BY <2>6, <3>2 DEF QueuedInv, Before
    <3>3. \A i \in DOMAIN queued' : Before(queued[i])'
      <4>. SUFFICES ASSUME NEW i \in DOMAIN queued', queued'[i] # <<>>
                    PROVE  /\ queued'[i][1][1] \in DOMAIN lengths
                           /\ \A j \in DOMAIN Stream' :
                                Stream'[j] # Newline => queued'[i][1][1] < Stream'[j][1]
        BY <1>2 DEF Before
      <4>1. i \in 1 .. N \/ i = N + 1
        BY <2>3, <2>7
      <4>. QED
        BY <2>3, <2>7, <3>1, <3>2, <4>1
    <3>4. NoMixedLines'
      <4>. SUFFICES ASSUME NEW p \in Range(queued')
                    PROVE  \E k \in DOMAIN lengths : IsSuffix(p, Body(k))
        BY <1>2 DEF NoMixedLines, Body, Line
      <4>1. PICK i \in 1 .. N + 1 : p = queued'[i]
        BY <2>7 DEF Range
      <4>2. CASE i \in 1 .. N
        <5>1. p \in Range(queued)
          BY <2>3, <2>7, <4>1, <4>2 DEF Range
        <5>. QED
          BY <5>1 DEF QueuedInv, NoMixedLines
      <4>3. CASE i = N + 1
        BY <2>2, <2>7, <4>1, <4>3
      <4>. QED
        BY <2>3, <4>2, <4>3
    <3>5. InOrder'
      <4>. SUFFICES ASSUME NEW i \in 1 .. N + 1, NEW j \in 1 .. N + 1, i < j,
                           queued'[i] # <<>>, queued'[j] # <<>>
                    PROVE  Head(queued'[i])[1] < Head(queued'[j])[1]
        BY <2>7 DEF InOrder
      <4>1. CASE j \in 1 .. N
        <5>1. /\ i \in DOMAIN queued /\ j \in DOMAIN queued
              /\ queued'[i] = queued[i] /\ queued'[j] = queued[j]
          BY <2>3, <2>7, <4>1
        <5>. QED
          BY <5>1 DEF QueuedInv, InOrder
      <4>2. CASE j = N + 1
        <5>1. i \in DOMAIN queued /\ queued'[i] = queued[i] /\ queued'[j] = q
          BY <2>3, <2>7, <4>2
        <5>2. q[1] = Stream[1] /\ Stream[1] # Newline /\ 1 \in DOMAIN Stream
          BY <2>2, <2>3, <5>1
        <5>3. queued[i][1][1] < q[1][1]
          BY <5>1, <5>2 DEF QueuedInv, Before
        <5>4. /\ Head(queued'[i]) = queued[i][1] /\ Head(queued'[j]) = q[1]
          BY <5>1, <2>2, <2>3, ElementOfSeq
        <5>. QED
          BY <5>3, <5>4
      <4>. QED
        BY <2>3, <4>1, <4>2
    <3>. QED
      BY <3>3, <3>4, <3>5 DEF QueuedInv
  <2>. QED
    BY <2>5, <2>8, <2>9, <2>10
<1>. QED
  BY <1>1, <1>2 DEF QueueLine, CacheAfterLine

\* Every step preserves the invariant.
LEMMA ReaderStep ==
  ASSUME ReaderInv, [Next]_vars
  PROVE  ReaderInv'
PROOF
<1>1. ASSUME NEW n \in Lengths, WriteLine(n)
      PROVE  ReaderInv'
  BY <1>1, WriteKeepsReader
<1>2. CASE Read
  BY <1>2, ReadKeepsReader
<1>3. CASE JoinLine
  BY <1>3, JoinKeepsReader
<1>4. CASE QueueLine
  BY <1>4, QueueKeepsReader
<1>5. CASE KeepRest
  BY <1>5, RestKeepsReader
<1>6. CASE UNCHANGED vars
  <2>1. Stream' = Stream
    BY <1>6 DEF vars, Stream
  <2>2. TypeOK' /\ BuffersInv'
    BY <1>6 DEF vars, ReaderInv, TypeOK, BuffersInv
  <2>. QED
    BY <1>6, <2>1, <2>2, MovingKeepsStream DEF vars, ReaderInv
<1>. QED
  BY <1>1, <1>2, <1>3, <1>4, <1>5, <1>6 DEF Next

\* The invariant holds of every behaviour of socket_cb and the writers
\* (queral.c:556-618).
THEOREM ReaderInvariant == Spec => []ReaderInv
PROOF
<1>1. ReaderInv /\ [Next]_vars => ReaderInv'
  BY ReaderStep
<1>. QED
  BY <1>1, InitReader, PTL DEF Spec

\* Ranges: in particular read_buffer always has a byte left for its NUL
\* (queral.c:562-569).
THEOREM ReaderTypes == Spec => []TypeOK
PROOF
<1>1. ReaderInv => TypeOK
  BY DEF ReaderInv
<1>. QED
  BY <1>1, ReaderInvariant, PTL

-----------------------------------------------------------------------------
\* However read() cuts the stream and wherever the callback gives up, a queued
\* line is the end of one line that was written: parts of two lines are never
\* put together (queral.c:577-579, 593-596, 610-613).
THEOREM LinesStayApart == Spec => []NoMixedLines
PROOF
<1>1. ReaderInv => NoMixedLines
  BY DEF ReaderInv, QueuedInv
<1>. QED
  BY <1>1, ReaderInvariant, PTL

\* Lines are queued in the order they were written, none of them twice or in
\* two pieces (queral.c:602-614).
THEOREM LinesStayInOrder == Spec => []InOrder
PROOF
<1>1. ReaderInv => InOrder
  BY DEF ReaderInv, QueuedInv
<1>. QED
  BY <1>1, ReaderInvariant, PTL

\* cache_buffer is overrun by one NUL and nothing else, and only when a line of
\* at least BUFFER_SIZE - 1 characters was written (queral.c:573-582).
THEOREM OnlyNulOverruns == Spec => []OverrunByNulOnly
PROOF
<1>1. ReaderInv => OverrunByNulOnly
  <2>. SUFFICES ASSUME ReaderInv, Len(cache_buffer) + 1 > BufferSize
                PROVE  /\ Len(cache_buffer) = BufferSize
                       /\ \E k \in DOMAIN lengths : lengths[k] >= BufferSize - 1
    BY DEF OverrunByNulOnly
  <2>1. /\ cache_buffer \in Seq(Bytes) /\ Len(cache_buffer) \in Nat
        /\ BufferSize \in Nat /\ 2 <= BufferSize
    BY Sequences, LenProperties DEF ReaderInv
  <2>2. Len(cache_buffer) <= BufferSize /\ pc = "joined"
    BY <2>1 DEF ReaderInv, BuffersInv
  <2>3. Len(cache_buffer) = BufferSize
    BY <2>1, <2>2
  <2>4. Front(cache_buffer) # <<>>
    <3>1. \A i \in 1 .. Len(cache_buffer) - 1 : cache_buffer[i] \in Bytes
      BY <2>1, ElementOfSeq
    <3>2. Len(SubSeq(cache_buffer, 1, Len(cache_buffer) - 1)) # 0
      BY <2>1, <2>3, <3>1, SubSeqProperties
    <3>. QED
      BY <3>2, EmptySeq DEF Front
  <2>5. \E k \in DOMAIN lengths : lengths[k] >= Len(cache_buffer) - 1
    BY <2>2, <2>4, PieceOfLine
  <2>. QED
    BY <2>3, <2>5
<1>. QED
  BY <1>1, ReaderInvariant, PTL

-----------------------------------------------------------------------------
(* What giving up costs.                                                   *)

\* The bytes that begin a line: the first of its body, or the newline of an
\* empty line.
Starts(ls, b) ==
  IF b = Newline THEN \E k \in DOMAIN ls : ls[k] = 0 ELSE b[2] = 1

\* Behind a newline a line begins, and the stream as a whole may begin with one.
NewlinesEnd ==
  \A i \in DOMAIN Stream :
    i + 1 \in DOMAIN Stream /\ Stream[i] = Newline => Starts(lengths, Stream[i + 1])
AtLineStart == Stream # <<>> => Starts(lengths, Stream[1])

\* A piece in the cache does not meet a full read without a newline.
PieceGetsItsEnd ==
  pc = "parse" /\ cache_buffer # <<>> => Newlines # {}

\* A line that has lost its beginning and is still to be queued is paid for.
DamagePaid ==
  Cardinality(Damaged) + (IF AtLineStart THEN 0 ELSE 1) <= drops

\* s holds the lines of the lengths ls from the one after the m-th to the last,
\* whole; P[k] is where the k-th ends.
WholeLines(ls, s, m, P) ==
  LET N == Len(ls) IN
  /\ P[m] = 0 /\ P[N] = Len(s)
  /\ \A j, k \in m .. N : j <= k => P[j] <= P[k]
  /\ \A k \in m + 1 .. N :
       /\ P[k] = P[k - 1] + (ls[k] + 1)
       /\ \A i \in 1 .. ls[k] : s[P[k - 1] + i] = <<k, i>>
       /\ s[P[k]] = Newline

\* What is queued and what is in the stream are together the lines written.
NothingLost ==
  drops = 0 =>
    /\ Len(queued) <= Len(lengths)
    /\ \A k \in 1 .. Len(queued) : queued[k] = Body(k)
    /\ \E P \in [Len(queued) .. Len(lengths) -> Nat] :
         WholeLines(lengths, Stream, Len(queued), P)

\* The invariant where the lines fit the buffer.
FitInv ==
  /\ ReaderInv
  /\ LinesFit => NewlinesEnd /\ PieceGetsItsEnd /\ DamagePaid /\ NothingLost

\* The steps as the invariant sees them: bytes move along the stream, ...
Moving == Stream' = Stream /\ UNCHANGED <<lengths, queued, drops>>

\* ... a line is queued from its beginning, ...
Queueing ==
  \E c \in 1 .. Len(Stream), q \in Seq(Bytes) :
    /\ \A i \in 1 .. c : Stream[i] = Newline <=> i = c
    /\ Len(q) = c - 1 /\ \A i \in 1 .. c - 1 : q[i] = Stream[i]
    /\ queued' = Append(queued, q)
    /\ Stream' = SubSeq(Stream, c + 1, Len(Stream))
    /\ UNCHANGED <<lengths, drops>>

\* ... or the beginning is lost and counted.
Losing ==
  /\ \E d \in 0 .. Len(Stream) : Stream' = SubSeq(Stream, d + 1, Len(Stream))
  /\ drops' = drops + 1
  /\ UNCHANGED <<lengths, queued>>

\* The types of the stream and of what was queued.
LEMMA StreamTypes ==
  ASSUME ReaderInv
  PROVE  /\ Stream \in Seq(Bytes) /\ Len(Stream) \in Nat /\ DOMAIN Stream = 1 .. Len(Stream)
         /\ lengths \in Seq(Nat) /\ Len(lengths) \in Nat
         /\ DOMAIN lengths = 1 .. Len(lengths)
         /\ \A k \in DOMAIN lengths : lengths[k] \in Nat
         /\ queued \in Seq(Seq(Bytes)) /\ Len(queued) \in Nat
         /\ DOMAIN queued = 1 .. Len(queued)
         /\ drops \in Nat
PROOF
<1>1. queued \in Seq(Seq(Bytes)) /\ drops \in Nat /\ TypeOK
  BY DEF ReaderInv, TypeOK, Bytes
<1>2. lengths \in Seq(Nat)
  BY <1>1, Sequences
<1>3. \A k \in DOMAIN lengths : lengths[k] \in Nat
  BY <1>2, ElementOfSeq, LenProperties
<1>. QED
  BY <1>1, <1>2, <1>3, Sequences, LenProperties

\* The stream in which a piece has no newline is no longer than a line.
LEMMA PieceFits ==
  ASSUME ReaderInv, LinesFit, NEW n \in 1 .. Len(Stream),
         \A i \in 1 .. n : Stream[i] # Newline
  PROVE  n < BufferSize
PROOF
<1>1. /\ n \in Nat /\ 1 \in DOMAIN Stream /\ n \in DOMAIN Stream /\ 1 <= n
      /\ Stream[1] # Newline /\ Stream[n] # Newline /\ BufferSize \in Nat
  BY StreamTypes, ReaderAssumption
<1>2. Stream[n] = <<Stream[1][1], Stream[1][2] + (n - 1)>>
  BY <1>1 DEF ReaderInv, StreamInv, Stretch
<1>3. /\ Stream[1][1] \in DOMAIN lengths
      /\ Stream[1][2] \in 1 .. lengths[Stream[1][1]]
      /\ Stream[n][2] \in 1 .. lengths[Stream[n][1]]
  BY <1>1 DEF ReaderInv, StreamInv, Stretch
<1>4. lengths[Stream[1][1]] \in Nat /\ lengths[Stream[1][1]] < BufferSize
  BY <1>3, StreamTypes DEF LinesFit
<1>. DEFINE a == Stream[1][2]
            b == lengths[Stream[1][1]]
<1>5. a \in 1 .. b /\ a + (n - 1) \in 1 .. b /\ b \in Nat /\ b < BufferSize
  BY <1>2, <1>3, <1>4
<1>. HIDE DEF a, b
<1>. QED
  BY <1>1, <1>5

\* Behind a piece in the cache comes the newline of its line, with one read.
LEMMA ReadBringsNewline ==
  ASSUME ReaderInv, Read, LinesFit, cache_buffer # <<>>
  PROVE  Newlines' # {}
PROOF
<1>. DEFINE C == Len(cache_buffer)
            L == Len(pipe)
            R == ReadSize
<1>1. /\ cache_buffer \in Seq(Bytes) /\ pipe \in Seq(Bytes) /\ BufferSize \in Nat
      /\ C \in Nat /\ C # 0 /\ L \in Nat /\ DOMAIN pipe = 1 .. L
      /\ R \in 0 .. L /\ (R = L \/ R = BufferSize - 1) /\ 2 <= BufferSize
  BY Sequences, EmptySeq, LenProperties, ReadSizes DEF ReaderInv
<1>2. pc = "poll" /\ pipe # <<>> /\ read_buffer = <<>> /\ L # 0
  BY <1>1, EmptySeq DEF Read, ReaderInv, BuffersInv
<1>3. Stream = cache_buffer \o pipe
  BY <1>1, <1>2, ConcatEmptySeq DEF Stream
<1>4. /\ Len(Stream) = C + L
      /\ \A i \in 1 .. C + L : Stream[i] = IF i <= C THEN cache_buffer[i] ELSE pipe[i - C]
  BY <1>1, <1>3, ConcatBytes
<1>5. \A i \in 1 .. C : Stream[i] # Newline
  <2>1. \A i \in 1 .. C : cache_buffer[i] # Newline
    BY <1>1, <1>2, LenProperties DEF ReaderInv, BuffersInv
  <2>2. \A i \in 1 .. C : i \in 1 .. C + L /\ i <= C
    <3>. HIDE DEF C, L
    <3>. QED
      BY <1>1
  <2>. QED
    BY <1>4, <2>1, <2>2
<1>6. read_buffer' \in Seq(Bytes) /\ DOMAIN read_buffer' = 1 .. R
      /\ \A i \in 1 .. R : read_buffer'[i] = pipe[i]
  <2>1. read_buffer' = SubSeq(pipe, 1, R)
    BY DEF Read
  <2>. HIDE DEF R, L
  <2>2. /\ SubSeq(pipe, 1, R) \in Seq(Bytes) /\ Len(SubSeq(pipe, 1, R)) = R
        /\ \A i \in 1 .. R : SubSeq(pipe, 1, R)[i] = pipe[i]
    BY <1>1, CutAndJoin DEF L
  <2>. QED
    BY <2>1, <2>2, LenProperties
<1>7. \E i \in 1 .. R : pipe[i] = Newline
  <2>1. CASE R = L
    <3>1. Stream # <<>>
      <4>1. C + L # 0
        <5>. HIDE DEF C, L, R
        <5>. QED
          BY <1>1
      <4>. QED
        BY <1>4, <4>1
    <3>2. Stream[C + L] = Newline
      BY <1>4, <3>1 DEF ReaderInv, StreamInv, AtLineEnd
    <3>. HIDE DEF C, L, R
    <3>3. C + L \in 1 .. C + L /\ ~(C + L <= C) /\ (C + L) - C = L /\ L \in 1 .. R
      BY <1>1, <1>2, <2>1
    <3>4. pipe[L] = Newline
      BY <1>4, <3>2, <3>3
    <3>. QED
      BY <3>3, <3>4
  <2>2. CASE R = BufferSize - 1 /\ \A i \in 1 .. R : pipe[i] # Newline
    <3>. HIDE DEF C, L, R
    <3>1. C + R \in 1 .. C + L /\ ~(C + R < BufferSize)
      BY <1>1, <2>2
    <3>2. ASSUME NEW i \in 1 .. C + R PROVE Stream[i] # Newline
      <4>1. CASE i <= C
        <5>1. i \in 1 .. C
          BY <1>1, <4>1
        <5>. QED
          BY <1>5, <5>1
      <4>2. CASE ~(i <= C)
        <5>1. i \in 1 .. C + L /\ i - C \in 1 .. R
          BY <1>1, <4>2
        <5>. QED
          BY <1>4, <2>2, <4>2, <5>1
      <4>. QED
        BY <4>1, <4>2
    <3>3. C + R \in 1 .. Len(Stream)
      BY <1>4, <3>1
    <3>. QED
      BY <3>1, <3>2, <3>3, PieceFits
  <2>. QED
    BY <1>1, <2>1, <2>2
<1>. HIDE DEF R
<1>. QED
  BY <1>6, <1>7 DEF Newlines

\* A longer list of lines holds the lines of the shorter one.
LEMMA LinesStay ==
  ASSUME ReaderInv, NEW n \in Lengths, lengths' = Append(lengths, n)
  PROVE  /\ n \in Nat /\ Len(lengths') = Len(lengths) + 1
         /\ DOMAIN lengths' = 1 .. Len(lengths) + 1
         /\ \A k \in DOMAIN lengths : k \in DOMAIN lengths' /\ lengths'[k] = lengths[k]
         /\ lengths'[Len(lengths) + 1] = n
         /\ LinesFit' => LinesFit
PROOF
<1>1. /\ n \in Nat /\ lengths \in Seq(Nat) /\ Len(lengths) \in Nat
      /\ DOMAIN lengths = 1 .. Len(lengths)
  BY StreamTypes, ReaderAssumption
<1>2. /\ lengths' \in Seq(Nat) /\ Len(lengths') = Len(lengths) + 1
      /\ lengths'[Len(lengths) + 1] = n
      /\ \A k \in 1 .. Len(lengths) : lengths'[k] = lengths[k]
  BY <1>1, AppendProperties
<1>3. /\ DOMAIN lengths' = 1 .. Len(lengths) + 1
      /\ \A k \in DOMAIN lengths : k \in DOMAIN lengths' /\ lengths'[k] = lengths[k]
  BY <1>1, <1>2, LenProperties
<1>. QED
  BY <1>1, <1>2, <1>3 DEF LinesFit

\* Every step of the program is one of these.
LEMMA ReaderSteps ==
  ASSUME ReaderInv, PieceGetsItsEnd, [Next]_vars, LinesFit
  PROVE  Moving \/ Queueing \/ Losing \/ \E n \in Lengths : WriteLine(n)
PROOF
<1>0. TypeOK /\ BuffersInv
  BY DEF ReaderInv
<1>1. ASSUME GiveUp, UNCHANGED <<lengths, pipe, queued>> PROVE Losing
  BY <1>0, <1>1, DroppedStream DEF Losing, GiveUp
<1>2. CASE Read
  BY <1>0, <1>2, ReadStream DEF Moving, Read
<1>3. CASE JoinLine
  <2>1. PICK p \in Newlines :
          \/ /\ cache_buffer' = Joined(p)
             /\ read_buffer' = Rest(p)
             /\ UNCHANGED drops
          \/ GiveUp
    BY <1>3 DEF JoinLine
  <2>2. UNCHANGED <<lengths, pipe, queued>>
    BY <1>3 DEF JoinLine
  <2>. QED
    BY <1>0, <1>1, <2>1, <2>2, JoinedStream DEF Moving
<1>4. CASE QueueLine
  <2>1. CASE /\ queued' = Append(queued, Front(cache_buffer))
             /\ cache_buffer' = <<>>
             /\ UNCHANGED <<read_buffer, drops, lengths, pipe>>
    <3>. DEFINE c == Len(cache_buffer)
                q == Front(cache_buffer)
    <3>1. /\ c \in 1 .. Len(Stream) /\ q \in Seq(Bytes)
          /\ \A i \in 1 .. c : Stream[i] = Newline <=> i = c
          /\ Len(q) = c - 1 /\ \A i \in 1 .. c - 1 : q[i] = Stream[i]
          /\ read_buffer \o pipe = SubSeq(Stream, c + 1, Len(Stream))
      BY <1>4, CacheOnStream DEF QueueLine
    <3>2. Stream' = SubSeq(Stream, c + 1, Len(Stream))
      <4>1. <<>> \o (read_buffer \o pipe) = read_buffer \o pipe
        BY <1>0, Sequences, ConcatEmptySeq
      <4>. QED
        BY <2>1, <3>1, <4>1 DEF Stream
    <3>. HIDE DEF c
    <3>. QED
      BY <2>1, <3>1, <3>2 DEF Queueing
  <2>. QED
    BY <1>1, <1>4, <2>1 DEF QueueLine, CacheAfterLine
<1>5. CASE KeepRest
  <2>1. read_buffer' = <<>> /\ UNCHANGED <<lengths, pipe, queued, drops>>
    BY <1>5 DEF KeepRest
  <2>2. CASE read_buffer = <<>>
    <3>1. UNCHANGED <<cache_buffer, read_buffer>>
      BY <1>5, <2>2 DEF KeepRest
    <3>. QED
      BY <2>1, <3>1 DEF Moving, Stream
  <2>3. CASE read_buffer # <<>>
    <3>1. cache_buffer = <<>> /\ cache_buffer' = read_buffer
      BY <1>5, <2>3 DEF KeepRest, PieceGetsItsEnd
    <3>2. <<>> \o (read_buffer \o pipe) = read_buffer \o pipe /\ <<>> \o pipe = pipe
      BY <1>0, Sequences, ConcatEmptySeq
    <3>. QED
      BY <2>1, <3>1, <3>2 DEF Moving, Stream
  <2>. QED
    BY <2>2, <2>3
<1>6. CASE UNCHANGED vars
  BY <1>6 DEF vars, Moving, Stream
<1>. QED
  BY <1>2, <1>3, <1>4, <1>5, <1>6 DEF Next

\* The first byte of a line is one when more lines are there.
LEMMA StartsStays ==
  ASSUME ReaderInv, NEW n \in Lengths, lengths' = Append(lengths, n), NEW b, Starts(lengths, b)
  PROVE  Starts(lengths', b)
PROOF
  BY LinesStay DEF Starts

\* Behind newlines lines begin, whatever the step.
LEMMA NewlinesEndStep ==
  ASSUME ReaderInv, NewlinesEnd,
         \/ Moving \/ Queueing \/ Losing \/ \E n \in Lengths : WriteLine(n)
  PROVE  NewlinesEnd'
PROOF
<1>1. CASE Moving
  BY <1>1 DEF Moving, NewlinesEnd, Starts
<1>2. ASSUME NEW d \in 0 .. Len(Stream), lengths' = lengths,
             Stream' = SubSeq(Stream, d + 1, Len(Stream))
      PROVE  NewlinesEnd'
  <2>1. \A i \in DOMAIN Stream' : d + i \in DOMAIN Stream /\ Stream'[i] = Stream[d + i]
    BY <1>2, StreamTypes, StretchRest DEF ReaderInv, StreamInv
  <2>2. \A i \in DOMAIN Stream' : i \in Nat /\ d \in Nat
    <3>1. Stream' \in Seq(Bytes)
      BY <1>2, StreamTypes, StretchRest DEF ReaderInv, StreamInv
    <3>. QED
      BY <3>1, LenProperties
  <2>3. ASSUME NEW i \in DOMAIN Stream', i + 1 \in DOMAIN Stream', Stream'[i] = Newline
        PROVE  Starts(lengths', Stream'[i + 1])
    <3>1. (d + i) + 1 = d + (i + 1)
      BY <2>2
    <3>. QED
      BY <1>2, <2>1, <2>3, <3>1 DEF NewlinesEnd
  <2>. QED
    BY <1>2, <2>3 DEF NewlinesEnd, Starts
<1>3. CASE Queueing
  <2>1. PICK c \in 1 .. Len(Stream) :
          /\ Stream' = SubSeq(Stream, c + 1, Len(Stream))
          /\ lengths' = lengths
    BY <1>3 DEF Queueing
  <2>2. c \in 0 .. Len(Stream)
    BY StreamTypes
  <2>. QED
    BY <1>2, <2>1, <2>2
<1>4. CASE Losing
  BY <1>2, <1>4 DEF Losing
<1>5. ASSUME NEW n \in Lengths, WriteLine(n)
      PROVE  NewlinesEnd'
  <2>. DEFINE L == Len(Stream)
              k == Len(lengths) + 1
  <2>1. /\ n \in Nat /\ L \in Nat /\ k \in Nat /\ DOMAIN Stream = 1 .. L
        /\ lengths' = Append(lengths, n) /\ k \in DOMAIN lengths' /\ lengths'[k] = n
        /\ k # 0
    BY <1>5, StreamTypes, LinesStay DEF WriteLine
  <2>2. /\ DOMAIN Stream' = 1 .. L + (n + 1)
        /\ \A i \in 1 .. L : Stream'[i] = Stream[i]
        /\ \A i \in 1 .. n : Stream'[L + i] = <<k, i>>
        /\ Stream'[L + (n + 1)] = Newline
    BY <1>5, WrittenStream DEF ReaderInv
  <2>. HIDE DEF L, k
  <2>3. ASSUME NEW i \in 1 .. L + (n + 1), i + 1 \in 1 .. L + (n + 1), Stream'[i] = Newline
        PROVE  Starts(lengths', Stream'[i + 1])
    <3>1. CASE i + 1 <= L
      <4>1. i \in DOMAIN Stream /\ i + 1 \in DOMAIN Stream /\ i \in 1 .. L /\ i + 1 \in 1 .. L
        BY <2>1, <3>1
      <4>2. Starts(lengths, Stream[i + 1])
        BY <2>2, <2>3, <4>1 DEF NewlinesEnd
      <4>3. Starts(lengths', Stream[i + 1])
        BY <2>1, <4>2, StartsStays
      <4>. QED
        BY <2>2, <4>1, <4>3
    <3>2. CASE i = L
      <4>1. CASE n = 0
        <5>1. Stream'[i + 1] = Newline
          BY <2>1, <2>2, <3>2, <4>1
        <5>. QED
          BY <2>1, <4>1, <5>1 DEF Starts
      <4>2. CASE n # 0
        <5>1. 1 \in 1 .. n
          BY <2>1, <4>2
        <5>2. Stream'[i + 1] = <<k, 1>> /\ <<k, 1>> # Newline
          BY <2>1, <2>2, <3>2, <5>1 DEF Newline
        <5>. QED
          BY <5>2 DEF Starts
      <4>. QED
        BY <4>1, <4>2
    <3>3. CASE L < i
      <4>1. i - L \in 1 .. n /\ L + (i - L) = i
        BY <2>1, <2>3, <3>3
      <4>2. Stream'[i] = <<k, i - L>>
        BY <2>2, <4>1
      <4>. QED
        BY <2>1, <2>3, <4>2 DEF Newline
    <3>. QED
      BY <2>1, <3>1, <3>2, <3>3
  <2>. QED
    BY <2>2, <2>3 DEF NewlinesEnd
<1>. QED
  BY <1>1, <1>3, <1>4, <1>5

\* The damaged lines are finitely many.
LEMMA DamagedFinite ==
  ASSUME ReaderInv
  PROVE  IsFiniteSet(Damaged) /\ Cardinality(Damaged) \in Nat
         /\ Damaged \subseteq 1 .. Len(queued)
PROOF
<1>1. Damaged \subseteq 1 .. Len(queued) /\ Len(queued) \in Nat
  BY StreamTypes DEF Damaged
<1>2. IsFiniteSet(1 .. Len(queued))
  BY <1>1, FS_Interval
<1>. QED
  BY <1>1, <1>2, FS_Subset, FS_CardinalityType

\* A line queued from its beginning is a line as it was written.
LEMMA WholeIfStarts ==
  ASSUME ReaderInv, NEW c \in 1 .. Len(Stream), NEW q \in Seq(Bytes),
         \A i \in 1 .. c : Stream[i] = Newline <=> i = c,
         Len(q) = c - 1, \A i \in 1 .. c - 1 : q[i] = Stream[i],
         Starts(lengths, Stream[1])
  PROVE  \E k \in DOMAIN lengths : q = Body(k)
PROOF
<1>0. /\ DOMAIN Stream = 1 .. Len(Stream) /\ Len(Stream) \in Nat /\ c \in Nat /\ c # 0
      /\ c \in DOMAIN Stream
      /\ \A k \in DOMAIN lengths : lengths[k] \in Nat
  BY StreamTypes
<1>1. CASE c = 1
  <2>1. PICK k \in DOMAIN lengths : lengths[k] = 0
    BY <1>1 DEF Starts
  <2>2. Body(k) = <<>> /\ q = <<>>
    BY <1>1, <2>1, EmptySeq DEF Body, Line
  <2>. QED
    BY <2>1, <2>2
<1>2. CASE c # 1
  <2>. DEFINE k == Stream[1][1]
              n == lengths[k]
  <2>1. /\ 1 \in 1 .. c /\ 1 \in DOMAIN Stream /\ Stream[1] # Newline /\ Stream[1][2] = 1
        /\ c - 1 \in 1 .. c /\ c - 1 \in DOMAIN Stream /\ Stream[c - 1] # Newline
        /\ (c - 1) + 1 \in DOMAIN Stream /\ Stream[(c - 1) + 1] = Newline
        /\ c - 1 \in 1 .. c - 1
    BY <1>0, <1>2 DEF Starts
  <2>2. k \in DOMAIN lengths /\ n \in Nat
    BY <1>0, <2>1 DEF ReaderInv, StreamInv, Stretch
  <2>3. ASSUME NEW i \in 1 .. c - 1 PROVE Stream[i] = <<k, i>>
    <3>1. i \in DOMAIN Stream /\ 1 <= i /\ (\A m \in 1 .. i : Stream[m] # Newline)
          /\ 1 + (i - 1) = i
      BY <1>0
    <3>2. Stream[i] = <<Stream[1][1], Stream[1][2] + (i - 1)>>
      BY <2>1, <3>1 DEF ReaderInv, StreamInv, Stretch
    <3>. QED
      BY <2>1, <3>1, <3>2
  <2>4. c - 1 = n
    <3>1. Stream[c - 1][2] = lengths[Stream[c - 1][1]]
      BY <2>1 DEF ReaderInv, StreamInv, Stretch
    <3>2. Stream[c - 1] = <<k, c - 1>>
      BY <2>1, <2>3
    <3>. QED
      BY <3>1, <3>2
  <2>. HIDE DEF k, n
  <2>5. q = [i \in 1 .. n |-> <<k, i>>]
    <3>1. DOMAIN q = 1 .. n /\ \A i \in 1 .. n : q[i] = <<k, i>>
      BY <2>3, <2>4, LenProperties
    <3>2. q = [i \in DOMAIN q |-> q[i]]
      OBVIOUS
    <3>. QED
      BY <3>1, <3>2
  <2>. QED
    BY <2>2, <2>5 DEF Body, Line, k, n
<1>. QED
  BY <1>1, <1>2

\* The cost of a step: giving up pays for the line it cuts.
LEMMA DamageStep ==
  ASSUME ReaderInv, NewlinesEnd, DamagePaid, LinesFit,
         \/ Moving \/ Queueing \/ Losing \/ \E n \in Lengths : WriteLine(n)
  PROVE  DamagePaid'
PROOF
<1>. DEFINE debt == IF AtLineStart THEN 0 ELSE 1
            N == Len(queued)
<1>1. /\ IsFiniteSet(Damaged) /\ Cardinality(Damaged) \in Nat /\ Damaged \subseteq 1 .. N
      /\ debt \in {0, 1} /\ drops \in Nat /\ Cardinality(Damaged) + debt <= drops
  BY DamagedFinite, StreamTypes DEF DamagePaid
<1>2. CASE Moving
  BY <1>2 DEF Moving, DamagePaid, Damaged, AtLineStart, LinesFit, Starts, Body, Line
<1>3. CASE Losing
  <2>1. Damaged' = Damaged /\ drops' = drops + 1
    BY <1>3 DEF Losing, Damaged, Body, Line
  <2>. HIDE DEF debt
  <2>2. Cardinality(Damaged') + 0 <= drops' /\ Cardinality(Damaged') + 1 <= drops'
    BY <1>1, <2>1
  <2>. QED
    BY <2>2 DEF DamagePaid
<1>4. ASSUME NEW n \in Lengths, WriteLine(n)
      PROVE  DamagePaid'
  <2>1. lengths' = Append(lengths, n) /\ queued' = queued /\ drops' = drops
    BY <1>4 DEF WriteLine
  <2>2. Damaged' \subseteq Damaged
    BY <2>1, LinesStay DEF Damaged, Body, Line
  <2>3. IsFiniteSet(Damaged') /\ Cardinality(Damaged') <= Cardinality(Damaged)
        /\ Cardinality(Damaged') \in Nat
    BY <1>1, <2>2, FS_Subset, FS_CardinalityType
  <2>4. AtLineStart => AtLineStart'
    <3>. SUFFICES ASSUME AtLineStart PROVE Starts(lengths', Stream'[1])
      BY DEF AtLineStart
    <3>. DEFINE L == Len(Stream)
                k == Len(lengths) + 1
    <3>0. /\ n \in Nat /\ L \in Nat /\ k \in DOMAIN lengths' /\ lengths'[k] = n
          /\ k \in Nat /\ k # 0
      BY <2>1, StreamTypes, LinesStay
    <3>1. /\ \A i \in 1 .. L : Stream'[i] = Stream[i]
          /\ \A i \in 1 .. n : Stream'[L + i] = <<k, i>>
          /\ Stream'[L + (n + 1)] = Newline
      BY <1>4, WrittenStream DEF ReaderInv
    <3>2. CASE Stream # <<>>
      <4>1. 1 \in 1 .. L
        BY <3>2, StreamTypes, EmptySeq
      <4>. QED
        BY <2>1, <3>1, <3>2, <4>1, StartsStays DEF AtLineStart
    <3>3. CASE Stream = <<>>
      <4>1. L = 0
        BY <3>3
      <4>. HIDE DEF L, k
      <4>2. CASE n = 0
        <5>1. Stream'[1] = Newline
          BY <3>1, <4>1, <4>2
        <5>. QED
          BY <3>0, <4>2, <5>1 DEF Starts
      <4>3. CASE n # 0
        <5>1. 1 \in 1 .. n /\ L + 1 = 1
          BY <3>0, <4>1, <4>3
        <5>2. Stream'[1] = <<k, 1>> /\ <<k, 1>> # Newline
          BY <3>0, <3>1, <5>1 DEF Newline
        <5>. QED
          BY <5>2 DEF Starts
      <4>. QED
        BY <4>2, <4>3
    <3>. QED
      BY <3>2, <3>3
  <2>5. debt' \in {0, 1} /\ debt' <= debt
    BY <2>4
  <2>. HIDE DEF debt
  <2>6. Cardinality(Damaged') + debt' <= drops'
    BY <1>1, <2>1, <2>3, <2>5
  <2>. QED
    BY <2>6 DEF DamagePaid, debt
<1>5. CASE Queueing
  <2>1. PICK c \in 1 .. Len(Stream), q \in Seq(Bytes) :
          /\ \A i \in 1 .. c : Stream[i] = Newline <=> i = c
          /\ Len(q) = c - 1 /\ \A i \in 1 .. c - 1 : q[i] = Stream[i]
          /\ queued' = Append(queued, q)
          /\ Stream' = SubSeq(Stream, c + 1, Len(Stream))
          /\ UNCHANGED <<lengths, drops>>
    BY <1>5 DEF Queueing
  <2>2. /\ queued \in Seq(Seq(Bytes)) /\ N \in Nat /\ DOMAIN queued = 1 .. N
        /\ c \in 0 .. Len(Stream) /\ c \in Nat /\ c \in DOMAIN Stream /\ c \in 1 .. c
    BY StreamTypes
  <2>3. /\ DOMAIN queued' = 1 .. N + 1 /\ queued'[N + 1] = q
        /\ \A i \in 1 .. N : queued'[i] = queued[i]
    BY <2>1, <2>2, AppendProperties, LenProperties
  <2>4. Damaged' \subseteq Damaged \union {N + 1}
    <3>. SUFFICES ASSUME NEW i \in 1 .. N + 1, i # N + 1,
                         ~ \E k \in DOMAIN lengths : queued'[i] = Body(k)
                  PROVE  i \in Damaged
      BY <2>1, <2>3 DEF Damaged, Body, Line
    <3>1. i \in 1 .. N
      BY <2>2
    <3>. QED
      BY <2>2, <2>3, <3>1 DEF Damaged
  <2>5. AtLineStart => Damaged' \subseteq Damaged
    <3>. SUFFICES ASSUME AtLineStart PROVE N + 1 \notin Damaged'
      BY <2>4
    <3>1. Stream # <<>>
      BY <2>2, StreamTypes, EmptySeq
    <3>2. \E k \in DOMAIN lengths : q = Body(k)
      BY <2>1, <3>1, WholeIfStarts DEF AtLineStart
    <3>. QED
      BY <2>1, <2>3, <3>2 DEF Damaged, Body, Line
  <2>6. AtLineStart'
    <3>. SUFFICES ASSUME Stream' # <<>> PROVE Starts(lengths, Stream'[1])
      BY <2>1 DEF AtLineStart
    <3>1. /\ Stream' \in Seq(Bytes)
          /\ \A i \in DOMAIN Stream' : c + i \in DOMAIN Stream /\ Stream'[i] = Stream[c + i]
      BY <2>1, <2>2, StreamTypes, StretchRest DEF ReaderInv, StreamInv
    <3>2. 1 \in DOMAIN Stream'
      BY <3>1, EmptySeq, LenProperties
    <3>. QED
      BY <2>1, <2>2, <3>1, <3>2 DEF NewlinesEnd
  <2>7. /\ IsFiniteSet(Damaged \union {N + 1})
        /\ Cardinality(Damaged \union {N + 1}) = Cardinality(Damaged) + 1
    <3>1. N + 1 \notin Damaged
      BY <1>1, <2>2
    <3>. QED
      BY <1>1, <3>1, FS_AddElement
  <2>8. /\ Cardinality(Damaged') \in Nat /\ Cardinality(Damaged') <= Cardinality(Damaged) + debt
    <3>1. CASE AtLineStart
      <4>1. Cardinality(Damaged') \in Nat /\ Cardinality(Damaged') <= Cardinality(Damaged)
        BY <1>1, <2>5, <3>1, FS_Subset, FS_CardinalityType
      <4>. QED
        BY <1>1, <3>1, <4>1
    <3>2. CASE ~AtLineStart
      <4>1. Cardinality(Damaged') \in Nat /\ Cardinality(Damaged') <= Cardinality(Damaged) + 1
        BY <2>4, <2>7, FS_Subset, FS_CardinalityType
      <4>. QED
        BY <1>1, <3>2, <4>1
    <3>. QED
      BY <3>1, <3>2
  <2>. HIDE DEF debt
  <2>9. Cardinality(Damaged') + 0 <= drops'
    BY <1>1, <2>1, <2>8
  <2>. QED
    BY <2>6, <2>9 DEF DamagePaid
<1>. QED
  BY <1>2, <1>3, <1>4, <1>5

\* Where a line of n bytes ends that begins behind a.
LEMMA LineEnds ==
  ASSUME NEW a \in Nat, NEW n \in Nat, NEW b \in Nat, NEW L \in Nat,
         b = a + (n + 1), b <= L
  PROVE  b \in 1 .. L /\ \A i \in 1 .. n : a + i \in 1 .. L
PROOF
  OBVIOUS

\* The same when c bytes have gone.
LEMMA LineMoves ==
  ASSUME NEW a \in Nat, NEW n \in Nat, NEW b \in Nat, NEW L \in Nat, NEW c \in Nat,
         b = a + (n + 1), b <= L, c <= a
  PROVE  /\ b - c = (a - c) + (n + 1) /\ b - c \in 1 .. L - c /\ c + (b - c) = b
         /\ \A i \in 1 .. n : (a - c) + i \in 1 .. L - c /\ c + ((a - c) + i) = a + i
PROOF
  OBVIOUS

\* A line is added to the whole lines.
LEMMA WholeLinesGrow ==
  ASSUME ReaderInv, NEW n \in Lengths, WriteLine(n), NEW m \in 0 .. Len(lengths),
         NEW P \in [m .. Len(lengths) -> Nat], WholeLines(lengths, Stream, m, P)
  PROVE  \E Q \in [m .. Len(lengths') -> Nat] : WholeLines(lengths', Stream', m, Q)
PROOF
<1>. DEFINE N == Len(lengths)
            L == Len(Stream)
            Q == [k \in m .. N + 1 |-> IF k = N + 1 THEN L + (n + 1) ELSE P[k]]
<1>1. /\ n \in Nat /\ N \in Nat /\ L \in Nat /\ m \in Nat /\ m <= N
      /\ Len(lengths') = N + 1 /\ lengths'[N + 1] = n
      /\ DOMAIN lengths = 1 .. N /\ \A k \in 1 .. N : lengths'[k] = lengths[k]
      /\ \A k \in 1 .. N : lengths[k] \in Nat
  <2>1. lengths' = Append(lengths, n)
    BY DEF WriteLine
  <2>2. /\ n \in Nat /\ Len(lengths') = N + 1 /\ lengths'[N + 1] = n
        /\ \A k \in DOMAIN lengths : lengths'[k] = lengths[k]
    BY <2>1, LinesStay
  <2>3. /\ N \in Nat /\ L \in Nat /\ DOMAIN lengths = 1 .. N
        /\ \A k \in DOMAIN lengths : lengths[k] \in Nat
    BY StreamTypes
  <2>4. m \in Nat /\ m <= N
    BY <2>3
  <2>. QED
    BY <2>2, <2>3, <2>4
<1>2. /\ Len(Stream') = L + (n + 1)
      /\ \A i \in 1 .. L : Stream'[i] = Stream[i]
      /\ \A i \in 1 .. n : Stream'[L + i] = <<N + 1, i>>
      /\ Stream'[L + (n + 1)] = Newline
  BY WrittenStream DEF ReaderInv
<1>3. /\ P[m] = 0 /\ P[N] = L
      /\ \A j, k \in m .. N : j <= k => P[j] <= P[k]
      /\ \A k \in m + 1 .. N :
           /\ P[k] = P[k - 1] + (lengths[k] + 1)
           /\ \A i \in 1 .. lengths[k] : Stream[P[k - 1] + i] = <<k, i>>
           /\ Stream[P[k]] = Newline
  BY DEF WholeLines
<1>. HIDE DEF N, L
<1>4. /\ \A k \in m .. N : k # N + 1 /\ k \in m .. N + 1 /\ P[k] \in Nat
      /\ N + 1 \in m .. N + 1 /\ N \in m .. N
      /\ \A k \in m .. N + 1 : k \in m .. N \/ k = N + 1
  BY <1>1 DEF N
<1>5. Q \in [m .. N + 1 -> Nat]
  BY <1>1, <1>4
<1>6. Q[N + 1] = L + (n + 1) /\ \A k \in m .. N : Q[k] = P[k]
  BY <1>4
<1>. HIDE DEF Q
<1>7. \A j \in m .. N : P[j] <= L
  BY <1>1, <1>3, <1>4
<1>8. ASSUME NEW j \in m .. N + 1, NEW k \in m .. N + 1, j <= k
      PROVE  Q[j] <= Q[k]
  <2>1. CASE k \in m .. N
    <3>1. j \in m .. N
      BY <1>1, <1>8, <2>1
    <3>. QED
      BY <1>3, <1>6, <1>8, <2>1, <3>1
  <2>2. CASE k = N + 1 /\ j \in m .. N
    BY <1>1, <1>4, <1>6, <1>7, <2>2
  <2>3. CASE k = N + 1 /\ j = N + 1
    BY <1>1, <1>6, <2>3
  <2>. QED
    BY <1>4, <2>1, <2>2, <2>3
<1>9. ASSUME NEW k \in m + 1 .. N + 1
      PROVE  /\ Q[k] = Q[k - 1] + (lengths'[k] + 1)
             /\ \A i \in 1 .. lengths'[k] : Stream'[Q[k - 1] + i] = <<k, i>>
             /\ Stream'[Q[k]] = Newline
  <2>1. CASE k = N + 1
    <3>1. k - 1 = N /\ k - 1 \in m .. N /\ Q[k - 1] = L
      BY <1>1, <1>3, <1>4, <1>6, <2>1
    <3>. QED
      BY <1>1, <1>2, <1>6, <2>1, <3>1
  <2>2. CASE k \in m + 1 .. N
    <3>1. k \in m .. N /\ k - 1 \in m .. N /\ k \in 1 .. N
      BY <1>1, <2>2
    <3>2. Q[k] = P[k] /\ Q[k - 1] = P[k - 1] /\ lengths'[k] = lengths[k]
      BY <1>1, <1>6, <3>1
    <3>3. /\ P[k] \in Nat /\ P[k - 1] \in Nat /\ lengths[k] \in Nat /\ P[k] <= L
      BY <1>1, <1>4, <1>7, <3>1
    <3>4. P[k] = P[k - 1] + (lengths[k] + 1)
      BY <1>3, <2>2
    <3>5. P[k] \in 1 .. L /\ \A i \in 1 .. lengths[k] : P[k - 1] + i \in 1 .. L
      BY <1>1, <3>3, <3>4, LineEnds
    <3>6. Stream[P[k]] = Newline /\ \A i \in 1 .. lengths[k] : Stream[P[k - 1] + i] = <<k, i>>
      BY <1>3, <2>2
    <3>7. Stream'[P[k]] = Newline /\ \A i \in 1 .. lengths[k] : Stream'[P[k - 1] + i] = <<k, i>>
      BY <1>2, <3>5, <3>6
    <3>. QED
      BY <3>2, <3>4, <3>7
  <2>. QED
    BY <1>1, <2>1, <2>2
<1>10. Q[m] = 0 /\ Q[N + 1] = Len(Stream')
  <2>1. m \in m .. N
    BY <1>1
  <2>. QED
    BY <1>2, <1>3, <1>6, <2>1
<1>11. Len(lengths') = N + 1
  BY <1>1
<1>12. WholeLines(lengths', Stream', m, Q)
  BY <1>8, <1>9, <1>10, <1>11, Zenon DEF WholeLines
<1>. QED
  BY <1>5, <1>11, <1>12

\* The first of the whole lines is cut off, up to the first newline.
LEMMA WholeLinesShrink ==
  ASSUME ReaderInv, lengths' = lengths,
         NEW c \in 1 .. Len(Stream), \A i \in 1 .. c : Stream[i] = Newline <=> i = c,
         Stream' = SubSeq(Stream, c + 1, Len(Stream)), NEW m \in 0 .. Len(lengths),
         NEW P \in [m .. Len(lengths) -> Nat], WholeLines(lengths, Stream, m, P)
  PROVE  /\ m + 1 \in DOMAIN lengths /\ c = lengths[m + 1] + 1
         /\ \A i \in 1 .. lengths[m + 1] : Stream[i] = <<m + 1, i>>
         /\ \E Q \in [m + 1 .. Len(lengths) -> Nat] : WholeLines(lengths, Stream', m + 1, Q)
PROOF
<1>. DEFINE N == Len(lengths)
            L == Len(Stream)
            Q == [k \in m + 1 .. N |-> P[k] - c]
<1>0. P \in [m .. N -> Nat]
  OBVIOUS
<1>1. /\ N \in Nat /\ L \in Nat /\ m \in Nat /\ m <= N /\ c \in Nat /\ c # 0 /\ c <= L
      /\ DOMAIN lengths = 1 .. N /\ \A k \in 1 .. N : lengths[k] \in Nat
  BY StreamTypes
<1>2. /\ P[m] = 0 /\ P[N] = L
      /\ \A j, k \in m .. N : j <= k => P[j] <= P[k]
      /\ \A k \in m + 1 .. N :
           /\ P[k] = P[k - 1] + (lengths[k] + 1)
           /\ \A i \in 1 .. lengths[k] : Stream[P[k - 1] + i] = <<k, i>>
           /\ Stream[P[k]] = Newline
  BY DEF WholeLines
<1>3. /\ Len(Stream') = L - c /\ L - c \in Nat
      /\ \A i \in 1 .. L - c : Stream'[i] = Stream[c + i]
  <2>1. Stream \in Seq(Bytes) /\ c + 1 \in Int
    BY <1>1, StreamTypes
  <2>2. \A i \in c + 1 .. L : Stream[i] \in Bytes
    BY <1>1, <2>1, ElementOfSeq
  <2>3. /\ Len(Stream') = IF c + 1 <= L THEN L - (c + 1) + 1 ELSE 0
        /\ \A i \in 1 .. L - (c + 1) + 1 : Stream'[i] = Stream[(c + 1) + i - 1]
    BY <1>1, <2>1, <2>2, SubSeqProperties
  <2>. HIDE DEF L
  <2>4. L - (c + 1) + 1 = L - c /\ L - c \in Nat
        /\ (IF c + 1 <= L THEN L - (c + 1) + 1 ELSE 0) = L - c
    BY <1>1
  <2>5. \A i \in 1 .. L - c : (c + 1) + i - 1 = c + i
    BY <1>1
  <2>. QED
    BY <2>3, <2>4, <2>5
<1>. HIDE DEF N, L
<1>4. m # N
  BY <1>1, <1>2
<1>5. /\ m + 1 \in m + 1 .. N /\ m + 1 \in 1 .. N /\ (m + 1) - 1 = m
      /\ \A k \in m + 1 .. N : k \in m .. N
      /\ \A k \in m .. N : P[k] \in Nat
      /\ lengths[m + 1] \in Nat
  <2>1. /\ m + 1 \in m + 1 .. N /\ m + 1 \in 1 .. N /\ (m + 1) - 1 = m
        /\ \A k \in m + 1 .. N : k \in m .. N
    BY <1>1, <1>4
  <2>2. \A k \in m .. N : P[k] \in Nat
    BY <1>0
  <2>. QED
    BY <1>1, <2>1, <2>2
<1>6. /\ P[m + 1] = lengths[m + 1] + 1
      /\ Stream[P[m + 1]] = Newline
      /\ \A i \in 1 .. lengths[m + 1] : Stream[i] = <<m + 1, i>>
  <2>1. /\ P[m + 1] = P[(m + 1) - 1] + (lengths[m + 1] + 1)
        /\ \A i \in 1 .. lengths[m + 1] : Stream[P[(m + 1) - 1] + i] = <<m + 1, i>>
        /\ Stream[P[m + 1]] = Newline
    BY <1>2, <1>5
  <2>2. P[(m + 1) - 1] = 0
    BY <1>2, <1>5
  <2>3. \A i \in 1 .. lengths[m + 1] : 0 + i = i
    BY <1>5
  <2>4. 0 + (lengths[m + 1] + 1) = lengths[m + 1] + 1
    BY <1>5
  <2>. QED
    BY <2>1, <2>2, <2>3, <2>4
<1>7. c = P[m + 1]
  <2>1. CASE P[m + 1] < c
    <3>1. P[m + 1] \in 1 .. c
      BY <1>1, <1>5, <1>6, <2>1
    <3>. QED
      BY <1>1, <1>6, <3>1
  <2>2. CASE c < P[m + 1]
    <3>1. c \in 1 .. lengths[m + 1]
      BY <1>1, <1>5, <1>6, <2>2
    <3>2. Stream[c] = <<m + 1, c>> /\ Stream[c] = Newline
      BY <1>1, <1>6, <3>1
    <3>. QED
      BY <1>1, <3>2 DEF Newline
  <2>. QED
    BY <1>1, <1>5, <1>6, <2>1, <2>2
<1>8. \A k \in m + 1 .. N : P[k] \in Nat /\ c <= P[k] /\ P[k] <= L
  <2>1. \A k \in m + 1 .. N : m + 1 <= k /\ k <= N /\ N \in m .. N /\ m + 1 \in m .. N
    BY <1>1, <1>5
  <2>. QED
    BY <1>2, <1>5, <1>7, <2>1
<1>9. Q \in [m + 1 .. N -> Nat] /\ \A k \in m + 1 .. N : Q[k] = P[k] - c
  BY <1>1, <1>8
<1>. HIDE DEF Q
<1>10. ASSUME NEW j \in m + 1 .. N, NEW k \in m + 1 .. N, j <= k
       PROVE  Q[j] <= Q[k]
  <2>1. P[j] <= P[k] /\ P[j] \in Nat /\ P[k] \in Nat
    BY <1>2, <1>5, <1>10
  <2>2. P[j] - c <= P[k] - c
    BY <1>1, <2>1
  <2>. QED
    BY <1>9, <2>2
<1>11. ASSUME NEW k \in (m + 1) + 1 .. N
       PROVE  /\ Q[k] = Q[k - 1] + (lengths[k] + 1)
              /\ \A i \in 1 .. lengths[k] : Stream'[Q[k - 1] + i] = <<k, i>>
              /\ Stream'[Q[k]] = Newline
  <2>1. k \in m + 1 .. N /\ k - 1 \in m + 1 .. N /\ k \in 1 .. N
    BY <1>1
  <2>2. /\ P[k] \in Nat /\ P[k - 1] \in Nat /\ c <= P[k - 1] /\ P[k] <= L
        /\ lengths[k] \in Nat
    BY <1>1, <1>8, <2>1
  <2>3. Q[k] = P[k] - c /\ Q[k - 1] = P[k - 1] - c
    BY <1>9, <2>1
  <2>4. /\ P[k] = P[k - 1] + (lengths[k] + 1)
        /\ \A i \in 1 .. lengths[k] : Stream[P[k - 1] + i] = <<k, i>>
        /\ Stream[P[k]] = Newline
    BY <1>2, <2>1
  <2>5. /\ Q[k] = Q[k - 1] + (lengths[k] + 1)
        /\ Q[k] \in 1 .. L - c /\ c + Q[k] = P[k]
        /\ \A i \in 1 .. lengths[k] :
             Q[k - 1] + i \in 1 .. L - c /\ c + (Q[k - 1] + i) = P[k - 1] + i
    <3>. DEFINE a == P[k - 1]
                b == P[k]
                n == lengths[k]
    <3>1. /\ a \in Nat /\ b \in Nat /\ n \in Nat /\ c \in Nat /\ L \in Nat
          /\ b = a + (n + 1) /\ b <= L /\ c <= a
      BY <1>1, <2>2, <2>4
    <3>. HIDE DEF a, b, n
    <3>2. /\ b - c = (a - c) + (n + 1) /\ b - c \in 1 .. L - c /\ c + (b - c) = b
          /\ \A i \in 1 .. n : (a - c) + i \in 1 .. L - c /\ c + ((a - c) + i) = a + i
      BY <3>1, LineMoves
    <3>. QED
      BY <2>3, <3>2 DEF a, b, n
  <2>. QED
    BY <1>3, <2>4, <2>5
<1>12. Q[m + 1] = 0 /\ Q[N] = L - c
  <2>1. N \in m + 1 .. N /\ c - c = 0
    BY <1>1, <1>5
  <2>2. Q[m + 1] = P[m + 1] - c /\ Q[N] = P[N] - c
    BY <1>5, <1>9, <2>1
  <2>. QED
    BY <1>2, <1>7, <2>1, <2>2
<1>13. WholeLines(lengths, Stream', m + 1, Q)
  BY <1>3, <1>10, <1>11, <1>12 DEF WholeLines, N
<1>. QED
  BY <1>1, <1>5, <1>6, <1>7, <1>9, <1>13 DEF N

\* Nothing is lost by a step that does not give up.
LEMMA NothingLostStep ==
  ASSUME ReaderInv, NothingLost, LinesFit,
         \/ Moving \/ Queueing \/ Losing \/ \E n \in Lengths : WriteLine(n)
  PROVE  NothingLost'
PROOF
<1>. DEFINE m == Len(queued)
            N == Len(lengths)
<1>1. CASE Moving
  BY <1>1 DEF Moving, NothingLost, WholeLines, LinesFit, Body, Line
<1>2. CASE Losing
  <2>1. drops' # 0
    BY <1>2, StreamTypes DEF Losing
  <2>. QED
    BY <2>1 DEF NothingLost
<1>3. SUFFICES ASSUME drops' = 0, Queueing \/ \E n \in Lengths : WriteLine(n)
               PROVE  /\ Len(queued') <= Len(lengths')
                      /\ \A k \in 1 .. Len(queued') : queued'[k] = Body(k)'
                      /\ \E P \in [Len(queued') .. Len(lengths') -> Nat] :
                           WholeLines(lengths', Stream', Len(queued'), P)
  BY <1>1, <1>2 DEF NothingLost
<1>4. drops = 0
  BY <1>3 DEF Queueing, WriteLine
<1>5. /\ m \in Nat /\ N \in Nat /\ m \in 0 .. N /\ m <= N /\ DOMAIN lengths = 1 .. N
      /\ \A k \in 1 .. m : queued[k] = Body(k)
      /\ \E P \in [m .. N -> Nat] : WholeLines(lengths, Stream, m, P)
  BY <1>4, StreamTypes DEF NothingLost
<1>6. PICK P \in [m .. N -> Nat] : WholeLines(lengths, Stream, m, P)
  BY <1>5
<1>7. ASSUME NEW n \in Lengths, WriteLine(n)
      PROVE  /\ Len(queued') <= Len(lengths')
             /\ \A k \in 1 .. Len(queued') : queued'[k] = Body(k)'
             /\ \E Q \in [Len(queued') .. Len(lengths') -> Nat] :
                  WholeLines(lengths', Stream', Len(queued'), Q)
  <2>1. lengths' = Append(lengths, n) /\ queued' = queued
    BY <1>7 DEF WriteLine
  <2>2. /\ Len(lengths') = N + 1 /\ \A k \in 1 .. m : lengths'[k] = lengths[k]
    <3>1. \A k \in 1 .. m : k \in 1 .. N
      BY <1>5
    <3>. QED
      BY <1>5, <2>1, <3>1, LinesStay
  <2>3. \E Q \in [m .. Len(lengths') -> Nat] : WholeLines(lengths', Stream', m, Q)
    BY <1>5, <1>6, <1>7, WholeLinesGrow
  <2>4. m <= N + 1
    BY <1>5
  <2>5. \A k \in 1 .. m : queued[k] = Body(k)'
    BY <1>5, <2>2 DEF Body, Line
  <2>. QED
    BY <2>1, <2>2, <2>3, <2>4, <2>5
<1>8. CASE Queueing
  <2>1. PICK c \in 1 .. Len(Stream), q \in Seq(Bytes) :
          /\ \A i \in 1 .. c : Stream[i] = Newline <=> i = c
          /\ Len(q) = c - 1 /\ \A i \in 1 .. c - 1 : q[i] = Stream[i]
          /\ queued' = Append(queued, q)
          /\ Stream' = SubSeq(Stream, c + 1, Len(Stream))
          /\ UNCHANGED <<lengths, drops>>
    BY <1>8 DEF Queueing
  <2>2. /\ m + 1 \in DOMAIN lengths /\ c = lengths[m + 1] + 1
        /\ \A i \in 1 .. lengths[m + 1] : Stream[i] = <<m + 1, i>>
        /\ \E Q \in [m + 1 .. N -> Nat] : WholeLines(lengths, Stream', m + 1, Q)
    BY <1>5, <1>6, <2>1, WholeLinesShrink
  <2>3. /\ Len(queued') = m + 1 /\ queued'[m + 1] = q
        /\ \A k \in 1 .. m : queued'[k] = queued[k]
    BY <2>1, StreamTypes, AppendProperties
  <2>4. q = Body(m + 1)
    <3>1. lengths[m + 1] \in Nat
      BY <2>2, StreamTypes
    <3>2. c - 1 = lengths[m + 1]
      BY <2>2, <3>1
    <3>3. /\ DOMAIN q = 1 .. lengths[m + 1]
          /\ \A i \in 1 .. lengths[m + 1] : q[i] = <<m + 1, i>>
      BY <2>1, <2>2, <3>2, LenProperties
    <3>4. q = [i \in DOMAIN q |-> q[i]]
      OBVIOUS
    <3>. QED
      BY <3>3, <3>4 DEF Body, Line
  <2>5. \A k \in 1 .. m + 1 : k \in 1 .. m \/ k = m + 1
    BY <1>5
  <2>6. \A k \in 1 .. m + 1 : queued'[k] = Body(k)'
    BY <1>5, <2>1, <2>3, <2>4, <2>5 DEF Body, Line
  <2>7. m + 1 <= N
    BY <1>5, <2>2
  <2>. QED
    BY <2>1, <2>2, <2>3, <2>6, <2>7
<1>. QED
  BY <1>3, <1>7, <1>8

\* The beginning: nothing written, nothing damaged.
LEMMA InitFit == Init => FitInv
PROOF
<1>. SUFFICES ASSUME Init PROVE FitInv
  OBVIOUS
<1>1. ReaderInv
  BY InitReader
<1>2. /\ Stream = <<>> /\ lengths = <<>> /\ queued = <<>> /\ drops = 0 /\ pc = "poll"
  BY DEF Init, Stream
<1>3. /\ DOMAIN Stream = {} /\ Damaged = {} /\ Len(Stream) = 0 /\ Len(lengths) = 0
      /\ Len(queued) = 0
  BY <1>2 DEF Damaged
<1>4. NewlinesEnd /\ PieceGetsItsEnd /\ AtLineStart
  BY <1>2, <1>3 DEF NewlinesEnd, PieceGetsItsEnd, AtLineStart
<1>5. DamagePaid
  BY <1>2, <1>3, <1>4, FS_EmptySet DEF DamagePaid
<1>6. NothingLost
  <2>. DEFINE P == [k \in 0 .. 0 |-> 0]
  <2>1. P \in [0 .. 0 -> Nat] /\ P[0] = 0
    OBVIOUS
  <2>. HIDE DEF P
  <2>2. WholeLines(lengths, Stream, 0, P)
    BY <1>3, <2>1 DEF WholeLines
  <2>. QED
    BY <1>2, <1>3, <2>1, <2>2 DEF NothingLost
<1>. QED
  BY <1>1, <1>4, <1>5, <1>6 DEF FitInv

\* The cache is not empty when a parse begins only if a read brings its newline.
LEMMA PieceStep ==
  ASSUME ReaderInv, PieceGetsItsEnd, LinesFit, [Next]_vars
  PROVE  PieceGetsItsEnd'
PROOF
<1>1. CASE Read
  BY <1>1, ReadBringsNewline DEF Read, PieceGetsItsEnd
<1>2. CASE JoinLine
  BY <1>2 DEF JoinLine, GiveUp, PieceGetsItsEnd
<1>3. CASE QueueLine
  BY <1>3 DEF QueueLine, GiveUp, CacheAfterLine, PieceGetsItsEnd
<1>4. CASE KeepRest
  BY <1>4 DEF KeepRest, PieceGetsItsEnd
<1>5. CASE UNCHANGED <<read_buffer, cache_buffer, pc>>
  BY <1>5 DEF PieceGetsItsEnd, Newlines
<1>. QED
  BY <1>1, <1>2, <1>3, <1>4, <1>5 DEF Next, WriteLine, vars

\* The invariant of a buffer that the lines fit (queral.c:556-618).
THEOREM FitInvariant == Spec => []FitInv
PROOF
<1>1. FitInv /\ [Next]_vars => FitInv'
  <2>. SUFFICES ASSUME FitInv, [Next]_vars PROVE FitInv'
    OBVIOUS
  <2>0. ReaderInv
    BY DEF FitInv
  <2>1. ReaderInv'
    BY <2>0, ReaderStep
  <2>2. LinesFit' => LinesFit
    <3>1. ASSUME NEW n \in Lengths, WriteLine(n) PROVE LinesFit' => LinesFit
      BY <2>0, <3>1, LinesStay DEF WriteLine
    <3>2. CASE lengths' = lengths
      BY <3>2 DEF LinesFit
    <3>. QED
      BY <3>1, <3>2 DEF Next, Read, JoinLine, QueueLine, KeepRest, vars
  <2>3. ASSUME LinesFit'
        PROVE  NewlinesEnd' /\ PieceGetsItsEnd' /\ DamagePaid' /\ NothingLost'
    <3>1. LinesFit /\ NewlinesEnd /\ PieceGetsItsEnd /\ DamagePaid /\ NothingLost
      BY <2>2, <2>3 DEF FitInv
    <3>2. Moving \/ Queueing \/ Losing \/ \E n \in Lengths : WriteLine(n)
      BY <2>0, <3>1, ReaderSteps
    <3>. QED
      BY <2>0, <3>1, <3>2, NewlinesEndStep, PieceStep, DamageStep, NothingLostStep
  <2>. QED
    BY <2>1, <2>3 DEF FitInv
<1>. QED
  BY <1>1, InitFit, PTL DEF Spec

\* With lines that fit, every early return of the callback damages one line at
\* most: the others are as they were written, or missing (queral.c:577-579,
\* 593-596, 610-613).
THEOREM OneDamagedPerDrop == Spec => []DamageBounded
PROOF
<1>1. FitInv => DamageBounded
  <2>. SUFFICES ASSUME FitInv, LinesFit PROVE Cardinality(Damaged) <= drops
    BY DEF DamageBounded
  <2>. DEFINE debt == IF AtLineStart THEN 0 ELSE 1
  <2>1. /\ Cardinality(Damaged) \in Nat /\ drops \in Nat /\ debt \in {0, 1}
        /\ Cardinality(Damaged) + debt <= drops
    BY DamagedFinite, StreamTypes DEF FitInv, DamagePaid
  <2>. HIDE DEF debt
  <2>. QED
    BY <2>1
<1>. QED
  BY <1>1, FitInvariant, PTL

\* As long as the callback has not given up, the lines that fit come out whole
\* and in order, however read() cuts them (queral.c:571-614).
THEOREM NothingIsLost == Spec => []Lossless
PROOF
<1>1. FitInv => Lossless
  <2>. DEFINE w == [k \in DOMAIN lengths |-> Body(k)]
              m == Len(queued)
  <2>. SUFFICES ASSUME FitInv, drops = 0, LinesFit PROVE IsPrefix(queued, w)
    BY DEF Lossless
  <2>1. /\ queued \in Seq(Seq(Bytes)) /\ m \in Nat /\ DOMAIN queued = 1 .. m
        /\ Len(lengths) \in Nat /\ DOMAIN lengths = 1 .. Len(lengths)
    BY StreamTypes DEF FitInv
  <2>2. m <= Len(lengths) /\ \A k \in 1 .. m : queued[k] = Body(k)
    BY DEF FitInv, NothingLost
  <2>3. Len(w) = Len(lengths)
    BY <2>1
  <2>4. \A k \in 1 .. m : w[k] = queued[k] /\ queued[k] \in Seq(Bytes)
    <3>1. \A k \in 1 .. m : k \in DOMAIN lengths /\ k \in DOMAIN queued
      BY <2>1, <2>2
    <3>. QED
      BY <2>1, <2>2, <3>1, ElementOfSeq
  <2>. HIDE DEF w
  <2>5. SubSeq(queued, 1, m) = SubSeq(w, 1, m)
    <3>. DEFINE a == SubSeq(queued, 1, m)
                b == SubSeq(w, 1, m)
                M == IF 1 <= m THEN m - 1 + 1 ELSE 0
    <3>1. /\ a \in Seq(Seq(Bytes)) /\ Len(a) = M
          /\ \A i \in 1 .. m - 1 + 1 : a[i] = queued[1 + i - 1]
      BY <2>1, <2>4, SubSeqProperties
    <3>2. /\ b \in Seq(Seq(Bytes)) /\ Len(b) = M
          /\ \A i \in 1 .. m - 1 + 1 : b[i] = w[1 + i - 1]
      BY <2>1, <2>4, SubSeqProperties
    <3>. HIDE DEF a, b
    <3>3. M = m /\ m - 1 + 1 = m /\ \A i \in 1 .. m : 1 + i - 1 = i
      BY <2>1
    <3>4. \A i \in 1 .. m : a[i] = b[i]
      BY <2>4, <3>1, <3>2, <3>3
    <3>5. Len(a) = m /\ Len(b) = m
      BY <3>1, <3>2, <3>3
    <3>6. a = b
      BY <3>1, <3>2, <3>4, <3>5, SeqEqual
    <3>. QED
      BY <3>6 DEF a, b
  <2>. QED
    BY <2>2, <2>3, <2>5 DEF IsPrefix
<1>. QED
  BY <1>1, FitInvariant, PTL
=============================================================================
