-------------------------- MODULE ActionTableProofs -------------------------
(***************************************************************************)
(* Proofs about the table of caches, for every number of files, of pages   *)
(* and of names, and for every set of sizes that malloc rounds up.         *)
(*                                                                         *)
(* A refused file leaves its slot NULL, and the walks stop there: what     *)
(* they reach are the slots of the files before the first refused one, and *)
(* the slot past the end when there is no refused file.  The invariant     *)
(* says of these slots what they hold, whatever the later files do to the  *)
(* rest of the table.                                                      *)
(***************************************************************************)
EXTENDS ActionTable, SequenceTheorems, FiniteSetTheorems, WellFoundedInduction, TLAPS

\* What each phase finds.
Phases ==
  /\ phase \in {"list", "create"} => table = <<>> /\ index = 0
  /\ phase = "list" => dir = <<>>
  /\ phase \in {"list", "create", "load"} => asked = Null
  /\ phase = "load" => table # <<>>
  /\ phase = "serve" => (table = <<>> <=> dir = <<>>)
  /\ phase = "serve" /\ table # <<>> => index = Len(dir)
  /\ dir = <<>> => table = <<>>

\* The slots of the files before the first refused one hold their caches.
CachesInPlace ==
  \A k \in 1 .. index : AllLoaded(k) => table[k - 1] = Loaded(dir[k])

\* The slot of the first refused file is NULL.
EndsAtRefused ==
  \A k \in 1 .. index :
    dir[k] = Refused /\ AllLoaded(k - 1) => table[k - 1] = Null

\* While all files are loaded, the slot after the last of them is NULL.
NextIsClear ==
  AllLoaded(index) /\ (index < Len(dir) \/ Len(dir) \in Slack)
    => table[index] = Null

\* Every text of the files loaded so far has fitted.
NoneOverran == \A k \in 1 .. index : ~Overruns(dir[k])

\* No cache is stored past the end.
NothingPastEnd == table[Len(dir)] \in {Null, Junk}

Filled ==
  phase \in {"load", "serve"} /\ table # <<>> =>
    CachesInPlace /\ EndsAtRefused /\ NextIsClear /\ NoneOverran /\ NothingPastEnd

\* The files that become a cache.
Cached == {f \in Kinds : Accepted(f) /\ ~Overruns(f)}

TableInv ==
  TypeOK /\ Phases /\ Filled /\ OnlyKnownMisuse /\ UpdatesAsConfigured

-----------------------------------------------------------------------------
(* What a file is loaded as.                                               *)

LEMMA NoEntries ==
  ASSUME NEW s \in Seq(Pages), Len(s) <= 0
  PROVE  s = <<>>
BY EmptySeq, LenProperties

\* The pages of a cache are URLs, no more than its entries: numbering the
\* complete entries puts each at a place of its own, and none stays free.
LEMMA CompletePages ==
  ASSUME NEW pages \in Seq(Pages \union {Incomplete})
  PROVE  Complete(pages) \in Seq(Pages) /\ Len(Complete(pages)) <= Len(pages)
PROOF
<1>. DEFINE L == Len(pages)
            C == {k \in DOMAIN pages : pages[k] # Incomplete}
            upTo(k) == {j \in C : j <= k}
            idx(k) == Cardinality(upTo(k))
            n == Cardinality(C)
            f == [k \in C |-> idx(k)]
<1>1. L \in Nat /\ C \in SUBSET (1 .. L) /\ \A k \in C : pages[k] \in Pages
  BY LenProperties
<1>. HIDE DEF C, L
<1>2. \A m \in Nat : IsFiniteSet(1 .. m) /\ Cardinality(1 .. m) = m
  BY FS_Interval
<1>3. IsFiniteSet(C) /\ n \in Nat /\ n <= L
  <2>1. IsFiniteSet(1 .. L) /\ Cardinality(1 .. L) = L
    BY <1>1, <1>2
  <2>. QED
    BY <1>1, <2>1, FS_Subset, FS_CardinalityType
<1>4. \A k \in C : /\ upTo(k) \in SUBSET C /\ k \in upTo(k)
                   /\ IsFiniteSet(upTo(k)) /\ idx(k) \in 1 .. n
  <2>. TAKE k \in C
  <2>1. upTo(k) \in SUBSET C /\ k \in upTo(k)
    BY <1>1
  <2>. HIDE DEF upTo
  <2>2. IsFiniteSet(upTo(k)) /\ idx(k) <= n /\ idx(k) \in Nat
    BY <1>3, <2>1, FS_Subset, FS_CardinalityType
  <2>3. idx(k) # 0
    BY <2>1, <2>2, FS_EmptySet
  <2>. QED
    BY <1>3, <2>1, <2>2, <2>3
<1>5. \A k, m \in C : k < m => idx(k) # idx(m)
  <2>. SUFFICES ASSUME NEW k \in C, NEW m \in C, k < m PROVE idx(k) # idx(m)
    OBVIOUS
  <2>1. upTo(k) \in SUBSET upTo(m) /\ m \in upTo(m) /\ m \notin upTo(k)
    <3>1. C \in SUBSET Nat
      BY <1>1
    <3>2. \A j \in C : j <= k => j <= m
      BY <3>1
    <3>3. m <= m /\ ~(m <= k)
      BY <3>1
    <3>. QED
      BY <3>2, <3>3
  <2>2. IsFiniteSet(upTo(m))
    BY <1>4
  <2>. HIDE DEF upTo
  <2>. QED
    BY <2>1, <2>2, FS_Subset
<1>. HIDE DEF idx, n
<1>6. f \in Injection(C, 1 .. n)
  <2>1. f \in [C -> 1 .. n]
    BY <1>4
  <2>2. \A k, m \in C : f[k] = f[m] => k = m
    <3>1. \A k, m \in C : k # m => k < m \/ m < k
      BY <1>1
    <3>. QED
      BY <1>5, <3>1
  <2>. QED
    BY <2>1, <2>2 DEF Injection, IsInjective
<1>7. f \in Surjection(C, 1 .. n)
  <2>1. IsFiniteSet(1 .. n) /\ Cardinality(1 .. n) = n
    BY <1>2, <1>3
  <2>. QED
    BY <1>3, <1>6, <2>1, FS_Injection DEF n
<1>8. \A j \in 1 .. n : \E k \in C : idx(k) = j
  BY <1>7 DEF Surjection
<1>9. Complete(pages) = [j \in 1 .. n |-> pages[CHOOSE k \in C : idx(k) = j]]
  BY DEF Complete, Kept, C, idx, n
<1>10. \A j \in 1 .. n : pages[CHOOSE k \in C : idx(k) = j] \in Pages
  BY <1>1, <1>8
<1>11. Complete(pages) \in Seq(Pages) /\ Len(Complete(pages)) = n
  BY <1>3, <1>9, <1>10
<1>. QED
  BY <1>3, <1>11 DEF L

\* What load_action stores, and what an UPDATE line makes of it (action.c:61-116,
\* config_utils.c:259-298, queral.c:492-512).
LEMMA LoadedCache ==
  ASSUME NEW f \in Cached
  PROVE  /\ Loaded(f) \in Slots
         /\ Loaded(f) \notin {Null, Junk}
         /\ Loaded(f).name = f.name
         /\ f.name \in CacheNames
         /\ Loaded(f).count > 0 /\ Loaded(f).list = NoList => Overfull(f)
         /\ Loaded(f).count = 0 \/ Loaded(f).list # NoList =>
              /\ (IF Loaded(f).count = 0 THEN <<>> ELSE Loaded(f).list)
                   = (IF f.variables = "listed" THEN Complete(f.pages) ELSE <<>>)
              /\ (IF f.variables = "listed" THEN Complete(f.pages) ELSE <<>>) \in Seq(Pages)
PROOF
<1>1. /\ f \in Kinds /\ Accepted(f) /\ ~Overruns(f)
      /\ f.name \in CacheNames
      /\ f.pages \in Seq(Pages \union {Incomplete, Overlong})
  BY TableAssumption DEF KindOK, Cached, Accepted
<1>2. Loaded(f) \notin {Null, Junk}
  BY <1>1, PointerAssumption
<1>3. Len(f.pages) \in Nat /\ <<>> \in Seq(Pages) /\ MaxUrls \in Nat
  BY <1>1, LenProperties, TableAssumption
<1>4. f.variables = "listed" /\ Len(f.pages) <= MaxUrls =>
        /\ Complete(f.pages) \in Seq(Pages)
        /\ Len(f.pages) = 0 => Complete(f.pages) = <<>>
  <2>. SUFFICES ASSUME f.variables = "listed", Len(f.pages) <= MaxUrls
                PROVE  /\ Complete(f.pages) \in Seq(Pages)
                       /\ Len(f.pages) = 0 => Complete(f.pages) = <<>>
    OBVIOUS
  <2>1. \A k \in 1 .. Len(f.pages) : f.pages[k] \in Pages \union {Incomplete}
    BY <1>1, LenProperties DEF Overruns, Range
  <2>2. f.pages \in Seq(Pages \union {Incomplete})
    BY <1>1, <2>1
  <2>3. Complete(f.pages) \in Seq(Pages) /\ Len(Complete(f.pages)) <= Len(f.pages)
    BY <2>2, CompletePages
  <2>. QED
    BY <1>3, <2>3, NoEntries
<1>. DEFINE n == Len(f.pages)
            c == Complete(f.pages)
            l == RefreshList(f.pages)
<1>5. l = IF n \in 1 .. MaxUrls THEN c ELSE NoList
  BY DEF RefreshList
<1>6. MaxUrls \in Nat /\ NoList \notin Seq(Pages)
  BY TableAssumption
<1>7. CASE f.variables = "listed"
  <2>1. Loaded(f) = [name |-> f.name, count |-> n, list |-> l]
    BY <1>7 DEF Loaded, Action
  <2>c. n <= MaxUrls => c \in Seq(Pages)
    BY <1>4, <1>7
  <2>n. n \in Nat
    BY <1>3
  <2>2. n > 0 /\ l = NoList => Overfull(f)
    <3>1. n > 0 /\ l = NoList => n > MaxUrls
      <4>. HIDE DEF n, c, l
      <4>. QED
        BY <1>5, <1>6, <2>c, <2>n
    <3>. QED
      BY <1>1, <1>7, <3>1 DEF Overfull
  <2>3. n = 0 \/ l # NoList =>
          (IF n = 0 THEN <<>> ELSE l) = c /\ c \in Seq(Pages)
    <3>1. n <= MaxUrls => c \in Seq(Pages) /\ (n = 0 => c = <<>>)
      BY <1>4, <1>7
    <3>2. n \in Nat
      BY <1>3
    <3>. HIDE DEF n, c, l
    <3>. QED
      BY <1>5, <1>6, <3>1, <3>2
  <2>4. Loaded(f) \in Slots
    <3>1. l \in Seq(Pages) \union {NoList}
      BY <1>3, <1>4, <1>5, <1>7
    <3>. HIDE DEF n, l
    <3>. QED
      BY <1>1, <1>3, <2>1, <3>1 DEF Slots, n
  <2>. HIDE DEF l
  <2>. QED
    BY <1>1, <1>2, <1>4, <1>7, <2>1, <2>2, <2>3, <2>4
<1>8. CASE f.variables # "listed"
  <2>1. Loaded(f) = [name |-> f.name, count |-> 0, list |-> NoList]
    BY <1>8 DEF Loaded, Action
  <2>. QED
    BY <1>1, <1>2, <1>3, <1>8, <2>1 DEF Slots
<1>. QED
  BY <1>1, <1>7, <1>8

-----------------------------------------------------------------------------
(* The walks.                                                              *)

\* A set of naturals has a least member.
LEMMA LeastNatural ==
  ASSUME NEW T \in SUBSET Nat, T # {}
  PROVE  \E n \in T : \A m \in T : n <= m
PROOF
<1>. DEFINE R == OpToRel(<, Nat)
<1>1. \E n \in T : \A m \in T : ~ (<<m, n>> \in R)
  BY NatLessThanWellFounded, WFMin, Zenon
<1>2. \A a, b \in Nat : a < b => <<a, b>> \in R
  BY DEF OpToRel
<1>. HIDE DEF R
<1>3. PICK n \in T : \A m \in T : ~ (<<m, n>> \in R)
  BY <1>1
<1>4. \A m \in T : ~(m < n)
  BY <1>2, <1>3
<1>. QED
  BY <1>4

\* The files before the first refused one, if any was refused.
LEMMA FirstRefused ==
  ASSUME NEW n \in Nat, ~AllLoaded(n)
  PROVE  \E m \in 1 .. n : dir[m] = Refused /\ AllLoaded(m - 1)
PROOF
<1>. DEFINE Bad == {m \in 1 .. n : dir[m] = Refused}
<1>1. Bad \in SUBSET Nat /\ Bad # {}
  BY DEF AllLoaded
<1>2. PICK m \in Bad : \A i \in Bad : m <= i
  <2>. HIDE DEF Bad
  <2>. QED
    BY <1>1, LeastNatural
<1>3. AllLoaded(m - 1)
  BY <1>2 DEF AllLoaded
<1>. QED
  BY <1>2, <1>3

\* The walks of find_action and destroy_actions reach the slots of the files
\* before the first refused one; past the end they come only when every file
\* was loaded and the array has no spare slot (action.c:84-116).
LEMMA WhatWalksReach ==
  ASSUME TypeOK, CachesInPlace, EndsAtRefused, NextIsClear, NoneOverran,
         NothingPastEnd, table # <<>>, dir # <<>>, index = Len(dir)
  PROVE  /\ DOMAIN table = 0 .. Len(dir) /\ Len(dir) \in Nat \ {0}
         /\ \A k \in 1 .. Len(dir) : k - 1 \in Reached <=> AllLoaded(k)
         /\ \A k \in 1 .. Len(dir) :
              AllLoaded(k) => /\ dir[k] \in Cached
                              /\ table[k - 1] = Loaded(dir[k])
         /\ Len(dir) \in Reached =>
              /\ table[Len(dir)] = Junk
              /\ Accepted(dir[Len(dir)]) /\ Len(dir) \notin Slack
PROOF
<1>. DEFINE D == Len(dir)
<1>1. /\ D \in Nat \ {0} /\ table \in [0 .. D -> Slots]
      /\ \A k \in 1 .. D : dir[k] \in Kinds
  <2>1. dir \in Seq(Kinds) /\ table \in [0 .. D -> Slots]
    BY DEF TypeOK
  <2>. QED
    BY <2>1, EmptySeq, LenProperties
<1>2. DOMAIN table = 0 .. D
  BY <1>1
<1>3. \A k \in 1 .. D :
        AllLoaded(k) => dir[k] \in Cached /\ table[k - 1] = Loaded(dir[k])
  <2>. TAKE k \in 1 .. D
  <2>. HAVE AllLoaded(k)
  <2>1. dir[k] # Refused
    BY <1>1 DEF AllLoaded
  <2>2. ~Overruns(dir[k])
    BY DEF NoneOverran
  <2>3. dir[k] \in Cached
    BY <1>1, <2>1, <2>2 DEF Cached, Accepted, Overruns
  <2>. QED
    BY <1>1, <2>3 DEF CachesInPlace
<1>4. \A h \in 0 .. D - 1 : AllLoaded(h + 1) => h \notin Holes
  <2>. TAKE h \in 0 .. D - 1
  <2>. HAVE AllLoaded(h + 1)
  <2>1. h + 1 \in 1 .. D /\ (h + 1) - 1 = h
    BY <1>1
  <2>2. table[h] # Null
    BY <1>3, <2>1, LoadedCache
  <2>. QED
    BY <2>2 DEF Holes
<1>5. \A k \in 0 .. D : AllLoaded(k) => \A h \in Holes : k <= h
  <2>. SUFFICES ASSUME NEW k \in 0 .. D, AllLoaded(k), NEW h \in Holes, ~(k <= h)
                PROVE FALSE
    OBVIOUS
  <2>1. h \in 0 .. D
    BY <1>2 DEF Holes
  <2>2. h \in 0 .. D - 1 /\ h + 1 <= k
    BY <1>1, <2>1
  <2>3. AllLoaded(h + 1)
    BY <1>1, <2>2 DEF AllLoaded
  <2>. QED
    BY <1>4, <2>2, <2>3
<1>6. \A k \in 0 .. D : ~AllLoaded(k) => \E h \in Holes : h \in 0 .. D - 1 /\ h + 1 <= k
  <2>. SUFFICES ASSUME NEW k \in 0 .. D, ~AllLoaded(k)
                PROVE  \E h \in Holes : h \in 0 .. D - 1 /\ h + 1 <= k
    OBVIOUS
  <2>1. PICK m \in 1 .. k : dir[m] = Refused /\ AllLoaded(m - 1)
    BY <1>1, FirstRefused
  <2>2. m \in 1 .. D /\ m - 1 \in 0 .. D - 1 /\ m - 1 \in 0 .. D /\ (m - 1) + 1 <= k
    BY <1>1
  <2>3. table[m - 1] = Null
    BY <2>1, <2>2 DEF EndsAtRefused
  <2>. QED
    BY <1>2, <2>2, <2>3 DEF Holes
<1>7. \A k \in 1 .. D : k - 1 \in Reached <=> AllLoaded(k)
  <2>. TAKE k \in 1 .. D
  <2>1. k \in 0 .. D /\ k - 1 \in 0 .. D /\ Holes \subseteq 0 .. D
    BY <1>1, <1>2 DEF Holes
  <2>2. CASE AllLoaded(k)
    <3>1. \A h \in Holes : k <= h /\ h \in 0 .. D
      BY <1>5, <2>1, <2>2
    <3>2. \A h \in Holes : k - 1 < h
      BY <1>1, <3>1
    <3>. QED
      BY <1>2, <2>1, <2>2, <3>2 DEF Reached
  <2>3. CASE ~AllLoaded(k)
    <3>1. PICK h \in Holes : h \in 0 .. D - 1 /\ h + 1 <= k
      BY <1>6, <2>1, <2>3
    <3>2. ~(k - 1 < h)
      BY <1>1, <3>1
    <3>. QED
      BY <2>3, <3>1, <3>2 DEF Reached
  <2>. QED
    BY <2>2, <2>3
<1>8. D \in Reached => table[D] = Junk /\ Accepted(dir[D]) /\ D \notin Slack
  <2>. HAVE D \in Reached
  <2>1. D \in 0 .. D /\ \A h \in Holes : D < h
    BY <1>1 DEF Reached
  <2>2. D \notin Holes /\ table[D] # Null
    <3>1. D \notin Holes
      BY <1>1, <2>1
    <3>. QED
      BY <1>2, <2>1, <3>1 DEF Holes
  <2>3. AllLoaded(D)
    <3>. SUFFICES ASSUME ~AllLoaded(D) PROVE FALSE
      OBVIOUS
    <3>1. PICK h \in Holes : h \in 0 .. D - 1
      BY <1>6, <2>1
    <3>2. ~(D < h)
      BY <1>1, <3>1
    <3>. QED
      BY <2>1, <3>1, <3>2
  <2>4. Accepted(dir[D])
    BY <1>1, <1>3, <2>3 DEF Cached
  <2>. QED
    BY <2>2, <2>3, <2>4 DEF NothingPastEnd, NextIsClear
<1>. QED
  BY <1>1, <1>2, <1>3, <1>7, <1>8

\* The same for a table in use.
LEMMA Serving ==
  ASSUME TableInv, phase = "serve", table # <<>>
  PROVE  /\ DOMAIN table = 0 .. Len(dir) /\ Len(dir) \in Nat \ {0}
         /\ \A k \in 1 .. Len(dir) : k - 1 \in Reached <=> AllLoaded(k)
         /\ \A k \in 1 .. Len(dir) :
              AllLoaded(k) => /\ dir[k] \in Cached
                              /\ table[k - 1] = Loaded(dir[k])
         /\ Len(dir) \in Reached =>
              /\ table[Len(dir)] = Junk
              /\ Accepted(dir[Len(dir)]) /\ Len(dir) \notin Slack
         /\ DOMAIN dir = 1 .. Len(dir)
         /\ dir # <<>>
PROOF
<1>1. dir \in Seq(Kinds) /\ dir # <<>> /\ index = Len(dir)
  BY DEF TableInv, TypeOK, Phases
<1>2. TypeOK /\ CachesInPlace /\ EndsAtRefused /\ NextIsClear /\ NoneOverran /\ NothingPastEnd
  BY DEF TableInv, Filled
<1>3. DOMAIN dir = 1 .. Len(dir)
  BY <1>1, LenProperties
<1>. QED
  BY <1>1, <1>2, <1>3, WhatWalksReach

\* A walk that meets a pointer nobody stored has left the table
\* (action.c:35, 84-85, 110-116).
LEMMA JunkIsPastEnd ==
  ASSUME TableInv, phase = "serve", NEW m \in Reached, table[m] = Junk
  PROVE  m = Len(dir) /\ dir # <<>> /\ Accepted(Last(dir)) /\ Len(dir) \notin Slack
PROOF
<1>1. table # <<>>
  BY DEF Reached
<1>2. m \in 0 .. Len(dir) /\ Len(dir) \in Nat \ {0}
  BY <1>1, Serving DEF Reached
<1>3. m = Len(dir)
  <2>. SUFFICES ASSUME m # Len(dir) PROVE FALSE
    OBVIOUS
  <2>1. m + 1 \in 1 .. Len(dir) /\ (m + 1) - 1 = m
    BY <1>2
  <2>2. AllLoaded(m + 1)
    BY <1>1, <2>1, Serving
  <2>3. dir[m + 1] \in Cached /\ table[m] = Loaded(dir[m + 1])
    BY <1>1, <2>1, <2>2, Serving
  <2>. QED
    BY <2>3, LoadedCache
<1>. QED
  BY <1>1, <1>3, Serving DEF Last

\* What find_action matches are the visible files of that name.
LEMMA MatchIsVisible ==
  ASSUME TableInv, phase = "serve", NEW n,  NEW k \in Matches(n)
  PROVE  /\ k + 1 \in DOMAIN dir /\ Visible(k + 1, n) /\ k \in Nat
         /\ dir[k + 1] \in Cached /\ table[k] = Loaded(dir[k + 1])
PROOF
<1>1. k \in Reached /\ table[k] # Junk /\ table[k].name = n
  BY DEF Matches
<1>2. table # <<>>
  BY <1>1 DEF Reached
<1>3. k \in 0 .. Len(dir) /\ Len(dir) \in Nat \ {0} /\ k # Len(dir)
  BY <1>1, <1>2, Serving DEF Reached
<1>4. k + 1 \in 1 .. Len(dir) /\ (k + 1) - 1 = k /\ k \in Nat
  BY <1>3
<1>5. AllLoaded(k + 1)
  BY <1>1, <1>2, <1>4, Serving
<1>6. dir[k + 1] \in Cached /\ table[k] = Loaded(dir[k + 1])
  BY <1>2, <1>4, <1>5, Serving
<1>7. dir[k + 1].name = n
  BY <1>1, <1>6, LoadedCache
<1>. QED
  BY <1>2, <1>4, <1>5, <1>6, <1>7, Serving DEF Visible

LEMMA VisibleIsMatch ==
  ASSUME TableInv, phase = "serve", NEW n,  NEW k \in DOMAIN dir, Visible(k, n)
  PROVE  k - 1 \in Matches(n) /\ k \in Nat
PROOF
<1>1. table # <<>>
  <2>1. dir # <<>>
    OBVIOUS
  <2>. QED
    BY <2>1 DEF TableInv, Phases
<1>2. k \in 1 .. Len(dir) /\ AllLoaded(k) /\ dir[k].name = n /\ k \in Nat
  BY <1>1, Serving DEF Visible
<1>3. k - 1 \in Reached /\ dir[k] \in Cached /\ table[k - 1] = Loaded(dir[k])
  BY <1>1, <1>2, Serving
<1>. QED
  BY <1>2, <1>3, LoadedCache DEF Matches

\* The first match is the first visible file of that name, which says what is
\* expected.
LEMMA ExpectedOfFirst ==
  ASSUME TableInv, phase = "serve", NEW n,  NEW k, FirstMatch(k, n)
  PROVE  /\ dir[k + 1] \in Cached /\ table[k] = Loaded(dir[k + 1])
         /\ k + 1 \in DOMAIN dir
         /\ Expected(n) = IF dir[k + 1].variables = "listed" THEN Complete(dir[k + 1].pages) ELSE <<>>
PROOF
<1>1. k \in Matches(n) /\ \A m \in Matches(n) : k <= m
  BY DEF FirstMatch
<1>2. /\ k + 1 \in DOMAIN dir /\ Visible(k + 1, n) /\ k \in Nat
      /\ dir[k + 1] \in Cached /\ table[k] = Loaded(dir[k + 1])
  BY <1>1, MatchIsVisible
<1>3. \A m \in DOMAIN dir : Visible(m, n) => k + 1 <= m
  <2>. TAKE m \in DOMAIN dir
  <2>. HAVE Visible(m, n)
  <2>1. m \in Nat /\ k <= m - 1
    BY <1>1, VisibleIsMatch
  <2>. QED
    BY <1>2, <2>1
<1>4. \A k1 \in DOMAIN dir :
        Visible(k1, n) /\ (\A m \in DOMAIN dir : Visible(m, n) => k1 <= m) => k1 = k + 1
  <2>. TAKE k1 \in DOMAIN dir
  <2>. HAVE Visible(k1, n) /\ (\A m \in DOMAIN dir : Visible(m, n) => k1 <= m)
  <2>1. k1 <= k + 1 /\ k + 1 <= k1 /\ k1 \in Nat
    BY <1>2, <1>3, VisibleIsMatch
  <2>. QED
    BY <1>2, <2>1
<1>. DEFINE c == CHOOSE k1 \in DOMAIN dir :
                  Visible(k1, n) /\ \A m \in DOMAIN dir : Visible(m, n) => k1 <= m
<1>5. c = k + 1
  BY <1>2, <1>3, <1>4
<1>6. \E j \in DOMAIN dir : Visible(j, n)
  BY <1>2
<1>7. Expected(n) = IF dir[c].variables = "listed" THEN Complete(dir[c].pages) ELSE <<>>
  BY <1>6, Zenon DEF Expected
<1>. HIDE DEF c
<1>. QED
  BY <1>2, <1>5, <1>7

LEMMA NothingExpected ==
  ASSUME TableInv, phase = "serve", NEW n, Matches(n) = {}
  PROVE  Expected(n) = <<>>
PROOF
<1>1. ~ \E k \in DOMAIN dir : Visible(k, n)
  BY VisibleIsMatch
<1>. QED
  BY <1>1 DEF Expected

-----------------------------------------------------------------------------
(* The steps.                                                              *)

LEMMA InitTable == Init => TableInv
PROOF
<1>. SUFFICES ASSUME Init PROVE TableInv
  OBVIOUS
<1>1. Len(dir) = 0 /\ dir \in Seq(Kinds) /\ written \in Seq(Pages)
  BY DEF Init
<1>2. TypeOK
  BY <1>1, TableAssumption DEF Init, TypeOK
<1>. QED
  BY <1>2 DEF Init, TableInv, Phases, Filled, OnlyKnownMisuse, UpdatesAsConfigured

LEMMA ListKeeps == TableInv /\ ListFiles => TableInv'
PROOF
<1>. SUFFICES ASSUME TableInv, ListFiles PROVE TableInv'
  OBVIOUS
<1>1. /\ phase = "list" /\ dir = <<>> /\ table = <<>> /\ index = 0 /\ asked = Null
      /\ UNCHANGED <<table, index, asked, written>> /\ written \in Seq(Pages)
  BY DEF TableInv, Phases, TypeOK, ListFiles
<1>2. \/ phase' \in {"serve", "overrun"} /\ dir' = <<>>
      \/ phase' = "create" /\ dir' \in Seq(Kinds) /\ Len(dir') <= MaxFiles
  <2>1. CASE phase' \in {"serve", "overrun"} /\ UNCHANGED dir
    BY <1>1, <2>1
  <2>2. CASE \E n \in 0 .. MostFiles : \E d \in [1 .. n -> Kinds] :
               dir' = d /\ phase' = "create"
    <3>1. PICK n \in 0 .. MaxFiles : \E d \in [1 .. n -> Kinds] :
                 dir' = d /\ phase' = "create"
      BY <2>2 DEF MostFiles
    <3>2. n \in Nat /\ n <= MaxFiles /\ dir' \in [1 .. n -> Kinds]
      BY <3>1, TableAssumption
    <3>3. dir' \in Seq(Kinds) /\ Len(dir') = n
      BY <3>2
    <3>. QED
      BY <3>1, <3>2, <3>3
  <2>. QED
    BY <2>1, <2>2 DEF ListFiles
<1>3. dir' \in Seq(Kinds) /\ Len(dir') \in Nat /\ Len(dir') <= MaxFiles
  <2>1. <<>> \in Seq(Kinds) /\ Len(<<>>) = 0 /\ 0 <= MaxFiles
    BY TableAssumption
  <2>. QED
    BY <1>2, <2>1, LenProperties
<1>4. TypeOK'
  BY <1>1, <1>2, <1>3 DEF TypeOK
<1>. QED
  BY <1>1, <1>2, <1>4
     DEF TableInv, Phases, Filled, OnlyKnownMisuse, UpdatesAsConfigured

LEMMA CreateKeeps == TableInv /\ CreateTable => TableInv'
PROOF
<1>. SUFFICES ASSUME TableInv, CreateTable PROVE TableInv'
  OBVIOUS
<1>1. /\ phase = "create" /\ table = <<>> /\ index = 0 /\ asked = Null
      /\ UNCHANGED <<dir, index, asked, written>> /\ TypeOK
  BY DEF TableInv, Phases, CreateTable
<1>2. Len(dir) \in Nat /\ Len(dir) <= MaxFiles /\ MaxFiles \in Nat
  BY <1>1, LenProperties, TableAssumption DEF TypeOK
<1>3. CASE dir = <<>> /\ phase' = "exited" /\ UNCHANGED table
  <2>1. TypeOK'
    BY <1>1, <1>3 DEF TypeOK
  <2>. QED
    BY <1>1, <1>3, <2>1
       DEF TableInv, Phases, Filled, OnlyKnownMisuse, UpdatesAsConfigured
<1>4. CASE /\ dir # <<>> /\ phase' = "load"
           /\ \E slots \in [0 .. Len(dir) -> {Null, Junk}] :
                table' = [slots EXCEPT ![0] = Null]
  <2>1. /\ table' \in [0 .. Len(dir) -> {Null, Junk}] /\ table'[0] = Null
        /\ 0 \in 0 .. Len(dir) /\ Len(dir) \in 0 .. Len(dir)
    BY <1>2, <1>4
  <2>2. table' # <<>>
    BY <2>1
  <2>3. TypeOK'
    BY <1>1, <1>4, <2>1 DEF TypeOK, Slots
  <2>4. Filled'
    BY <1>1, <2>1
       DEF Filled, CachesInPlace, EndsAtRefused, NextIsClear, NoneOverran, NothingPastEnd
  <2>. QED
    BY <1>1, <1>4, <2>2, <2>3, <2>4
       DEF TableInv, Phases, OnlyKnownMisuse, UpdatesAsConfigured
<1>5. CASE Len(dir) >= MaxFiles /\ phase' = "undefined" /\ UNCHANGED table
  <2>1. Len(dir) = MaxFiles
    BY <1>2, <1>5
  <2>2. TypeOK'
    BY <1>1, <1>5 DEF TypeOK
  <2>. QED
    BY <1>1, <1>5, <2>1, <2>2
       DEF TableInv, Phases, Filled, OnlyKnownMisuse, UpdatesAsConfigured
<1>. QED
  BY <1>3, <1>4, <1>5 DEF CreateTable

\* A refused file leaves the NULL of its slot; a loaded one fills the slot and
\* clears the next (action.c:61-92).
LEMMA LoadKeeps == TableInv /\ LoadAction => TableInv'
PROOF
<1>. DEFINE f == dir[index + 1]
            D == Len(dir)
<1>. SUFFICES ASSUME TableInv, LoadAction PROVE TableInv'
  OBVIOUS
<1>1. /\ phase = "load" /\ index < D /\ index' = index + 1
      /\ UNCHANGED <<dir, asked, written>> /\ asked = Null
      /\ table # <<>> /\ dir # <<>>
      /\ CachesInPlace /\ EndsAtRefused /\ NextIsClear /\ NoneOverran /\ NothingPastEnd
  BY DEF TableInv, Phases, Filled, LoadAction
<1>2. /\ dir \in Seq(Kinds) /\ index \in 0 .. D /\ table \in [0 .. D -> Slots]
      /\ D <= MaxFiles /\ written \in Seq(Pages) /\ asked \in CacheNames \union {Null}
  BY <1>1 DEF TableInv, TypeOK
<1>3. /\ D \in Nat \ {0} /\ index \in Nat /\ index + 1 \in 1 .. D
      /\ index + 1 \in DOMAIN dir /\ f \in Kinds
  <2>1. D \in Nat /\ D # 0 /\ DOMAIN dir = 1 .. D
    BY <1>1, <1>2, LenProperties, EmptySeq
  <2>2. index \in Nat /\ index + 1 \in 1 .. D
    <3>. HIDE DEF D
    <3>. QED
      BY <1>1, <1>2, <2>1
  <2>. QED
    BY <1>2, <2>1, <2>2
<1>4. AllLoaded(index + 1) <=> AllLoaded(index) /\ f # Refused
  BY <1>3 DEF AllLoaded
<1>5. (\A k : AllLoaded(k)' <=> AllLoaded(k))
  BY <1>1 DEF AllLoaded
<1>6. UpdatesAsConfigured'
  BY <1>1 DEF UpdatesAsConfigured
<1>10. (f = Refused \/ ~Overruns(f)) => NoneOverran'
  <2>1. f = Refused => ~Overruns(f)
    BY TableAssumption DEF Overruns, Accepted
  <2>2. \A k \in 1 .. index + 1 : k \in 1 .. index \/ k = index + 1
    BY <1>3
  <2>. QED
    BY <1>1, <2>1, <2>2 DEF NoneOverran
<1>7. CASE f = Refused /\ UNCHANGED <<phase, table>>
  <2>1. TypeOK'
    BY <1>1, <1>2, <1>3, <1>7 DEF TypeOK
  <2>2. CachesInPlace'
    <3>. SUFFICES ASSUME NEW k \in 1 .. index + 1, AllLoaded(k)
                  PROVE  table[k - 1] = Loaded(dir[k])
      BY <1>1, <1>5, <1>7 DEF CachesInPlace
    <3>1. k # index + 1
      BY <1>4, <1>7
    <3>2. k \in 1 .. index
      BY <1>3, <3>1
    <3>. QED
      BY <1>1, <3>2 DEF CachesInPlace
  <2>3. EndsAtRefused'
    <3>. SUFFICES ASSUME NEW k \in 1 .. index + 1, dir[k] = Refused, AllLoaded(k - 1)
                  PROVE  table[k - 1] = Null
      BY <1>1, <1>5, <1>7 DEF EndsAtRefused
    <3>1. CASE k = index + 1
      <4>1. k - 1 = index
        BY <1>3, <3>1
      <4>. QED
        BY <1>1, <4>1 DEF NextIsClear
    <3>2. CASE k # index + 1
      <4>1. k \in 1 .. index
        BY <1>3, <3>2
      <4>. QED
        BY <1>1, <4>1 DEF EndsAtRefused
    <3>. QED
      BY <3>1, <3>2
  <2>4. NextIsClear' /\ NothingPastEnd'
    BY <1>1, <1>4, <1>5, <1>7 DEF NextIsClear, NothingPastEnd
  <2>5. NoneOverran'
    BY <1>7, <1>10
  <2>. QED
    BY <1>1, <1>6, <1>7, <2>1, <2>2, <2>3, <2>4, <2>5
       DEF TableInv, Phases, Filled, OnlyKnownMisuse
<1>8. CASE Overruns(f) /\ phase' = "overrun" /\ UNCHANGED table
  <2>1. TypeOK'
    BY <1>1, <1>2, <1>3, <1>8 DEF TypeOK
  <2>2. OnlyKnownMisuse'
    BY <1>1, <1>3, <1>8 DEF OnlyKnownMisuse
  <2>. QED
    BY <1>1, <1>6, <1>8, <2>1, <2>2 DEF TableInv, Phases, Filled
<1>9. CASE /\ Accepted(f) /\ ~Overruns(f)
           /\ table' = [table EXCEPT ![index] = Loaded(f),
                                     ![index + 1] = SlotAfter(index + 1)]
           /\ \/ UNCHANGED phase
              \/ /\ index + 1 = Len(dir)
                 /\ Len(dir) \notin Slack
                 /\ table[index + 1] = Junk
                 /\ phase' = "undefined"
  <2>1. /\ table' = [table EXCEPT ![index] = Loaded(f), ![index + 1] = Null]
        /\ Loaded(f) \in Slots /\ Null \in Slots /\ f # Refused
    <3>1. f \in Cached
      BY <1>3, <1>9 DEF Cached
    <3>. QED
      BY <1>9, <3>1, LoadedCache DEF SlotAfter, Slots, Accepted
  <2>2. index \in 0 .. D /\ index + 1 \in 0 .. D /\ index # index + 1
    BY <1>3
  <2>3. /\ table' \in [0 .. D -> Slots]
        /\ table'[index] = Loaded(f) /\ table'[index + 1] = Null
        /\ \A k \in 0 .. D : k # index /\ k # index + 1 => table'[k] = table[k]
    <3>. HIDE DEF D, f
    <3>. QED
      BY <1>2, <2>1, <2>2
  <2>4. table' # <<>>
    BY <2>2, <2>3
  <2>5. TypeOK'
    BY <1>1, <1>2, <1>3, <1>9, <2>3 DEF TypeOK
  <2>6. CachesInPlace'
    <3>. SUFFICES ASSUME NEW k \in 1 .. index + 1, AllLoaded(k)
                  PROVE  table'[k - 1] = Loaded(dir[k])
      BY <1>1, <1>5 DEF CachesInPlace
    <3>1. CASE k = index + 1
      <4>1. k - 1 = index
        BY <1>3, <3>1
      <4>. QED
        BY <2>3, <3>1, <4>1
    <3>2. CASE k # index + 1
      <4>1. k \in 1 .. index /\ k - 1 \in 0 .. D /\ k - 1 # index /\ k - 1 # index + 1
        BY <1>3, <3>2
      <4>2. table[k - 1] = Loaded(dir[k])
        BY <1>1, <4>1 DEF CachesInPlace
      <4>. QED
        BY <2>3, <4>1, <4>2
    <3>. QED
      BY <3>1, <3>2
  <2>7. EndsAtRefused'
    <3>. SUFFICES ASSUME NEW k \in 1 .. index + 1, dir[k] = Refused, AllLoaded(k - 1)
                  PROVE  table'[k - 1] = Null
      BY <1>1, <1>5 DEF EndsAtRefused
    <3>1. k # index + 1
      BY <2>1
    <3>2. k \in 1 .. index /\ k - 1 \in 0 .. D /\ k - 1 # index /\ k - 1 # index + 1
      BY <1>3, <3>1
    <3>3. table[k - 1] = Null
      BY <1>1, <3>2 DEF EndsAtRefused
    <3>. QED
      BY <2>3, <3>2, <3>3
  <2>8. NextIsClear'
    BY <1>1, <2>3 DEF NextIsClear
  <2>9. NothingPastEnd'
    <3>1. CASE D = index + 1
      BY <1>1, <2>3, <3>1 DEF NothingPastEnd
    <3>2. CASE D # index + 1
      <4>1. D \in 0 .. D /\ D # index /\ D # index + 1
        <5>. HIDE DEF D
        <5>. QED
          BY <1>1, <1>3, <3>2
      <4>. QED
        BY <1>1, <2>3, <4>1 DEF NothingPastEnd
    <3>. QED
      BY <3>1, <3>2
  <2>10. OnlyKnownMisuse'
    <3>1. phase' = "undefined" => f = Last(dir) /\ Len(dir) \notin Slack
      BY <1>1, <1>9 DEF Last
    <3>. QED
      BY <1>1, <1>9, <3>1 DEF OnlyKnownMisuse
  <2>11. Phases'
    BY <1>1, <1>9, <2>4 DEF Phases
  <2>. QED
    BY <1>6, <1>9, <1>10, <2>5, <2>6, <2>7, <2>8, <2>9, <2>10, <2>11
       DEF TableInv, Filled
<1>. QED
  BY <1>7, <1>8, <1>9 DEF LoadAction

LEMMA EndLoadingKeeps == TableInv /\ EndLoading => TableInv'
PROOF
<1>. SUFFICES ASSUME TableInv, EndLoading PROVE TableInv'
  OBVIOUS
<1>1. /\ phase = "load" /\ phase' = "serve" /\ index = Len(dir) /\ asked = Null
      /\ UNCHANGED <<dir, table, index, asked, written>> /\ table # <<>> /\ dir # <<>>
      /\ CachesInPlace /\ EndsAtRefused /\ NextIsClear /\ NoneOverran /\ NothingPastEnd /\ TypeOK
  BY DEF TableInv, Phases, Filled, EndLoading
<1>2. TypeOK'
  BY <1>1 DEF TypeOK
<1>3. /\ CachesInPlace' /\ EndsAtRefused' /\ NextIsClear' /\ NoneOverran' /\ NothingPastEnd'
  BY <1>1 DEF CachesInPlace, EndsAtRefused, NextIsClear, NoneOverran, NothingPastEnd, AllLoaded
<1>. QED
  BY <1>1, <1>2, <1>3
     DEF TableInv, Phases, Filled, OnlyKnownMisuse, UpdatesAsConfigured

LEMMA ReuseKeeps == TableInv /\ ReusePast => TableInv'
PROOF
<1>. DEFINE D == Len(dir)
<1>. SUFFICES ASSUME TableInv, ReusePast PROVE TableInv'
  OBVIOUS
<1>1. /\ phase \in {"load", "serve"} /\ D \notin Slack /\ table # <<>> /\ dir # <<>>
      /\ UNCHANGED <<phase, dir, index, asked, written>> /\ TypeOK
      /\ CachesInPlace /\ EndsAtRefused /\ NextIsClear /\ NoneOverran /\ NothingPastEnd
  BY DEF TableInv, Phases, Filled, ReusePast
<1>2. D \in Nat /\ index \in 0 .. D /\ table \in [0 .. D -> Slots]
  BY <1>1, LenProperties DEF TypeOK
<1>3. PICK x \in {Null, Junk} : table' = [table EXCEPT ![D] = x]
  BY DEF ReusePast
<1>4. /\ table' \in [0 .. D -> Slots] /\ table'[D] = x
      /\ \A k \in 0 .. D : k # D => table'[k] = table[k]
      /\ table' # <<>>
  <2>1. D \in 0 .. D /\ x \in Slots
    BY <1>2 DEF Slots
  <2>. HIDE DEF D
  <2>. QED
    BY <1>2, <1>3, <2>1
<1>5. TypeOK'
  BY <1>1, <1>4 DEF TypeOK
<1>6. CachesInPlace'
  <2>. SUFFICES ASSUME NEW k \in 1 .. index, AllLoaded(k)
                PROVE  table'[k - 1] = Loaded(dir[k])
    BY <1>1 DEF CachesInPlace, AllLoaded
  <2>1. k - 1 \in 0 .. D /\ k - 1 # D
    BY <1>2
  <2>. QED
    BY <1>1, <1>4, <2>1 DEF CachesInPlace
<1>7. EndsAtRefused'
  <2>. SUFFICES ASSUME NEW k \in 1 .. index, dir[k] = Refused, AllLoaded(k - 1)
                PROVE  table'[k - 1] = Null
    BY <1>1 DEF EndsAtRefused, AllLoaded
  <2>1. k - 1 \in 0 .. D /\ k - 1 # D
    BY <1>2
  <2>. QED
    BY <1>1, <1>4, <2>1 DEF EndsAtRefused
<1>8. NextIsClear'
  <2>. SUFFICES ASSUME AllLoaded(index), index < D PROVE table'[index] = Null
    BY <1>1 DEF NextIsClear, AllLoaded
  <2>1. index \in 0 .. D /\ index # D
    BY <1>2
  <2>. QED
    BY <1>1, <1>4, <2>1 DEF NextIsClear
<1>9. NothingPastEnd' /\ NoneOverran'
  BY <1>1, <1>4 DEF NothingPastEnd, NoneOverran
<1>10. Phases' /\ OnlyKnownMisuse' /\ UpdatesAsConfigured'
  <2>1. Phases'
    BY <1>1, <1>4 DEF TableInv, Phases
  <2>2. OnlyKnownMisuse'
    BY <1>1 DEF OnlyKnownMisuse
  <2>3. \A n : Expected(n)' = Expected(n)
    BY <1>1 DEF Expected, Visible, AllLoaded, Complete
  <2>4. UpdatesAsConfigured
    BY DEF TableInv
  <2>5. UpdatesAsConfigured'
    BY <1>1, <2>3, <2>4 DEF UpdatesAsConfigured
  <2>. QED
    BY <2>1, <2>2, <2>5
<1>. QED
  BY <1>5, <1>6, <1>7, <1>8, <1>9, <1>10 DEF TableInv, Filled

\* An UPDATE line leaves the table alone; what it writes is what the files say,
\* or it follows a list that is NULL, or a pointer past the end
\* (queral.c:492-512).
LEMMA UpdateKeeps == ASSUME NEW n \in CacheNames PROVE TableInv /\ Update(n) => TableInv'
PROOF
<1>. SUFFICES ASSUME TableInv, Update(n) PROVE TableInv'
  OBVIOUS
<1>1. /\ phase = "serve" /\ asked' = n /\ UNCHANGED <<dir, table, index>> /\ TypeOK
      /\ (table = <<>> <=> dir = <<>>) /\ (table # <<>> => index = Len(dir))
  BY DEF TableInv, Phases, Update
<1>2. table # <<>> => CachesInPlace /\ EndsAtRefused /\ NextIsClear /\ NoneOverran /\ NothingPastEnd
  BY <1>1 DEF TableInv, Filled
<1>3. phase' \in {"serve", "undefined"} => Phases'
  BY <1>1 DEF Phases
<1>4. Filled'
  BY <1>1, <1>2
     DEF Filled, CachesInPlace, EndsAtRefused, NextIsClear, NoneOverran, NothingPastEnd, AllLoaded
<1>5. written' \in Seq(Pages) /\ phase' \in {"serve", "undefined"} => TypeOK'
  BY <1>1 DEF TypeOK
<1>6. <<>> \in Seq(Pages) /\ written \in Seq(Pages)
  BY <1>1 DEF TypeOK
<1>7. Expected(n)' = Expected(n)
  BY <1>1 DEF Expected, Visible, AllLoaded, Complete
<1>8. ASSUME UNCHANGED phase, written' = Expected(n), written' \in Seq(Pages)
      PROVE  TableInv'
  <2>1. UpdatesAsConfigured'
    BY <1>1, <1>7, <1>8 DEF UpdatesAsConfigured
  <2>2. OnlyKnownMisuse'
    BY <1>1, <1>8 DEF OnlyKnownMisuse
  <2>. QED
    BY <1>1, <1>3, <1>4, <1>5, <1>8, <2>1, <2>2 DEF TableInv
<1>9. ASSUME phase' = "undefined", UNCHANGED written, OnlyKnownMisuse'
      PROVE  TableInv'
  <2>1. UpdatesAsConfigured'
    BY <1>9 DEF UpdatesAsConfigured
  <2>. QED
    BY <1>3, <1>4, <1>5, <1>6, <1>9, <2>1 DEF TableInv
<1>10. ASSUME NEW k \in DOMAIN table, FirstMatch(k, n),
              LET a == table[k] IN
              \/ /\ a.count = 0 \/ a.list # NoList
                 /\ written' = IF a.count = 0 THEN <<>> ELSE a.list
                 /\ UNCHANGED phase
              \/ /\ a.count > 0 /\ a.list = NoList
                 /\ phase' = "undefined"
                 /\ UNCHANGED written
       PROVE  TableInv'
  <2>. DEFINE f == dir[k + 1]
              a == table[k]
              e == IF f.variables = "listed" THEN Complete(f.pages) ELSE <<>>
  <2>1. /\ f \in Cached /\ a = Loaded(f) /\ k + 1 \in DOMAIN dir
        /\ Expected(n) = e
    BY <1>1, <1>10, ExpectedOfFirst
  <2>2. /\ a.count > 0 /\ a.list = NoList => Overfull(f)
        /\ a.count = 0 \/ a.list # NoList =>
             (IF a.count = 0 THEN <<>> ELSE a.list) = e /\ e \in Seq(Pages)
    <3>. HIDE DEF f
    <3>. QED
      BY <2>1, LoadedCache
  <2>3. CASE /\ a.count = 0 \/ a.list # NoList
             /\ written' = IF a.count = 0 THEN <<>> ELSE a.list
             /\ UNCHANGED phase
    <3>1. written' = e /\ e \in Seq(Pages)
      <4>. HIDE DEF a, e
      <4>. QED
        BY <2>2, <2>3
    <3>. HIDE DEF e
    <3>. QED
      BY <1>8, <2>1, <2>3, <3>1
  <2>4. CASE a.count > 0 /\ a.list = NoList /\ phase' = "undefined" /\ UNCHANGED written
    <3>1. OnlyKnownMisuse'
      BY <1>1, <2>1, <2>2, <2>4 DEF OnlyKnownMisuse
    <3>. QED
      BY <1>9, <2>4, <3>1
  <2>. QED
    BY <1>10, <2>3, <2>4
<1>11. CASE /\ Matches(n) = {}
            /\ written' = <<>>
            /\ UNCHANGED phase
  <2>1. Expected(n) = <<>>
    BY <1>1, <1>11, NothingExpected
  <2>. QED
    BY <1>6, <1>8, <1>11, <2>1
<1>12. CASE /\ \E m \in Reached : table[m] = Junk
            /\ phase' = "undefined" /\ UNCHANGED written
  <2>1. dir # <<>> /\ Accepted(Last(dir)) /\ Len(dir) \notin Slack
    BY <1>1, <1>12, JunkIsPastEnd
  <2>2. OnlyKnownMisuse'
    BY <1>1, <1>12, <2>1 DEF OnlyKnownMisuse
  <2>. QED
    BY <1>9, <1>12, <2>2
<1>. QED
  BY <1>10, <1>11, <1>12 DEF Update

LEMMA DestroyKeeps == TableInv /\ DestroyActions => TableInv'
PROOF
<1>. SUFFICES ASSUME TableInv, DestroyActions PROVE TableInv'
  OBVIOUS
<1>1. /\ phase = "serve" /\ UNCHANGED <<dir, table, index, asked, written>> /\ TypeOK
      /\ phase' = IF \E m \in Reached : table[m] = Junk THEN "undefined" ELSE "exited"
      /\ (table = <<>> <=> dir = <<>>)
  BY DEF TableInv, Phases, DestroyActions
<1>2. TypeOK'
  BY <1>1 DEF TypeOK
<1>3. OnlyKnownMisuse'
  <2>. SUFFICES ASSUME phase' = "undefined" PROVE OnlyKnownMisuse'
    BY <1>1 DEF OnlyKnownMisuse
  <2>1. \E m \in Reached : table[m] = Junk
    BY <1>1
  <2>2. dir # <<>> /\ Accepted(Last(dir)) /\ Len(dir) \notin Slack
    BY <1>1, <2>1, JunkIsPastEnd
  <2>. QED
    BY <1>1, <2>2 DEF OnlyKnownMisuse, Last
<1>. QED
  BY <1>1, <1>2, <1>3 DEF TableInv, Phases, Filled, UpdatesAsConfigured

LEMMA StutterKeeps == TableInv /\ UNCHANGED vars => TableInv'
PROOF
<1>. SUFFICES ASSUME TableInv, UNCHANGED vars PROVE TableInv'
  OBVIOUS
<1>1. TypeOK' /\ Phases' /\ OnlyKnownMisuse'
  BY DEF vars, TableInv, TypeOK, Phases, OnlyKnownMisuse
<1>2. Filled'
  BY DEF vars, TableInv, Filled, CachesInPlace, EndsAtRefused, NextIsClear,
         NoneOverran, NothingPastEnd, AllLoaded
<1>3. UpdatesAsConfigured'
  BY DEF vars, TableInv, UpdatesAsConfigured, Expected, Visible, AllLoaded, Complete
<1>. QED
  BY <1>1, <1>2, <1>3 DEF TableInv

-----------------------------------------------------------------------------
(* The theorems.                                                           *)

\* The invariant: the slots before the first refused file hold their caches,
\* its own slot is NULL, and nothing but what was there lies past the end.
THEOREM TableInvariant == Spec => []TableInv
PROOF
<1>1. Init => TableInv
  BY InitTable
<1>2. TableInv /\ [Next]_vars => TableInv'
  BY ListKeeps, CreateKeeps, LoadKeeps, EndLoadingKeeps, ReuseKeeps, UpdateKeeps,
     DestroyKeeps, StutterKeeps DEF Next
<1>. QED
  BY <1>1, <1>2, PTL DEF Spec

\* Ranges; in particular list_files never fills more than its array
\* (file_utils.c).
THEOREM TableTypes == Spec => []TypeOK
PROOF
<1>1. TableInv => TypeOK
  BY DEF TableInv
<1>. QED
  BY <1>1, TableInvariant, PTL

\* The program leaves an array, or follows a pointer nobody stored, in the three
\* known ways only: a slot that was never written is not read between the ends
\* of the table (action.c:35, 84-85, 110-116).  A text overruns its buffer only
\* if one of those named is too long (logger.c:54-91, config_utils.c:228, 288-289).
THEOREM OnlyKnownMisuseHappens == Spec => []OnlyKnownMisuse
PROOF
<1>1. TableInv => OnlyKnownMisuse
  BY DEF TableInv
<1>. QED
  BY <1>1, TableInvariant, PTL

\* An UPDATE line writes the complete pages of the first file of that name, if
\* no file before it was refused and it has variables (action.c:61-116,
\* queral.c:492-512).
THEOREM UpdatesFollowTheFiles == Spec => []UpdatesAsConfigured
PROOF
<1>1. TableInv => UpdatesAsConfigured
  BY DEF TableInv
<1>. QED
  BY <1>1, TableInvariant, PTL
=============================================================================
