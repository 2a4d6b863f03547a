--------------------------- MODULE SettingsProofs ---------------------------
(***************************************************************************)
(* Proofs about the settings, for every configuration, every maximum and   *)
(* default, any number of workers and servers and every random number.     *)
(* The argument: what main has read is a function of the file and does not *)
(* change while the program runs; each worker walks the same list, whose   *)
(* first part holds the complete servers and whose rest is NULL.           *)
(***************************************************************************)
EXTENDS Settings, SequenceTheorems, FiniteSetTheorems, TLAPS

-----------------------------------------------------------------------------
(* The delay.                                                              *)

\* The contention as written does not ask for a negative delay.
NotNegative(c) == c = Absent \/ c >= 0

DelayInv ==
  /\ config \in Configs
  /\ delay \in Nat
  /\ phase # "read" =>
       worker_contention = Clamped(config.contention, MaxContention, DefaultContention)
  /\ phase = "read" => delay = 0
  /\ phase # "read" /\ NotNegative(config.contention) => delay <= worker_contention

\* The clamped contention is no more than the maximum and than what is written.
LEMMA ClampedContention ==
  ASSUME NEW c \in Numbers, NotNegative(c)
  PROVE  LET n == Clamped(c, MaxContention, DefaultContention)
         IN  n \in Nat /\ n <= MaxContention /\ (c # Absent => n <= c)
PROOF
  BY SettingsAssumption DEF Numbers, NotNegative, Clamped

\* rand () % (base + 1) is at most base.
LEMMA RemainderBounded ==
  ASSUME NEW r \in Nat, NEW n \in Nat
  PROVE  Remainder(r, n + 1) \in 0 .. n
PROOF
  BY DEF Remainder

\* A remainder is never negative, whatever the sign of the divisor.
LEMMA RemainderNatural ==
  ASSUME NEW r \in Nat, NEW d \in Int, d # 0
  PROVE  Remainder(r, d) \in Nat
PROOF
  BY DEF Remainder

\* The invariant: the delay is at most the contention in use, which is the one
\* that was written, cut to its maximum (queral.c:185-192).
THEOREM DelayInvariant == Spec => []DelayInv
PROOF
<1>1. Init => DelayInv
  BY DEF Init, DelayInv
<1>2. DelayInv /\ [Next]_vars => DelayInv'
  <2>. SUFFICES ASSUME DelayInv, [Next]_vars PROVE DelayInv'
    OBVIOUS
  <2>0. config.contention \in Numbers
    BY SettingsAssumption DEF DelayInv
  <2>1. CASE ReadSettings
    BY <2>0, <2>1, ClampedContention DEF DelayInv, ReadSettings
  <2>2. ASSUME NEW w \in Workers, Sleep(w)
        PROVE  DelayInv'
    <3>1. /\ phase = "serve" /\ phase' # "read"
          /\ UNCHANGED <<config, worker_contention>>
      BY <2>2 DEF Sleep, settings
    <3>2. worker_contention \in Int
      BY <2>0, <3>1, SettingsAssumption DEF DelayInv, Clamped, Numbers
    <3>3. CASE delay' = delay
      BY <3>1, <3>3 DEF DelayInv
    <3>4. CASE /\ worker_contention + 1 # 0
               /\ \E r \in 0 .. RandMax : delay' = Remainder(r, worker_contention + 1)
      <4>1. PICK r \in Nat : delay' = Remainder(r, worker_contention + 1)
        BY <3>4, SettingsAssumption
      <4>2. delay' \in Nat
        BY <3>2, <3>4, <4>1, RemainderNatural
      <4>3. NotNegative(config.contention) => delay' <= worker_contention
        <5>. SUFFICES ASSUME NotNegative(config.contention) PROVE delay' <= worker_contention
          OBVIOUS
        <5>1. worker_contention \in Nat
          BY <2>0, <3>1, ClampedContention DEF DelayInv
        <5>2. Remainder(r, worker_contention + 1) \in 0 .. worker_contention
          BY <5>1, RemainderBounded
        <5>. QED
          BY <4>1, <5>1, <5>2
      <4>. QED
        BY <3>1, <4>2, <4>3 DEF DelayInv
    <3>. QED
      BY <2>2, <3>3, <3>4 DEF Sleep
  <2>3. CASE /\ StartWorkers \/ Exit
                \/ \E w \in Workers : \/ InitClients(w) \/ Connect(w) \/ FailConnect(w)
                                       \/ EndConnect(w) \/ Stop(w)
    <3>1. /\ phase # "read" /\ phase' # "read"
          /\ UNCHANGED <<config, worker_contention, delay>>
      BY <2>3 DEF StartWorkers, Exit, InitClients, Connect, FailConnect, EndConnect, Stop, Destroy,
             settings
    <3>. QED
      BY <3>1 DEF DelayInv
  <2>4. CASE UNCHANGED vars
    BY <2>4 DEF vars, settings, DelayInv
  <2>. QED
    BY <2>1, <2>2, <2>3, <2>4 DEF Next
<1>. QED
  BY <1>1, <1>2, PTL DEF Spec

\* A worker never sleeps longer than configured nor longer than the maximum,
\* unless the contention is a negative number (config_utils.c:90-99,
\* sleep_utils.c:28-32).
THEOREM DelayStaysBounded == Spec => []DelayBounded
PROOF
<1>1. DelayInv => DelayBounded
  <2>. SUFFICES ASSUME DelayInv PROVE DelayBounded
    OBVIOUS
  <2>1. config.contention \in Numbers /\ MaxContention \in Nat /\ delay \in Nat
    BY SettingsAssumption DEF DelayInv
  <2>2. NotNegative(config.contention) =>
          delay <= MaxContention /\ (config.contention # Absent => delay <= config.contention)
    <3>. DEFINE c == config.contention
                n == Clamped(c, MaxContention, DefaultContention)
    <3>. SUFFICES ASSUME NotNegative(c)
                  PROVE  delay <= MaxContention /\ (c # Absent => delay <= c)
      OBVIOUS
    <3>1. n \in Nat /\ n <= MaxContention /\ (c # Absent => n <= c /\ c \in Nat)
      <4>1. n \in Nat /\ n <= MaxContention /\ (c # Absent => n <= c)
        BY <2>1, ClampedContention
      <4>2. c # Absent => c \in Nat
        BY <2>1 DEF NotNegative, Numbers
      <4>. QED
        BY <4>1, <4>2
    <3>2. delay <= n
      <4>1. CASE phase = "read"
        BY <3>1, <4>1 DEF DelayInv
      <4>2. CASE phase # "read"
        BY <4>2 DEF DelayInv
      <4>. QED
        BY <4>1, <4>2
    <3>. HIDE DEF c, n
    <3>. QED
      BY <2>1, <3>1, <3>2
  <2>. QED
    BY <2>1, <2>2 DEF DelayBounded, NotNegative, Numbers
<1>. QED
  BY <1>1, DelayInvariant, PTL

-----------------------------------------------------------------------------
(* The list of servers.                                                    *)

\* read_memcached_servers keeps complete servers, no more than there are entries:
\* numbering the complete entries puts each at a place of its own, and none of
\* the places stays free.
LEMMA CompleteList ==
  ASSUME NEW entries \in Seq(Servers \union {Incomplete})
  PROVE  /\ Complete(entries) \in Seq(Servers)
         /\ Len(Complete(entries)) <= Len(entries)
         /\ \A j \in 1 .. Len(Complete(entries)) : Complete(entries)[j] \in Range(entries)
PROOF
<1>. DEFINE L == Len(entries)
            C == {k \in DOMAIN entries : entries[k] # Incomplete}
            upTo(k) == {j \in C : j <= k}
            idx(k) == Cardinality(upTo(k))
            n == Cardinality(C)
            f == [k \in C |-> idx(k)]
<1>1. L \in Nat /\ C \in SUBSET (1 .. L) /\ \A k \in C : entries[k] \in Servers
  BY LenProperties
<1>. HIDE DEF C, L
<1>2. \A m \in Nat : IsFiniteSet(1 .. m) /\ Cardinality(1 .. m) = m
  BY FS_Interval
<1>3. IsFiniteSet(C) /\ n \in Nat /\ n <= L
  <2>1. IsFiniteSet(1 .. L) /\ Cardinality(1 .. L) = L
    BY <1>1, <1>2
  <2>. QED
    BY <1>1, <2>1, FS_Subset, FS_CardinalityType
<1>4. \A k \in C : /\ upTo(k) \in SUBSET C /\ k \in upTo(k)
                   /\ IsFiniteSet(upTo(k)) /\ idx(k) \in 1 .. n
  <2>. TAKE k \in C
  <2>1. upTo(k) \in SUBSET C /\ k \in upTo(k)
    BY <1>1
  <2>. HIDE DEF upTo
  <2>2. IsFiniteSet(upTo(k)) /\ idx(k) <= n /\ idx(k) \in Nat
    BY <1>3, <2>1, FS_Subset, FS_CardinalityType
  <2>3. idx(k) # 0
    BY <2>1, <2>2, FS_EmptySet
  <2>. QED
    BY <1>3, <2>1, <2>2, <2>3
<1>5. \A k, m \in C : k < m => idx(k) # idx(m)
  <2>. SUFFICES ASSUME NEW k \in C, NEW m \in C, k < m PROVE idx(k) # idx(m)
    OBVIOUS
  <2>1. upTo(k) \in SUBSET upTo(m) /\ m \in upTo(m) /\ m \notin upTo(k)
    <3>1. C \in SUBSET Nat
      BY <1>1
    <3>2. \A j \in C : j <= k => j <= m
      BY <3>1
    <3>3. m <= m /\ ~(m <= k)
      BY <3>1
    <3>. QED
      BY <3>2, <3>3
  <2>2. IsFiniteSet(upTo(m))
    BY <1>4
  <2>. HIDE DEF upTo
  <2>. QED
    BY <2>1, <2>2, FS_Subset
<1>. HIDE DEF idx, n
<1>6. f \in Injection(C, 1 .. n)
  <2>1. f \in [C -> 1 .. n]
    BY <1>4
  <2>2. \A k, m \in C : f[k] = f[m] => k = m
    <3>1. \A k, m \in C : k # m => k < m \/ m < k
      BY <1>1
    <3>. QED
      BY <1>5, <3>1
  <2>. QED
    BY <2>1, <2>2 DEF Injection, IsInjective
<1>7. f \in Surjection(C, 1 .. n)
  <2>1. IsFiniteSet(1 .. n) /\ Cardinality(1 .. n) = n
    BY <1>2, <1>3
  <2>. QED
    BY <1>3, <1>6, <2>1, FS_Injection DEF n
<1>8. \A j \in 1 .. n : \E k \in C : idx(k) = j
  BY <1>7 DEF Surjection
<1>9. Complete(entries) = [j \in 1 .. n |-> entries[CHOOSE k \in C : idx(k) = j]]
  BY DEF Complete, Kept, C, idx, n
<1>10. \A j \in 1 .. n : entries[CHOOSE k \in C : idx(k) = j] \in Servers
  BY <1>1, <1>8
<1>11. Complete(entries) \in Seq(Servers) /\ Len(Complete(entries)) = n
  BY <1>3, <1>9, <1>10
<1>12. \A j \in 1 .. n : entries[CHOOSE k \in C : idx(k) = j] \in Range(entries)
  <2>. SUFFICES ASSUME NEW j \in 1 .. n
                PROVE  entries[CHOOSE k \in C : idx(k) = j] \in Range(entries)
    OBVIOUS
  <2>1. (CHOOSE k \in C : idx(k) = j) \in DOMAIN entries
    BY <1>8 DEF C
  <2>. QED
    BY <2>1 DEF Range
<1>13. \A j \in 1 .. n : Complete(entries)[j] \in Range(entries)
  BY <1>9, <1>12
<1>. QED
  BY <1>3, <1>11, <1>13 DEF L

\* The list memcached is given: the complete servers, then NULL up to its length.
LEMMA StoredList ==
  ASSUME NEW entries \in Seq(Servers \union {Incomplete})
  PROVE  /\ Stored(entries) \in Seq(Servers \union {Null})
         /\ Len(Stored(entries)) = Len(entries)
         /\ DOMAIN Stored(entries) = 1 .. Len(entries)
         /\ \A k \in 1 .. Len(entries) :
              IF k <= Len(Complete(entries))
              THEN /\ Stored(entries)[k] = Complete(entries)[k]
                   /\ Stored(entries)[k] \in Servers /\ Stored(entries)[k] # Null
              ELSE Stored(entries)[k] = Null
PROOF
<1>. DEFINE c == Complete(entries)
            list == Stored(entries)
<1>1. c \in Seq(Servers) /\ Len(c) <= Len(entries) /\ Len(c) \in Nat
      /\ DOMAIN c = 1 .. Len(c)
  BY CompleteList, LenProperties
<1>2. Len(entries) \in Nat /\ DOMAIN entries = 1 .. Len(entries)
  BY LenProperties
<1>3. list = [k \in 1 .. Len(entries) |-> IF k <= Len(c) THEN c[k] ELSE Null]
  BY <1>2 DEF Stored
<1>. HIDE DEF c, list
<1>4. \A k \in 1 .. Len(entries) : k <= Len(c) => c[k] \in Servers /\ c[k] # Null
  BY <1>1, SettingsAssumption
<1>5. \A k \in 1 .. Len(entries) :
        (IF k <= Len(c) THEN c[k] ELSE Null) \in Servers \union {Null}
  BY <1>4
<1>6. list \in Seq(Servers \union {Null}) /\ Len(list) = Len(entries)
  BY <1>2, <1>3, <1>5
<1>. QED
  BY <1>3, <1>4, <1>6 DEF c, list

\* The complete servers of the configuration.
Usable == Complete(config.servers)

\* The first n elements of the list memcached is given, fewer if it is shorter.
Lesser(a, b) == IF a < b THEN a ELSE b
Upto(s, n) == SubSeq(s, 1, Lesser(n, Len(s)))

\* main: the settings in use are those of the file, and nothing has started
\* before they are read.
MainInv ==
  /\ phase = "read" =>
       /\ memcached_servers = <<>>
       /\ freed = {}
  /\ phase \in {"read", "start"} => \A w \in Workers : pc[w] = "none"
  /\ phase # "read" =>
       /\ workers_count = Clamped(config.threads, MaxWorkers, DefaultWorkers)
       /\ worker_contention =
            Clamped(config.contention, MaxContention, DefaultContention)
  /\ phase \in {"start", "serve"} =>
       /\ config.servers # Absent /\ FitsLine(config.servers)
       /\ memcached_servers = Stored(config.servers)
  /\ phase = "exited" =>
       /\ memcached_servers # <<>> =>
            /\ config.servers # Absent /\ FitsLine(config.servers)
            /\ memcached_servers = Stored(config.servers)
       /\ freed = StringsFreed

\* A worker: how far it has come in the list, and whether its clients are there.
WorkerInv(w) ==
  /\ pc[w] # "none" => config.servers # Absent /\ FitsLine(config.servers)
  /\ pc[w] \in {"none", "new"} =>
       next[w] = 1 /\ connected[w] = <<>> /\ field[w] = "junk" /\ frees[w] = 0
  /\ pc[w] = "connect" =>
       /\ next[w] \in 1 .. Len(config.servers) + 1
       /\ connected[w] = Upto(Usable, next[w] - 1)
       /\ field[w] = IF connected[w] = <<>> THEN "junk" ELSE "null"
       /\ frees[w] = 0
  /\ pc[w] = "ready" =>
       /\ connected[w] = Usable
       /\ field[w] = IF Usable = <<>> THEN "junk" ELSE "null"
       /\ frees[w] = 0
  /\ pc[w] = "ended" => frees[w] = 1

WorkersInv == \A w \in Workers : WorkerInv(w)

SettingsInv == TypeOK /\ MainInv /\ WorkersInv /\ OnlyBadSettings

LEMMA LesserOfTwo ==
  ASSUME NEW a \in Nat, NEW b \in Nat
  PROVE  (a <= b => Lesser(a, b) = a) /\ (b <= a => Lesser(a, b) = b)
PROOF
  BY DEF Lesser

\* One more server of the list.
LEMMA FirstServers ==
  ASSUME NEW s \in Seq(Servers), NEW n \in Nat
  PROVE  /\ Upto(s, 0) = <<>>
         /\ n + 1 <= Len(s) =>
              Upto(s, n + 1) = Append(Upto(s, n), s[n + 1]) /\ Upto(s, n + 1) # <<>>
         /\ Len(s) <= n => Upto(s, n) = s
         /\ Upto(s, n) \in Seq(Servers)
PROOF
<1>1. Len(s) \in Nat /\ DOMAIN s = 1 .. Len(s) /\ \A i \in 1 .. Len(s) : s[i] \in Servers
  BY LenProperties
<1>2. Upto(s, 0) = <<>>
  BY <1>1, LesserOfTwo, SubSeqEmpty DEF Upto
<1>3. Upto(s, n) \in Seq(Servers)
  <2>1. Lesser(n, Len(s)) \in 0 .. Len(s)
    BY <1>1 DEF Lesser
  <2>. QED
    BY <1>1, <2>1, SubSeqProperties DEF Upto
<1>4. ASSUME n + 1 <= Len(s)
      PROVE  Upto(s, n + 1) = Append(Upto(s, n), s[n + 1]) /\ Upto(s, n + 1) # <<>>
  <2>. DEFINE a == SubSeq(s, 1, n)
              b == SubSeq(s, 1, n + 1)
              x == s[n + 1]
  <2>1. Upto(s, n + 1) = b /\ Upto(s, n) = a
    <3>1. n + 1 \in Nat /\ n <= Len(s)
      BY <1>1, <1>4
    <3>2. Lesser(n + 1, Len(s)) = n + 1 /\ Lesser(n, Len(s)) = n
      BY <1>1, <1>4, <3>1, LesserOfTwo
    <3>. QED
      BY <3>2 DEF Upto
  <2>2. /\ a \in Seq(Servers) /\ Len(a) = n /\ \A i \in 1 .. n : a[i] = s[i]
        /\ x \in Servers
    BY <1>1, <1>4, SubSeqProperties
  <2>3. b \in Seq(Servers) /\ Len(b) = n + 1 /\ \A i \in 1 .. n + 1 : b[i] = s[i]
    BY <1>1, <1>4, SubSeqProperties
  <2>. HIDE DEF a, b
  <2>4. /\ Append(a, x) \in Seq(Servers) /\ Len(Append(a, x)) = n + 1
        /\ \A i \in 1 .. n : Append(a, x)[i] = a[i]
        /\ Append(a, x)[n + 1] = x
    BY <2>2, AppendProperties
  <2>5. \A i \in 1 .. n + 1 : b[i] = Append(a, x)[i]
    BY <2>2, <2>3, <2>4
  <2>6. b = Append(a, x)
    BY <2>3, <2>4, <2>5, SeqEqual
  <2>7. b # <<>>
    BY <2>3, EmptySeq
  <2>. QED
    BY <2>1, <2>6, <2>7
<1>5. Len(s) <= n => Upto(s, n) = s
  <2>1. SubSeq(s, 1, Len(s)) = s
    BY <1>1, SubSeqFull
  <2>2. Len(s) <= n => Lesser(n, Len(s)) = Len(s)
    BY <1>1, LesserOfTwo
  <2>. QED
    BY <2>1, <2>2 DEF Upto
<1>. QED
  BY <1>2, <1>3, <1>4, <1>5

\* A configuration whose list is not missing.
LEMMA ConfigTypes ==
  ASSUME config \in Configs
  PROVE  /\ config.threads \in Numbers /\ config.contention \in Numbers
         /\ config.expiration \in Numbers
         /\ config.prefix \in Nat \union {Absent}
         /\ config.servers # Absent =>
              config.servers \in Seq(Servers \union {Incomplete, Overlong})
PROOF
  BY SettingsAssumption

\* The clamps: never above the maximum; not positive, or -1, only if written so.
LEMMA ClampsAndDefaults ==
  ASSUME config \in Configs
  PROVE  LET n == Clamped(config.threads, MaxWorkers, DefaultWorkers)
             c == Clamped(config.contention, MaxContention, DefaultContention)
         IN  /\ n \in Int /\ n <= MaxWorkers
             /\ n <= 0 => config.threads # Absent /\ config.threads <= 0
             /\ c \in Int /\ (c + 1 = 0 => config.contention = -1)
             /\ Prefix(config.prefix) \in 0 .. MaxPrefix - 1
             /\ Expiration(config.expiration) \in Nat
PROOF
<1>1. /\ MaxWorkers \in Nat /\ DefaultWorkers \in Nat
      /\ 1 <= DefaultWorkers /\ DefaultWorkers <= MaxWorkers
      /\ MaxContention \in Nat /\ DefaultContention \in Nat
      /\ MaxPrefix \in Nat /\ DefaultPrefix \in Nat /\ DefaultPrefix < MaxPrefix
      /\ DefaultExpiration \in Nat /\ Absent \notin Int
  BY SettingsAssumption DEF Workers
<1>2. /\ Clamped(config.threads, MaxWorkers, DefaultWorkers) \in Int
      /\ Clamped(config.threads, MaxWorkers, DefaultWorkers) <= MaxWorkers
      /\ Clamped(config.threads, MaxWorkers, DefaultWorkers) <= 0 =>
           config.threads # Absent /\ config.threads <= 0
  BY <1>1, ConfigTypes DEF Clamped, Numbers
<1>3. /\ Clamped(config.contention, MaxContention, DefaultContention) \in Int
      /\ Clamped(config.contention, MaxContention, DefaultContention) + 1 = 0 =>
           config.contention = -1
  BY <1>1, ConfigTypes DEF Clamped, Numbers
<1>4. Prefix(config.prefix) \in 0 .. MaxPrefix - 1
  BY <1>1, ConfigTypes DEF Prefix
<1>5. Expiration(config.expiration) \in Nat
  BY <1>1, ConfigTypes DEF Expiration, Numbers
<1>. QED
  BY <1>2, <1>3, <1>4, <1>5

\* The list of a configuration that has one, under the names of the invariant.
LEMMA ConfigList ==
  ASSUME config \in Configs, config.servers # Absent, FitsLine(config.servers)
  PROVE  /\ Usable \in Seq(Servers) /\ Len(Usable) \in Nat
         /\ Len(config.servers) \in Nat /\ Len(Usable) <= Len(config.servers)
         /\ \A k \in 1 .. Len(Usable) : Usable[k] \in Range(config.servers)
         /\ Stored(config.servers) \in Seq(Servers \union {Null})
         /\ Len(Stored(config.servers)) = Len(config.servers)
         /\ DOMAIN Stored(config.servers) = 1 .. Len(config.servers)
         /\ \A k \in 1 .. Len(config.servers) :
              IF k <= Len(Usable)
              THEN /\ Stored(config.servers)[k] = Usable[k]
                   /\ Stored(config.servers)[k] \in Servers
                   /\ Stored(config.servers)[k] # Null
              ELSE Stored(config.servers)[k] = Null
PROOF
<1>1. config.servers \in Seq(Servers \union {Incomplete})
  <2>1. config.servers \in Seq(Servers \union {Incomplete, Overlong})
    BY ConfigTypes
  <2>2. \A k \in 1 .. Len(config.servers) :
          config.servers[k] \in Servers \union {Incomplete}
    BY <2>1, LenProperties DEF FitsLine, Range
  <2>. QED
    BY <2>1, <2>2
<1>. QED
  BY <1>1, CompleteList, StoredList, LenProperties DEF Usable

-----------------------------------------------------------------------------
\* Nothing is set before the file is read.
LEMMA InitSettings == Init => SettingsInv
PROOF
<1>. SUFFICES ASSUME Init PROVE SettingsInv
  OBVIOUS
<1>1. MaxPrefix \in Nat /\ 0 \in 0 .. MaxPrefix - 1 /\ MaxWorkers \in Nat
  BY SettingsAssumption
<1>2. TypeOK
  BY <1>1 DEF Init, TypeOK
<1>3. MainInv /\ WorkersInv /\ OnlyBadSettings
  BY DEF Init, MainInv, WorkersInv, WorkerInv, OnlyBadSettings
<1>. QED
  BY <1>2, <1>3 DEF SettingsInv

\* main reads the file.
LEMMA ReadKeepsSettings == ASSUME SettingsInv, ReadSettings PROVE SettingsInv'
PROOF
<1>. USE DEF SettingsInv
<1>0. /\ phase = "read" /\ memcached_servers = <<>> /\ freed = {} /\ config \in Configs
      /\ UNCHANGED <<config, freed, pc, next, connected, field, frees, delay>>
      /\ \A w \in Workers : pc[w] = "none"
  BY DEF ReadSettings, MainInv, TypeOK, worker
<1>1. /\ workers_count' = Clamped(config.threads, MaxWorkers, DefaultWorkers)
      /\ worker_contention' =
           Clamped(config.contention, MaxContention, DefaultContention)
  BY DEF ReadSettings
<1>2. workers_count' \in Int /\ workers_count' <= MaxWorkers /\ worker_contention' \in Int
  BY <1>0, <1>1, ClampsAndDefaults
<1>3. CASE /\ phase' = "exited"
           /\ UNCHANGED <<memcached_servers, prefixLength, expiration>>
  <2>1. TypeOK'
    BY <1>0, <1>2, <1>3 DEF TypeOK
  <2>2. StringsFreed' = {}
    BY <1>0, <1>3 DEF StringsFreed
  <2>3. MainInv'
    BY <1>0, <1>1, <1>3, <2>2 DEF MainInv
  <2>. QED
    BY <1>0, <1>3, <2>1, <2>3 DEF WorkersInv, WorkerInv, OnlyBadSettings
<1>5. CASE /\ config.servers # Absent /\ ~FitsLine(config.servers)
           /\ phase' = "undefined"
           /\ UNCHANGED <<memcached_servers, prefixLength, expiration>>
  <2>1. TypeOK'
    BY <1>0, <1>2, <1>5 DEF TypeOK
  <2>2. MainInv'
    BY <1>0, <1>1, <1>5 DEF MainInv
  <2>3. OnlyBadSettings'
    BY <1>0, <1>5 DEF OnlyBadSettings, FitsLine
  <2>. QED
    BY <1>0, <1>5, <2>1, <2>2, <2>3 DEF WorkersInv, WorkerInv
<1>4. CASE /\ config.servers # Absent /\ FitsLine(config.servers)
           /\ phase' = "start"
           /\ memcached_servers' = Stored(config.servers)
           /\ prefixLength' = Prefix(config.prefix)
           /\ expiration' = Expiration(config.expiration)
  <2>1. TypeOK'
    BY <1>0, <1>2, <1>4, ConfigList, ClampsAndDefaults DEF TypeOK
  <2>2. MainInv'
    BY <1>0, <1>1, <1>4 DEF MainInv
  <2>. QED
    BY <1>0, <1>4, <2>1, <2>2 DEF WorkersInv, WorkerInv, OnlyBadSettings
<1>. QED
  BY <1>3, <1>4, <1>5 DEF ReadSettings

\* The rest of main: the workers are started, and the names freed at the end.
LEMMA MainKeepsSettings ==
  ASSUME SettingsInv, StartWorkers \/ Exit
  PROVE  SettingsInv'
PROOF
<1>. USE DEF SettingsInv
<1>1. CASE StartWorkers
  <2>1. /\ phase = "start" /\ phase' \in {"serve", "undefined"}
        /\ phase' = "undefined" => workers_count <= 0
        /\ UNCHANGED <<config, workers_count, worker_contention, memcached_servers,
                       prefixLength, expiration, freed, next, connected, field,
                       frees, delay>>
        /\ pc' = [w \in Workers |-> IF w <= workers_count THEN "new" ELSE "none"]
    BY <1>1 DEF StartWorkers, settings
  <2>2. /\ config.servers # Absent /\ FitsLine(config.servers) /\ config \in Configs
        /\ \A w \in Workers : pc[w] = "none" /\ pc'[w] \in {"new", "none"}
    BY <2>1 DEF MainInv, TypeOK
  <2>3. TypeOK'
    BY <2>1, <2>2 DEF TypeOK
  <2>4. MainInv'
    BY <2>1, <2>2 DEF MainInv
  <2>5. WorkersInv'
    BY <2>1, <2>2 DEF WorkersInv, WorkerInv
  <2>6. OnlyBadSettings'
    BY <2>1, <2>2, ClampsAndDefaults DEF OnlyBadSettings, MainInv
  <2>. QED
    BY <2>3, <2>4, <2>5, <2>6
<1>2. CASE Exit
  <2>1. /\ phase \in {"start", "serve"} /\ phase' = "exited" /\ freed' = StringsFreed
        /\ UNCHANGED <<config, workers_count, worker_contention, memcached_servers,
                       prefixLength, expiration, pc, next, connected, field,
                       frees, delay>>
    BY <1>2 DEF Exit, settings, worker
  <2>2. StringsFreed' = StringsFreed /\ StringsFreed \subseteq DOMAIN memcached_servers
    BY <2>1 DEF StringsFreed
  <2>3. TypeOK'
    BY <2>1, <2>2 DEF TypeOK
  <2>4. MainInv'
    BY <2>1, <2>2 DEF MainInv
  <2>. QED
    BY <2>1, <2>3, <2>4 DEF WorkersInv, WorkerInv, OnlyBadSettings, Usable
<1>. QED
  BY <1>1, <1>2

\* What a step of the worker w has to show: the rest has not changed.
LEMMA WorkerStep ==
  ASSUME SettingsInv, NEW w \in Workers,
         phase = "serve", phase' \in {"serve", "undefined"},
         UNCHANGED <<config, settings, freed>>,
         pc' \in [Workers -> {"none", "new", "connect", "ready", "ended"}],
         next' \in [Workers -> Nat],
         connected' \in [Workers -> Seq(Servers)],
         field' \in [Workers -> {"junk", "null", "freed"}],
         frees' \in [Workers -> Nat], delay' \in Nat,
         \A x \in Workers : x # w =>
           UNCHANGED <<pc[x], next[x], connected[x], field[x], frees[x]>>,
         WorkerInv(w)', OnlyBadSettings'
  PROVE  SettingsInv'
PROOF
<1>1. UNCHANGED <<workers_count, worker_contention, memcached_servers, prefixLength,
                  expiration>>
  BY DEF settings
<1>2. TypeOK'
  BY <1>1 DEF SettingsInv, TypeOK
<1>3. MainInv'
  BY <1>1 DEF SettingsInv, MainInv
<1>4. ASSUME NEW x \in Workers, x # w PROVE WorkerInv(x)'
  <2>1. WorkerInv(x) /\ UNCHANGED <<pc[x], next[x], connected[x], field[x], frees[x]>>
    BY <1>4 DEF SettingsInv, WorkersInv
  <2>2. Usable' = Usable /\ config' = config
    BY DEF Usable
  <2>. QED
    BY <2>1, <2>2, SMTT(30) DEF WorkerInv
<1>. QED
  BY <1>2, <1>3, <1>4 DEF SettingsInv, WorkersInv

\* What a worker that has started may rely on.
LEMMA WorkerStarted ==
  ASSUME SettingsInv, NEW w \in Workers, phase = "serve", pc[w] # "none"
  PROVE  /\ config \in Configs /\ config.servers # Absent
         /\ FitsLine(config.servers)
         /\ memcached_servers = Stored(config.servers)
         /\ pc \in [Workers -> {"none", "new", "connect", "ready", "ended"}]
         /\ next \in [Workers -> Nat]
         /\ connected \in [Workers -> Seq(Servers)]
         /\ field \in [Workers -> {"junk", "null", "freed"}]
         /\ frees \in [Workers -> Nat]
         /\ delay \in Nat
         /\ WorkerInv(w)
PROOF
  BY DEF SettingsInv, TypeOK, MainInv, WorkersInv

\* A worker starts on the list.
LEMMA InitClientsKeepsSettings ==
  ASSUME SettingsInv, NEW w \in Workers, InitClients(w)
  PROVE  SettingsInv'
PROOF
<1>1. /\ phase = "serve" /\ phase' = "serve" /\ pc[w] = "new"
      /\ pc' = [pc EXCEPT ![w] = "connect"]
      /\ UNCHANGED <<config, settings, freed, next, connected, field, frees, delay>>
  BY DEF InitClients
<1>2. /\ WorkerInv(w) /\ config \in Configs /\ config.servers # Absent
      /\ FitsLine(config.servers)
  BY <1>1, WorkerStarted
<1>3. Usable \in Seq(Servers) /\ Len(config.servers) \in Nat /\ Upto(Usable, 0) = <<>>
  BY <1>2, ConfigList, FirstServers
<1>4. WorkerInv(w)'
  <2>1. pc'[w] = "connect" /\ Usable' = Usable
    BY <1>1 DEF SettingsInv, TypeOK, Usable
  <2>2. next[w] - 1 = 0 /\ next[w] \in 1 .. Len(config.servers) + 1
    BY <1>1, <1>2, <1>3 DEF WorkerInv
  <2>. QED
    BY <1>1, <1>2, <1>3, <2>1, <2>2 DEF WorkerInv
<1>5. OnlyBadSettings'
  BY <1>1 DEF OnlyBadSettings
<1>. QED
  BY <1>1, <1>4, <1>5, WorkerStep, WorkerStarted DEF TypeOK

\* What a worker knows of the element it looks at.
LEMMA NextServer ==
  ASSUME SettingsInv, NEW w \in Workers, phase = "serve", pc[w] = "connect",
         next[w] <= Len(memcached_servers)
  PROVE  /\ Usable \in Seq(Servers) /\ Len(Usable) \in Nat
         /\ Len(config.servers) \in Nat
         /\ next[w] \in 1 .. Len(config.servers)
         /\ IF next[w] <= Len(Usable)
            THEN /\ Server(w) = Usable[next[w]] /\ Server(w) # Null
                 /\ Server(w) \in Servers /\ Server(w) \in Range(config.servers)
            ELSE Server(w) = Null
PROOF
<1>1. /\ WorkerInv(w) /\ config \in Configs /\ config.servers # Absent
      /\ FitsLine(config.servers)
      /\ memcached_servers = Stored(config.servers)
      /\ next \in [Workers -> Nat]
  BY WorkerStarted
<1>2. next[w] \in 1 .. Len(config.servers)
  BY <1>1, ConfigList DEF WorkerInv
<1>. QED
  BY <1>1, <1>2, ConfigList DEF Server

\* A worker connects to the next server of the list, or passes over a NULL.
LEMMA ConnectKeepsSettings ==
  ASSUME SettingsInv, NEW w \in Workers, Connect(w)
  PROVE  SettingsInv'
PROOF
<1>. DEFINE k == next[w]
            s == Server(w)
<1>1. /\ phase = "serve" /\ pc[w] = "connect" /\ k <= Len(memcached_servers)
      /\ next' = [next EXCEPT ![w] = @ + 1]
      /\ UNCHANGED <<config, phase, settings, freed, pc, frees, delay>>
  BY DEF Connect
<1>2. /\ WorkerInv(w) /\ config \in Configs /\ config.servers # Absent
      /\ FitsLine(config.servers)
      /\ pc \in [Workers -> {"none", "new", "connect", "ready", "ended"}]
      /\ next \in [Workers -> Nat] /\ connected \in [Workers -> Seq(Servers)]
      /\ field \in [Workers -> {"junk", "null", "freed"}]
      /\ frees \in [Workers -> Nat] /\ delay \in Nat
  BY <1>1, WorkerStarted
<1>3. /\ Usable \in Seq(Servers) /\ Len(Usable) \in Nat /\ Len(config.servers) \in Nat
      /\ k \in 1 .. Len(config.servers) /\ k - 1 \in Nat /\ k \in Nat
      /\ IF k <= Len(Usable) THEN s = Usable[k] /\ s \in Servers /\ s # Null ELSE s = Null
  BY <1>1, NextServer
<1>4. /\ connected[w] = Upto(Usable, k - 1) /\ frees[w] = 0
      /\ field[w] = IF connected[w] = <<>> THEN "junk" ELSE "null"
  BY <1>1, <1>2 DEF WorkerInv
<1>5. next'[w] = k + 1 /\ k + 1 \in 1 .. Len(config.servers) + 1 /\ (k + 1) - 1 = k
      /\ (k - 1) + 1 = k
  <2>1. next'[w] = k + 1
    BY <1>1, <1>2
  <2>2. k + 1 \in 1 .. Len(config.servers) + 1 /\ (k + 1) - 1 = k /\ (k - 1) + 1 = k
    <3>. HIDE DEF k
    <3>. QED
      BY <1>3
  <2>. QED
    BY <2>1, <2>2
<1>6. next' \in [Workers -> Nat] /\ (\A x \in Workers : x # w => next'[x] = next[x])
      /\ Usable' = Usable
  BY <1>1, <1>2 DEF Usable
<1>7. OnlyBadSettings'
  BY <1>1 DEF OnlyBadSettings
<1>. HIDE DEF k, s
<1>8. CASE s = Null /\ UNCHANGED <<connected, field>>
  <2>1. ~(k <= Len(Usable)) /\ Len(Usable) <= k - 1 /\ Len(Usable) <= k
    BY <1>3, <1>8
  <2>2. Upto(Usable, k) = Upto(Usable, k - 1)
    BY <1>3, <2>1, FirstServers
  <2>3. WorkerInv(w)'
    BY <1>1, <1>2, <1>4, <1>5, <1>6, <1>8, <2>2 DEF WorkerInv
  <2>. QED
    BY <1>1, <1>2, <1>6, <1>7, <1>8, <2>3, WorkerStep DEF TypeOK
<1>9. CASE /\ s # Null
           /\ field' = [field EXCEPT ![w] = FieldAfterConnect]
           /\ connected' = [connected EXCEPT ![w] = Append(@, s)]
  <2>1. k <= Len(Usable) /\ s = Usable[k] /\ s \in Servers
    BY <1>3, <1>9
  <2>2. Upto(Usable, k) = Append(connected[w], s) /\ Upto(Usable, k) # <<>>
    BY <1>3, <1>4, <1>5, <2>1, FirstServers
  <2>3. /\ connected'[w] = Upto(Usable, k) /\ field'[w] = "null"
        /\ connected' \in [Workers -> Seq(Servers)]
        /\ field' \in [Workers -> {"junk", "null", "freed"}]
        /\ \A x \in Workers : x # w => UNCHANGED <<connected[x], field[x]>>
    BY <1>2, <1>9, <2>1, <2>2 DEF FieldAfterConnect
  <2>4. WorkerInv(w)'
    BY <1>1, <1>2, <1>4, <1>5, <1>6, <2>2, <2>3 DEF WorkerInv
  <2>. QED
    BY <1>1, <1>2, <1>6, <1>7, <2>3, <2>4, WorkerStep DEF TypeOK
<1>. QED
  BY <1>8, <1>9 DEF Connect, s

\* A connection that fails: the worker ends, or its message overruns the log's
\* buffer.
LEMMA FailConnectKeepsSettings ==
  ASSUME SettingsInv, NEW w \in Workers, FailConnect(w)
  PROVE  SettingsInv'
PROOF
<1>1. /\ phase = "serve" /\ pc[w] = "connect" /\ next[w] <= Len(memcached_servers)
      /\ Server(w) # Null
      /\ UNCHANGED <<config, settings, freed, next, connected, delay>>
  BY DEF FailConnect
<1>2. /\ WorkerInv(w) /\ config \in Configs /\ config.servers # Absent
      /\ FitsLine(config.servers)
      /\ pc \in [Workers -> {"none", "new", "connect", "ready", "ended"}]
      /\ next \in [Workers -> Nat] /\ connected \in [Workers -> Seq(Servers)]
      /\ field \in [Workers -> {"junk", "null", "freed"}]
      /\ frees \in [Workers -> Nat] /\ delay \in Nat
  BY <1>1, WorkerStarted
<1>3. frees[w] = 0
  BY <1>1, <1>2 DEF WorkerInv
<1>4. CASE Server(w) \in LongServers /\ phase' = "undefined" /\ UNCHANGED <<pc, field, frees>>
  <2>1. Server(w) \in Range(config.servers)
    BY <1>1, NextServer
  <2>2. OnlyBadSettings'
    BY <1>1, <1>4, <2>1 DEF OnlyBadSettings
  <2>3. WorkerInv(w)'
    BY <1>1, <1>2, <1>4 DEF WorkerInv, Usable
  <2>. QED
    BY <1>1, <1>2, <1>4, <2>2, <2>3, WorkerStep DEF TypeOK
<1>5. CASE /\ field' = [field EXCEPT ![w] = FieldAfterConnect]
           /\ Destroy(FieldAfterConnect)
           /\ frees' = [frees EXCEPT ![w] = FreesAfterError(w)]
           /\ pc' = [pc EXCEPT ![w] = "ended"]
  <2>1. /\ phase' = "serve" /\ frees'[w] = 1 /\ pc'[w] = "ended"
        /\ frees' \in [Workers -> Nat]
        /\ field' \in [Workers -> {"junk", "null", "freed"}]
        /\ pc' \in [Workers -> {"none", "new", "connect", "ready", "ended"}]
        /\ \A x \in Workers : x # w => UNCHANGED <<pc[x], field[x], frees[x]>>
    BY <1>1, <1>2, <1>3, <1>5 DEF Destroy, FieldAfterConnect, FreesAfterError
  <2>2. WorkerInv(w)'
    BY <1>1, <1>2, <2>1 DEF WorkerInv
  <2>3. OnlyBadSettings'
    BY <2>1 DEF OnlyBadSettings
  <2>. QED
    BY <1>1, <1>2, <2>1, <2>2, <2>3, WorkerStep DEF TypeOK
<1>. QED
  BY <1>4, <1>5 DEF FailConnect

\* The end of the list: the worker is connected to all of it.
LEMMA EndConnectKeepsSettings ==
  ASSUME SettingsInv, NEW w \in Workers, EndConnect(w)
  PROVE  SettingsInv'
PROOF
<1>1. /\ phase = "serve" /\ phase' = "serve" /\ pc[w] = "connect"
      /\ next[w] > Len(memcached_servers)
      /\ pc' = [pc EXCEPT ![w] = "ready"]
      /\ UNCHANGED <<config, settings, freed, next, connected, field, frees, delay>>
  BY DEF EndConnect
<1>2. /\ WorkerInv(w) /\ config \in Configs /\ config.servers # Absent
      /\ FitsLine(config.servers)
      /\ memcached_servers = Stored(config.servers)
      /\ pc \in [Workers -> {"none", "new", "connect", "ready", "ended"}]
  BY <1>1, WorkerStarted
<1>3. Usable \in Seq(Servers) /\ next[w] - 1 \in Nat /\ Len(Usable) <= next[w] - 1
  BY <1>1, <1>2, ConfigList DEF WorkerInv
<1>4. Upto(Usable, next[w] - 1) = Usable
  BY <1>3, FirstServers
<1>5. pc'[w] = "ready" /\ Usable' = Usable
  BY <1>1, <1>2 DEF Usable
<1>6. WorkerInv(w)'
  BY <1>1, <1>2, <1>4, <1>5 DEF WorkerInv
<1>7. OnlyBadSettings'
  BY <1>1 DEF OnlyBadSettings
<1>. QED
  BY <1>1, <1>6, <1>7, WorkerStep, WorkerStarted DEF TypeOK

\* A delay: the divisor is zero only for a contention of -1.
LEMMA SleepKeepsSettings ==
  ASSUME SettingsInv, NEW w \in Workers, Sleep(w)
  PROVE  SettingsInv'
PROOF
<1>1. /\ phase = "serve" /\ pc[w] = "ready"
      /\ UNCHANGED <<config, settings, freed, pc, next, connected, field, frees>>
  BY DEF Sleep, worker
<1>2. WorkerInv(w) /\ config \in Configs
  BY <1>1, WorkerStarted
<1>3. /\ worker_contention \in Int /\ RandMax \in Nat /\ delay \in Nat
      /\ worker_contention + 1 = 0 => config.contention = -1
  BY <1>1, <1>2, ClampsAndDefaults, SettingsAssumption DEF SettingsInv, TypeOK, MainInv
<1>4. /\ phase' \in {"serve", "undefined"} /\ delay' \in Nat
      /\ phase' = "undefined" => worker_contention + 1 = 0
  <2>1. CASE worker_contention + 1 = 0
    BY <1>1, <1>3, <2>1 DEF Sleep
  <2>2. CASE worker_contention + 1 # 0
    <3>1. phase' = "serve"
      BY <1>1, <2>2 DEF Sleep
    <3>2. PICK r \in 0 .. RandMax : delay' = Remainder(r, worker_contention + 1)
      BY <2>2 DEF Sleep
    <3>3. r \in Nat /\ worker_contention + 1 \in Int
      BY <1>3
    <3>. QED
      BY <2>2, <3>1, <3>2, <3>3, RemainderNatural
  <2>. QED
    BY <2>1, <2>2
<1>5. WorkerInv(w)'
  BY <1>1, <1>2 DEF WorkerInv, Usable
<1>6. OnlyBadSettings'
  BY <1>1, <1>3, <1>4 DEF OnlyBadSettings
<1>. QED
  BY <1>1, <1>4, <1>5, <1>6, WorkerStep, WorkerStarted DEF TypeOK

\* The end of a worker: memc->servers is NULL if there was a server at all.
LEMMA StopKeepsSettings ==
  ASSUME SettingsInv, NEW w \in Workers, Stop(w)
  PROVE  SettingsInv'
PROOF
<1>1. /\ phase = "serve" /\ pc[w] = "ready" /\ Destroy(field[w])
      /\ pc' = [pc EXCEPT ![w] = "ended"]
      /\ frees' = [frees EXCEPT ![w] = @ + 1]
      /\ UNCHANGED <<config, settings, freed, next, connected, field, delay>>
  BY DEF Stop
<1>2. /\ WorkerInv(w) /\ config \in Configs /\ config.servers # Absent
      /\ FitsLine(config.servers)
      /\ pc \in [Workers -> {"none", "new", "connect", "ready", "ended"}]
      /\ frees \in [Workers -> Nat]
  BY <1>1, WorkerStarted
<1>3. /\ phase' \in {"serve", "undefined"} /\ (phase' = "undefined" => Usable = <<>>)
      /\ frees[w] = 0
  BY <1>1, <1>2 DEF WorkerInv, Destroy
<1>4. /\ pc'[w] = "ended" /\ frees'[w] = 1 /\ frees' \in [Workers -> Nat]
      /\ pc' \in [Workers -> {"none", "new", "connect", "ready", "ended"}]
      /\ \A x \in Workers : x # w => UNCHANGED <<pc[x], frees[x]>>
  BY <1>1, <1>2, <1>3
<1>5. WorkerInv(w)'
  BY <1>1, <1>2, <1>4 DEF WorkerInv
<1>6. OnlyBadSettings'
  BY <1>1, <1>3 DEF OnlyBadSettings, Usable
<1>. QED
  BY <1>1, <1>3, <1>4, <1>5, <1>6, WorkerStep, WorkerStarted DEF TypeOK

\* The invariant: the settings are a function of the file, and a worker that has
\* looked at n elements of the list is connected to the first n complete servers
\* (queral.c:185-216, 257-271, 415-430).
THEOREM SettingsInvariant == Spec => []SettingsInv
PROOF
<1>1. SettingsInv /\ [Next]_vars => SettingsInv'
  <2>. SUFFICES ASSUME SettingsInv, [Next]_vars PROVE SettingsInv'
    OBVIOUS
  <2>1. CASE UNCHANGED vars
    <3>1. /\ UNCHANGED <<config, phase, workers_count, worker_contention>>
          /\ UNCHANGED <<memcached_servers, prefixLength, expiration, freed>>
          /\ UNCHANGED <<pc, next, connected, field, frees, delay>>
      BY <2>1 DEF vars, settings, worker
    <3>2. TypeOK'
      BY <3>1 DEF SettingsInv, TypeOK
    <3>3. MainInv'
      BY <3>1 DEF SettingsInv, MainInv, StringsFreed
    <3>. QED
      BY <3>1, <3>2, <3>3
      DEF SettingsInv, WorkersInv, WorkerInv, Usable, OnlyBadSettings
  <2>. QED
    BY <2>1, ReadKeepsSettings, MainKeepsSettings, InitClientsKeepsSettings,
       ConnectKeepsSettings, FailConnectKeepsSettings, EndConnectKeepsSettings,
       SleepKeepsSettings, StopKeepsSettings
    DEF Next
<1>. QED
  BY <1>1, InitSettings, PTL DEF Spec

\* Every setting keeps its range; the prefix fits key_prefix with its NUL, and
\* there are never more workers than MAX_WORKERS (config_utils.c:39-51,
\* 133-141, queral.c:185-216).
THEOREM SettingsTypes == Spec => []TypeOK
PROOF
<1>1. SettingsInv => TypeOK
  BY DEF SettingsInv
<1>. QED
  BY <1>1, SettingsInvariant, PTL

\* A worker that takes lines is connected to the complete servers of the
\* configuration, each once and in their order (config_utils.c:101-131,
\* queral.c:415-430).
THEOREM ConnectsToConfiguredServers == Spec => []UsesConfiguredServers
PROOF
<1>1. SettingsInv => UsesConfiguredServers
  BY DEF SettingsInv, WorkersInv, WorkerInv, UsesConfiguredServers, Usable
<1>. QED
  BY <1>1, SettingsInvariant, PTL

\* Every worker destroys its clients once, and the program frees every name in
\* its list: NULL stands behind the names only (queral.c:423-424, 526-527,
\* 659-671, string_utils.c:92-99).
THEOREM EverythingFreedOnce == Spec => []FreedOnce
PROOF
<1>1. SettingsInv => FreedOnce
  <2>. SUFFICES ASSUME SettingsInv PROVE FreedOnce
    OBVIOUS
  <2>1. \A w \in Workers : frees[w] = IF pc[w] = "ended" THEN 1 ELSE 0
    BY DEF SettingsInv, TypeOK, WorkersInv, WorkerInv
  <2>2. ASSUME phase = "exited", NEW k \in DOMAIN memcached_servers,
               memcached_servers[k] # Null
        PROVE  k \in freed
    <3>1. /\ config \in Configs /\ freed = StringsFreed
          /\ config.servers # Absent /\ FitsLine(config.servers)
          /\ memcached_servers = Stored(config.servers)
      BY <2>2 DEF SettingsInv, TypeOK, MainInv
    <3>2. k \in 1 .. Len(config.servers) /\ k <= Len(Usable) /\ Len(Usable) \in Nat
          /\ Len(config.servers) \in Nat
      BY <2>2, <3>1, ConfigList
    <3>3. \A m \in 1 .. k : m \in 1 .. Len(config.servers) /\ m <= Len(Usable)
      BY <3>2
    <3>4. \A m \in 1 .. k : memcached_servers[m] # Null
      BY <3>1, <3>3, ConfigList
    <3>. QED
      BY <2>2, <3>1, <3>4 DEF StringsFreed
  <2>. QED
    BY <2>1, <2>2 DEF FreedOnce
<1>. QED
  BY <1>1, SettingsInvariant, PTL

\* The settings lead to undefined behaviour in five ways only: no worker at all,
\* a contention of -1, a server too long for a line or for the message about a
\* connection that fails, and a list of servers none of which is complete
\* (queral.c:260-263, sleep_utils.c:30, config_utils.c:122, queral.c:421,
\* memcached_client.c:33).
THEOREM OnlyBadSettingsUndefined == Spec => []OnlyBadSettings
PROOF
<1>1. SettingsInv => OnlyBadSettings
  BY DEF SettingsInv
<1>. QED
  BY <1>1, SettingsInvariant, PTL
=============================================================================
