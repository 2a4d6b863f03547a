-------------------------- MODULE PageCacheProofs ---------------------------
(***************************************************************************)
(* Proofs about FETCH and CACHE, for every set of workers and pages, every *)
(* size of a page and of the download buffer and any number of lines and   *)
(* changes.  The argument has two parts.  What a worker's buffer holds     *)
(* during a transfer is the beginning of one version of its page, no older *)
(* than its line (BufferInv).  And a worker that was alone with its page   *)
(* meets nothing older under the key, because whoever stores there later   *)
(* took its line later (FreshInv).                                         *)
(***************************************************************************)
EXTENDS PageCache, SequenceTheorems, TLAPS

Transferring(w) == pc[w] \in {"transfer", "store"} /\ enabled[w]
Ended(w) == pc[w] \in {"stored", "failed"}

\* The buffer of a transfer, and the ages of line, transfer and page.
BufferInv ==
  \A w \in Workers :
    /\ pc[w] = "store" => enabled[w] /\ Len(memory[w]) = ChunksOf[url[w]][serving[w]]
    /\ Transferring(w) =>
         /\ Len(memory[w]) <= ChunksOf[url[w]][serving[w]]
         /\ \A i \in 1 .. Len(memory[w]) : memory[w][i] = <<url[w], serving[w], i>>
         /\ base[w] <= serving[w]
         /\ serving[w] <= version[url[w]]
    /\ Caching(w) \/ Ended(w) => base[w] <= version[url[w]]

\* Who may have stored what under the key of a worker's page.
FreshInv ==
  /\ \A w, x \in Workers :
       w # x /\ Caching(w) /\ Caching(x) /\ url[w] = url[x] => rival[w]
  /\ \A w, x \in Workers :
       w # x /\ Ended(w) /\ ~rival[w] /\ Caching(x) /\ url[w] = url[x] =>
         base[w] <= base[x]
  /\ \A w \in Workers :
       ~rival[w] /\ (pc[w] = "stored" \/ (cleared[w] /\ (Caching(w) \/ pc[w] = "failed"))) =>
         NothingOlder(url[w], base[w])

CacheInv == TypeOK /\ BufferInv /\ WholePages /\ FreshInv

-----------------------------------------------------------------------------
\* A page: a sequence of chunks, all of the same version.
LEMMA PageIsWhole ==
  ASSUME NEW u \in Urls, NEW v \in 0 .. MaxVersion
  PROVE  /\ Page(u, v) \in Seq(Chunks) /\ Len(Page(u, v)) = ChunksOf[u][v]
         /\ \A i \in 1 .. ChunksOf[u][v] : Page(u, v)[i] = <<u, v, i>>
PROOF
<1>1. ChunksOf[u][v] \in Nat
  BY CacheAssumption
<1>2. Page(u, v) \in Seq(Chunks) /\ Len(Page(u, v)) = ChunksOf[u][v]
  BY <1>1, SMTT(40) DEF Page, Chunks
<1>. QED
  BY <1>1, <1>2 DEF Page

\* So is its text.
LEMMA TextIsWhole ==
  ASSUME NEW u \in Urls, NEW v \in 0 .. MaxVersion
  PROVE  /\ Text(u, v) \in Seq(Chunks)
         /\ \A i \in DOMAIN Text(u, v) : Text(u, v)[i] = <<u, v, i>>
PROOF
<1>1. ChunksOf[u][v] \in Nat /\ TextOf[u][v] \in Nat /\ TextOf[u][v] <= ChunksOf[u][v]
  BY CacheAssumption
<1>2. /\ Text(u, v) \in Seq(Chunks) /\ Len(Text(u, v)) = TextOf[u][v]
      /\ \A i \in 1 .. TextOf[u][v] : Text(u, v)[i] = Page(u, v)[i]
  BY <1>1, PageIsWhole DEF Text
<1>3. DOMAIN Text(u, v) = 1 .. TextOf[u][v]
  BY <1>2
<1>4. \A i \in 1 .. TextOf[u][v] : Text(u, v)[i] = <<u, v, i>>
  BY <1>1, <1>2, PageIsWhole
<1>. QED
  BY <1>2, <1>3, <1>4

\* A worker about to store has the text of one version of its page, no older
\* than its line.
LEMMA StoresText ==
  ASSUME TypeOK, BufferInv, NEW w \in Workers, pc[w] = "store"
  PROVE  /\ Value(w) = [from |-> serving[w], text |-> Text(url[w], serving[w])]
         /\ base[w] <= serving[w] /\ serving[w] \in 0 .. version[url[w]]
PROOF
<1>1. /\ Len(memory[w]) = ChunksOf[url[w]][serving[w]]
      /\ \A i \in 1 .. Len(memory[w]) : memory[w][i] = <<url[w], serving[w], i>>
      /\ base[w] <= serving[w] /\ serving[w] \in 0 .. version[url[w]]
  BY DEF TypeOK, BufferInv, Transferring
<1>2. memory[w] \in Seq(Chunks) /\ url[w] \in Urls /\ serving[w] \in 0 .. MaxVersion
  BY DEF TypeOK
<1>3. memory[w] = Page(url[w], serving[w])
  <2>1. /\ Page(url[w], serving[w]) \in Seq(Chunks)
        /\ Len(memory[w]) = Len(Page(url[w], serving[w]))
        /\ \A i \in 1 .. Len(memory[w]) : memory[w][i] = Page(url[w], serving[w])[i]
    <3>1. /\ Page(url[w], serving[w]) \in Seq(Chunks)
          /\ Len(Page(url[w], serving[w])) = ChunksOf[url[w]][serving[w]]
          /\ \A i \in 1 .. ChunksOf[url[w]][serving[w]] :
               Page(url[w], serving[w])[i] = <<url[w], serving[w], i>>
      BY <1>2, PageIsWhole
    <3>. QED
      BY <1>1, <3>1, Zenon
  <2>. QED
    BY <1>2, <2>1, SeqEqual
<1>4. /\ ChunksOf[url[w]][serving[w]] \in Nat /\ TextOf[url[w]][serving[w]] \in Nat
      /\ TextOf[url[w]][serving[w]] <= ChunksOf[url[w]][serving[w]]
  BY <1>2, CacheAssumption
<1>. QED
  BY <1>1, <1>3, <1>4 DEF Value, Text

\* The daemon starts with idle workers and no record.
LEMMA InitCache == Init => CacheInv
PROOF
<1>. SUFFICES ASSUME Init PROVE CacheInv
  OBVIOUS
<1>1. TypeOK
  <2>1. /\ url \in [Workers -> Urls]
        /\ record \in [Urls -> Records \union {Absent}]
        /\ memory \in [Workers -> Seq(Chunks)]
        /\ \A w \in Workers : Len(memory[w]) <= MemoryChunks
    BY CacheAssumption DEF Init
  <2>. QED
    BY <2>1, CacheAssumption DEF Init, TypeOK
<1>2. BufferInv /\ WholePages /\ FreshInv
  BY DEF Init, BufferInv, WholePages, FreshInv, Transferring, Caching, Busy, Ended
<1>. QED
  BY <1>1, <1>2 DEF CacheInv

\* A worker takes its next line.
LEMMA LineKeepsCache ==
  ASSUME CacheInv, NEW w \in Workers, NEW u \in Urls,
         TakeFetch(w, u) \/ RefuseKey(w, u) \/ TakeCache(w, u)
  PROVE  CacheInv'
PROOF
<1>. USE DEF CacheInv
<1>0. NextLine(w, u) /\ UNCHANGED <<version, record, memory, serving>>
  BY DEF TakeFetch, RefuseKey, TakeCache
<1>1. /\ ~Caching(w)
      /\ jobs' \in 0 .. MaxJobs
      /\ url' = [url EXCEPT ![w] = u] /\ url' \in [Workers -> Urls]
      /\ UNCHANGED <<version, record, memory, serving>>
  <2>1. ~Caching(w)
    BY <1>0 DEF NextLine, Caching, Busy
  <2>2. jobs' \in 0 .. MaxJobs
    BY <1>0, CacheAssumption DEF TypeOK, NextLine
  <2>. QED
    BY <1>0, <2>1, <2>2 DEF TypeOK, NextLine
<1>2. WholePages'
  BY <1>1 DEF WholePages
<1>3. CASE TakeFetch(w, u) \/ RefuseKey(w, u)
  <2>1. /\ pc' = [pc EXCEPT ![w] = pc'[w]] /\ pc'[w] \in {"start", "idle"}
        /\ enabled' \in [Workers -> BOOLEAN]
        /\ \A x \in Workers \ {w} : enabled'[x] = enabled[x]
        /\ pc'[w] = "start" => ~enabled'[w]
        /\ UNCHANGED <<base, cleared, rival>>
    BY <1>3 DEF TypeOK, TakeFetch, RefuseKey, Goto, history
  <2>2. TypeOK'
    BY <1>1, <2>1 DEF TypeOK
  <2>3. /\ ~Caching(w)' /\ ~Ended(w)' /\ ~Transferring(w)'
        /\ \A x \in Workers \ {w} :
             /\ Caching(x)' = Caching(x) /\ Ended(x)' = Ended(x)
             /\ Transferring(x)' = Transferring(x)
             /\ pc'[x] = pc[x] /\ url'[x] = url[x]
    BY <1>1, <2>1 DEF TypeOK, Caching, Busy, Ended, Transferring
  <2>4. BufferInv'
    BY <1>1, <2>1, <2>3 DEF BufferInv
  <2>5. FreshInv'
    BY <1>1, <2>1, <2>3 DEF FreshInv, Ended, NothingOlder
  <2>. QED
    BY <1>2, <2>2, <2>4, <2>5
<1>4. CASE TakeCache(w, u)
  <2>1. /\ pc' = [pc EXCEPT ![w] = "delete"] /\ enabled' = enabled
        /\ base' = [base EXCEPT ![w] = version[u]]
        /\ cleared' = [cleared EXCEPT ![w] = FALSE]
        /\ rival' \in [Workers -> BOOLEAN]
        /\ \A x \in Workers : rival[x] /\ x # w => rival'[x]
        /\ \A x \in Workers : x # w /\ rival'[x] # rival[x] => rival'[x]
        /\ \A x \in Workers : x # w /\ Caching(x) /\ url[x] = u => rival'[x] /\ rival'[w]
    BY <1>4 DEF TypeOK, TakeCache, Goto
  <2>2. TypeOK'
    BY <1>1, <2>1 DEF TypeOK
  <2>3. /\ Caching(w)' /\ ~Ended(w)' /\ ~Transferring(w)'
        /\ \A x \in Workers \ {w} :
             /\ Caching(x)' = Caching(x) /\ Ended(x)' = Ended(x)
             /\ Transferring(x)' = Transferring(x)
             /\ pc'[x] = pc[x] /\ url'[x] = url[x] /\ enabled'[x] = enabled[x]
             /\ base'[x] = base[x] /\ cleared'[x] = cleared[x]
    BY <1>1, <2>1 DEF TypeOK, Caching, Busy, Ended, Transferring
  <2>4. BufferInv'
    BY <1>1, <2>1, <2>3, SMTT(40) DEF TypeOK, BufferInv
  <2>5. ASSUME NEW x \in Workers, NEW y \in Workers, x # y, url'[x] = url'[y],
               Caching(y)'
        PROVE  /\ Caching(x)' => rival'[x]
               /\ Ended(x)' /\ ~rival'[x] => base'[x] <= base'[y]
    <3>1. CASE x = w
      BY <1>1, <2>1, <2>3, <2>5, <3>1 DEF TypeOK
    <3>2. CASE y = w
      BY <1>1, <2>1, <2>3, <2>5, <3>2 DEF TypeOK, BufferInv, FreshInv
    <3>3. CASE x # w /\ y # w
      BY <1>1, <2>1, <2>3, <2>5, <3>3 DEF TypeOK, FreshInv
    <3>. QED
      BY <3>1, <3>2, <3>3
  <2>6. FreshInv'
    BY <1>1, <2>1, <2>3, <2>5, SMTT(40) DEF TypeOK, FreshInv, NothingOlder
  <2>. QED
    BY <1>2, <2>2, <2>4, <2>6
<1>. QED
  BY <1>3, <1>4

\* The old record is deleted, or memcached is out of reach.
LEMMA DeleteKeepsCache ==
  ASSUME CacheInv, NEW w \in Workers, DeleteRecord(w)
  PROVE  CacheInv'
PROOF
<1>. USE DEF CacheInv
<1>1. /\ pc[w] = "delete" /\ pc' = [pc EXCEPT ![w] = "start"]
      /\ enabled' = [enabled EXCEPT ![w] = TRUE]
      /\ url[w] \in Urls
      /\ \/ /\ record' = [record EXCEPT ![url[w]] = Absent]
            /\ cleared' = [cleared EXCEPT ![w] = TRUE]
         \/ UNCHANGED <<record, cleared>>
      /\ UNCHANGED <<version, url, memory, serving, jobs, base, rival>>
  BY DEF TypeOK, DeleteRecord, DeletedRecord, Goto
<1>2. TypeOK'
  <2>1. record' \in [Urls -> Records \union {Absent}]
    BY <1>1 DEF TypeOK
  <2>2. cleared' \in [Workers -> BOOLEAN]
    BY <1>1 DEF TypeOK
  <2>. QED
    BY <1>1, <2>1, <2>2 DEF TypeOK
<1>3. /\ Caching(w) /\ Caching(w)' /\ ~Ended(w)' /\ ~Transferring(w)'
      /\ \A x \in Workers : Caching(x)' = Caching(x) /\ Ended(x)' = Ended(x)
      /\ \A x \in Workers \ {w} :
           /\ Transferring(x)' = Transferring(x)
           /\ pc'[x] = pc[x] /\ enabled'[x] = enabled[x] /\ cleared'[x] = cleared[x]
      /\ \A u \in Urls : record'[u] \in {record[u], Absent}
  BY <1>1 DEF TypeOK, Caching, Busy, Ended, Transferring
<1>4. BufferInv'
  BY <1>1, <1>3 DEF TypeOK, BufferInv
<1>5. WholePages'
  BY <1>1, <1>3 DEF WholePages
<1>6. FreshInv'
  <2>1. cleared'[w] => record'[url[w]] = Absent \/ (cleared[w] /\ record' = record)
    BY <1>1 DEF TypeOK
  <2>2. \A x \in Workers : NothingOlder(url[x], base[x]) => NothingOlder(url[x], base[x])'
    BY <1>1, <1>3 DEF TypeOK, NothingOlder
  <2>. QED
    BY <1>1, <1>3, <2>1, <2>2, SMTT(40) DEF TypeOK, FreshInv, NothingOlder
<1>. QED
  BY <1>2, <1>4, <1>5, <1>6

\* curl_fetch_url: what the buffer holds stays the beginning of one version,
\* the one the page had when the transfer began or later.
LEMMA TransferKeepsCache ==
  ASSUME CacheInv, NEW w \in Workers,
         StartTransfer(w) \/ ReceiveChunk(w) \/ EndTransfer(w) \/ FailTransfer(w)
  PROVE  CacheInv'
PROOF
<1>. USE DEF CacheInv
<1>1. /\ pc[w] \in {"start", "transfer"}
      /\ pc' = [pc EXCEPT ![w] = pc'[w]]
      /\ pc'[w] \in {"idle", "transfer", "store", "failed"}
      /\ ~enabled[w] => pc'[w] \in {"idle", "transfer"}
      /\ enabled[w] => pc'[w] # "idle"
      /\ UNCHANGED <<version, record, url, enabled, jobs, base, cleared, rival>>
  BY DEF TypeOK, StartTransfer, ReceiveChunk, EndTransfer, FailTransfer, AfterFailure,
         Goto, history
<1>2. /\ memory' \in [Workers -> Seq(Chunks)] /\ serving' \in [Workers -> 0 .. MaxVersion]
      /\ Len(memory'[w]) <= MemoryChunks
      /\ \A x \in Workers \ {w} : memory'[x] = memory[x] /\ serving'[x] = serving[x]
      /\ Transferring(w)' =>
           /\ Len(memory'[w]) <= ChunksOf[url[w]][serving'[w]]
           /\ \A i \in 1 .. Len(memory'[w]) : memory'[w][i] = <<url[w], serving'[w], i>>
           /\ base[w] <= serving'[w] /\ serving'[w] <= version[url[w]]
      /\ pc'[w] = "store" => enabled[w] /\ Len(memory'[w]) = ChunksOf[url[w]][serving'[w]]
  <2>0. /\ version[url[w]] \in 0 .. MaxVersion /\ MemoryChunks \in Nat /\ MaxVersion \in Nat
        /\ url[w] \in Urls /\ serving[w] \in 0 .. MaxVersion /\ base[w] \in Nat
        /\ memory[w] \in Seq(Chunks) /\ Len(memory[w]) <= MemoryChunks
    BY CacheAssumption DEF TypeOK
  <2>n. \A v \in 0 .. MaxVersion : ChunksOf[url[w]][v] \in Nat
    BY <2>0, CacheAssumption
  <2>1. CASE StartTransfer(w)
    <3>1. /\ memory' = [memory EXCEPT ![w] = <<>>]
          /\ serving' = [serving EXCEPT ![w] = version[url[w]]]
          /\ pc'[w] = "transfer"
      BY <2>1 DEF TypeOK, StartTransfer, CleanBuffer, Goto
    <3>2. enabled[w] => base[w] <= version[url[w]]
      BY <2>1 DEF StartTransfer, BufferInv, Caching, Busy
    <3>3. /\ memory'[w] = <<>> /\ serving'[w] = version[url[w]]
          /\ memory' \in [Workers -> Seq(Chunks)]
          /\ serving' \in [Workers -> 0 .. MaxVersion]
          /\ \A x \in Workers \ {w} : memory'[x] = memory[x] /\ serving'[x] = serving[x]
      BY <2>0, <3>1 DEF TypeOK
    <3>4. ChunksOf[url[w]][serving'[w]] \in Nat /\ Len(memory'[w]) = 0
      BY <2>0, <2>n, <3>3
    <3>5. Transferring(w)' => enabled[w]
      BY <1>1 DEF Transferring
    <3>. QED
      BY <2>0, <3>1, <3>2, <3>3, <3>4, <3>5
  <2>2. CASE ReceiveChunk(w) /\ memory' # memory
    <3>. DEFINE i == Len(memory[w]) + 1
                c == <<url[w], serving[w], i>>
    <3>1. /\ pc[w] = "transfer" /\ enabled[w]
          /\ i <= ChunksOf[url[w]][serving[w]] /\ i <= MemoryChunks
          /\ memory' = [memory EXCEPT ![w] = Append(memory[w], c)]
          /\ UNCHANGED <<serving, pc>>
      BY <2>2 DEF ReceiveChunk, HasSpace
    <3>2. memory[w] \in Seq(Chunks) /\ c \in Chunks
      BY <2>0 DEF TypeOK, Chunks
    <3>3. /\ memory'[w] \in Seq(Chunks) /\ Len(memory'[w]) = i
          /\ memory'[w][i] = c
          /\ \A j \in 1 .. Len(memory[w]) : memory'[w][j] = memory[w][j]
      BY <3>1, <3>2 DEF TypeOK
    <3>4. Transferring(w)
      BY <3>1 DEF Transferring
    <3>5. /\ \A j \in 1 .. Len(memory[w]) : memory[w][j] = <<url[w], serving[w], j>>
          /\ base[w] <= serving[w] /\ serving[w] <= version[url[w]]
      BY <3>4 DEF BufferInv
    <3>6. \A j \in 1 .. i : memory'[w][j] = <<url[w], serving[w], j>>
      <4>1. Len(memory[w]) \in Nat
        BY <3>2
      <4>2. \A j \in 1 .. i : j \in 1 .. Len(memory[w]) \/ j = i
        BY <4>1
      <4>. QED
        BY <3>3, <3>5, <4>2
    <3>7. /\ memory' \in [Workers -> Seq(Chunks)] /\ serving' \in [Workers -> 0 .. MaxVersion]
          /\ \A x \in Workers \ {w} : memory'[x] = memory[x] /\ serving'[x] = serving[x]
      BY <3>1, <3>3 DEF TypeOK
    <3>. QED
      BY <3>1, <3>3, <3>5, <3>6, <3>7
  <2>3. CASE memory' = memory /\ ~StartTransfer(w)
    <3>1. /\ UNCHANGED <<memory, serving>> /\ pc[w] = "transfer"
          /\ pc'[w] = "store" => enabled[w] /\ Len(memory[w]) = ChunksOf[url[w]][serving[w]]
      BY <1>1, <2>3 DEF TypeOK, ReceiveChunk, EndTransfer, FailTransfer, AfterFailure, Goto
    <3>2. Transferring(w)' => Transferring(w)
      BY <1>1, <3>1 DEF Transferring
    <3>. QED
      BY <1>1, <2>0, <3>1, <3>2 DEF TypeOK, BufferInv
  <2>. QED
    BY <2>1, <2>2, <2>3 DEF EndTransfer, FailTransfer
<1>3. TypeOK'
  <2>1. pc' \in [Workers -> {"idle", "delete", "start", "transfer", "store", "stored", "failed"}]
    BY <1>1 DEF TypeOK
  <2>2. \A x \in Workers : Len(memory'[x]) <= MemoryChunks
    BY <1>2 DEF TypeOK
  <2>. QED
    BY <1>1, <1>2, <2>1, <2>2 DEF TypeOK
<1>4. /\ Caching(w)' => Caching(w)
      /\ Ended(w)' => pc'[w] = "failed" /\ Caching(w)
      /\ ~Ended(w)
      /\ \A x \in Workers \ {w} :
           /\ Caching(x)' = Caching(x) /\ Ended(x)' = Ended(x)
           /\ Transferring(x)' = Transferring(x) /\ pc'[x] = pc[x]
  BY <1>1 DEF TypeOK, Caching, Busy, Ended, Transferring
<1>5. BufferInv'
  <2>. SUFFICES ASSUME NEW x \in Workers
                PROVE  /\ pc'[x] = "store" =>
                            enabled[x] /\ Len(memory'[x]) = ChunksOf[url[x]][serving'[x]]
                       /\ Transferring(x)' =>
                            /\ Len(memory'[x]) <= ChunksOf[url[x]][serving'[x]]
                            /\ \A i \in 1 .. Len(memory'[x]) :
                                 memory'[x][i] = <<url[x], serving'[x], i>>
                            /\ base[x] <= serving'[x]
                            /\ serving'[x] <= version[url[x]]
                       /\ Caching(x)' \/ Ended(x)' => base[x] <= version[url[x]]
    BY <1>1, Zenon DEF BufferInv
  <2>1. CASE x = w
    BY <1>2, <1>4, <2>1 DEF BufferInv
  <2>2. CASE x # w
    <3>1. /\ memory'[x] = memory[x] /\ serving'[x] = serving[x] /\ pc'[x] = pc[x]
          /\ Transferring(x)' = Transferring(x)
          /\ Caching(x)' = Caching(x) /\ Ended(x)' = Ended(x)
      BY <1>2, <1>4, <2>2
    <3>. QED
      BY <3>1 DEF BufferInv
  <2>. QED
    BY <2>1, <2>2
<1>6. WholePages'
  BY <1>1 DEF WholePages
<1>7. FreshInv'
  <2>1. \A x \in Workers : NothingOlder(url[x], base[x])' = NothingOlder(url[x], base[x])
    BY <1>1 DEF NothingOlder
  <2>2. \A x, y \in Workers :
          x # y /\ Caching(x)' /\ Caching(y)' /\ url'[x] = url'[y] => rival'[x]
    BY <1>1, <1>4 DEF FreshInv
  <2>3. \A x, y \in Workers :
          x # y /\ Ended(x)' /\ ~rival'[x] /\ Caching(y)' /\ url'[x] = url'[y] =>
            base'[x] <= base'[y]
    BY <1>1, <1>4 DEF FreshInv
  <2>4. \A x \in Workers :
          ~rival'[x] /\ (pc'[x] = "stored" \/ (cleared'[x] /\ (Caching(x)' \/ pc'[x] = "failed")))
            => NothingOlder(url[x], base[x])'
    BY <1>1, <1>4, <2>1 DEF FreshInv, Ended
  <2>. QED
    BY <2>2, <2>3, <2>4 DEF FreshInv
<1>. QED
  BY <1>3, <1>5, <1>6, <1>7

\* memcached_override_record: the record becomes the text of the version the
\* worker was sent, or stays.
LEMMA StoreKeepsCache ==
  ASSUME CacheInv, NEW w \in Workers, StoreRecord(w)
  PROVE  CacheInv'
PROOF
<1>. USE DEF CacheInv
<1>. DEFINE Stored == [from |-> serving[w], text |-> Text(url[w], serving[w])]
<1>1. /\ pc[w] = "store" /\ enabled[w] /\ url[w] \in Urls
      /\ pc' = [pc EXCEPT ![w] = pc'[w]]
      /\ \/ /\ record' = [record EXCEPT ![url[w]] = Stored]
            /\ pc'[w] = "stored"
         \/ UNCHANGED record /\ pc'[w] = "failed"
      /\ UNCHANGED <<version, url, enabled, memory, serving, jobs, base, cleared, rival>>
  BY StoresText DEF TypeOK, BufferInv, StoreRecord, Goto, history
<1>2. /\ base[w] <= serving[w] /\ serving[w] \in 0 .. version[url[w]]
      /\ serving[w] \in 0 .. MaxVersion
  BY <1>1, StoresText DEF TypeOK
<1>3. TypeOK'
  <2>1. pc' \in [Workers -> {"idle", "delete", "start", "transfer", "store", "stored", "failed"}]
    BY <1>1 DEF TypeOK
  <2>0. Stored \in Records
    BY <1>1, <1>2, TextIsWhole DEF Records
  <2>2. record' \in [Urls -> Records \union {Absent}]
    BY <1>1, <2>0 DEF TypeOK
  <2>. QED
    BY <1>1, <2>1, <2>2 DEF TypeOK
<1>4. /\ Caching(w) /\ ~Caching(w)' /\ ~Transferring(w)' /\ Ended(w)'
      /\ \A x \in Workers \ {w} :
           /\ Caching(x)' = Caching(x) /\ Ended(x)' = Ended(x)
           /\ Transferring(x)' = Transferring(x) /\ pc'[x] = pc[x]
  BY <1>1 DEF TypeOK, Caching, Busy, Ended, Transferring
<1>5. BufferInv'
  BY <1>1, <1>4 DEF BufferInv
<1>6. WholePages'
  <2>. SUFFICES ASSUME NEW q \in Urls, record'[q] # Absent
                PROVE  \E v \in 0 .. version[q] : record'[q].text = Text(q, v)
    BY <1>1 DEF WholePages
  <2>1. CASE record'[q] = record[q]
    BY <2>1 DEF WholePages
  <2>2. CASE q = url[w] /\ record'[q] = Stored
    BY <1>2, <2>2
  <2>. QED
    BY <1>1, <2>1, <2>2 DEF TypeOK
<1>7. FreshInv'
  <2>0. /\ Stored.from = serving[w]
        /\ \A i \in DOMAIN Stored.text : Stored.text[i][2] = serving[w]
    BY <1>1, <1>2, TextIsWhole
  <2>. HIDE DEF Stored
  <2>1. \A x \in Workers :
          url[x] # url[w] \/ base[x] <= base[w] =>
            (NothingOlder(url[x], base[x]) => NothingOlder(url[x], base[x])')
    <3>. SUFFICES ASSUME NEW x \in Workers, NothingOlder(url[x], base[x]),
                         url[x] # url[w] \/ base[x] <= base[w]
                  PROVE  NothingOlder(url[x], base[x])'
      OBVIOUS
    <3>1. CASE record'[url[x]] = record[url[x]]
      BY <1>1, <3>1 DEF NothingOlder
    <3>2. CASE url[x] = url[w] /\ record'[url[w]] = Stored
      <4>1. base[x] <= serving[w]
        BY <1>2, <3>2 DEF TypeOK
      <4>. QED
        BY <1>1, <2>0, <3>2, <4>1 DEF NothingOlder
    <3>. QED
      BY <1>1, <3>1, <3>2 DEF TypeOK
  <2>2. pc'[w] = "stored" => NothingOlder(url[w], base[w])'
    <3>. SUFFICES ASSUME pc'[w] = "stored"
                  PROVE  NothingOlder(url[w], base[w])'
      OBVIOUS
    <3>1. record'[url[w]] = Stored
      BY <1>1 DEF TypeOK
    <3>. QED
      BY <1>1, <1>2, <2>0, <3>1 DEF NothingOlder
  <2>3. \A x, y \in Workers :
          x # y /\ Caching(x)' /\ Caching(y)' /\ url'[x] = url'[y] => rival'[x]
    BY <1>1, <1>4 DEF FreshInv
  <2>4. \A x, y \in Workers :
          x # y /\ Ended(x)' /\ ~rival'[x] /\ Caching(y)' /\ url'[x] = url'[y] =>
            base'[x] <= base'[y]
    BY <1>1, <1>4 DEF FreshInv
  <2>5. ASSUME NEW x \in Workers, ~rival'[x],
               pc'[x] = "stored" \/ (cleared'[x] /\ (Caching(x)' \/ pc'[x] = "failed"))
        PROVE  NothingOlder(url[x], base[x])'
    <3>1. CASE x = w
      BY <1>1, <1>4, <2>2, <2>5, <3>1 DEF FreshInv, NothingOlder
    <3>2. CASE x # w
      <4>1. NothingOlder(url[x], base[x])
        BY <1>1, <1>4, <2>5, <3>2 DEF FreshInv
      <4>2. url[x] # url[w] \/ base[x] <= base[w]
        BY <1>1, <1>4, <2>5, <3>2 DEF FreshInv, Ended
      <4>. QED
        BY <2>1, <4>1, <4>2
    <3>. QED
      BY <3>1, <3>2
  <2>. QED
    BY <2>3, <2>4, <2>5 DEF FreshInv
<1>. QED
  BY <1>3, <1>5, <1>6, <1>7

\* Pages grow newer and records go away: neither makes anything older.
LEMMA WorldKeepsCache ==
  ASSUME CacheInv, NEW u \in Urls, ChangePage(u) \/ ExpireRecord(u)
  PROVE  CacheInv'
PROOF
<1>. USE DEF CacheInv
<1>1. /\ version' \in [Urls -> 0 .. MaxVersion]
      /\ \A q \in Urls : version[q] <= version'[q]
      /\ record' \in [Urls -> Records \union {Absent}]
      /\ \A q \in Urls : record'[q] \in {record[q], Absent}
      /\ UNCHANGED <<pc, url, enabled, memory, serving, jobs, base, cleared, rival>>
  <2>1. CASE ChangePage(u)
    <3>1. /\ MaxVersion \in Nat /\ version \in [Urls -> 0 .. MaxVersion]
          /\ version[u] < MaxVersion /\ version' = [version EXCEPT ![u] = version[u] + 1]
      BY <2>1, CacheAssumption DEF TypeOK, ChangePage
    <3>2. /\ version' \in [Urls -> 0 .. MaxVersion]
          /\ \A q \in Urls : version[q] <= version'[q]
      BY <3>1
    <3>. QED
      BY <2>1, <3>2 DEF TypeOK, ChangePage, history
  <2>2. CASE ExpireRecord(u)
    <3>1. /\ record' = [record EXCEPT ![u] = Absent]
          /\ record' \in [Urls -> Records \union {Absent}]
          /\ UNCHANGED <<version, pc, url, enabled, memory, serving, jobs, base, cleared, rival>>
      BY <2>2 DEF TypeOK, ExpireRecord, history
    <3>2. \A q \in Urls : version[q] <= version'[q]
      BY <3>1, CacheAssumption DEF TypeOK
    <3>. QED
      BY <3>1, <3>2 DEF TypeOK
  <2>. QED
    BY <2>1, <2>2
<1>1a. /\ MaxVersion \in Nat /\ url \in [Workers -> Urls]
      /\ version \in [Urls -> Nat] /\ version' \in [Urls -> Nat]
      /\ serving \in [Workers -> Nat] /\ base \in [Workers -> Nat]
  <2>1. 0 .. MaxVersion \subseteq Nat
    OBVIOUS
  <2>. QED
    BY <1>1, <2>1, CacheAssumption DEF TypeOK
<1>2. TypeOK'
  BY <1>1 DEF TypeOK
<1>3. BufferInv'
  <2>1. \A w \in Workers :
          /\ Transferring(w)' = Transferring(w)
          /\ Caching(w)' = Caching(w) /\ Ended(w)' = Ended(w)
    BY <1>1 DEF Transferring, Caching, Busy, Ended
  <2>2. \A w \in Workers, n \in Nat : n <= version[url[w]] => n <= version'[url[w]]
    BY <1>1a, <1>1
  <2>3. \A w \in Workers : serving[w] \in Nat /\ base[w] \in Nat
    BY <1>1a
  <2>. QED
    BY <1>1, <2>1, <2>2, <2>3 DEF BufferInv
<1>4. WholePages'
  <2>. SUFFICES ASSUME NEW q \in Urls, record'[q] # Absent
                PROVE  \E v \in 0 .. version'[q] :
                         record'[q].text = Text(q, v)
    BY DEF WholePages
  <2>0. record'[q] = record[q] /\ record[q] # Absent
    BY <1>1
  <2>1. PICK v \in 0 .. version[q] : record[q].text = Text(q, v)
    BY <2>0 DEF WholePages
  <2>2. v \in 0 .. version'[q]
    BY <1>1a, <1>1
  <2>. QED
    BY <2>0, <2>1, <2>2
<1>5. FreshInv'
  <2>1. \A x \in Workers : NothingOlder(url[x], base[x]) => NothingOlder(url[x], base[x])'
    BY <1>1 DEF TypeOK, NothingOlder
  <2>. QED
    BY <1>1, <2>1 DEF FreshInv, Caching, Busy, Ended
<1>. QED
  BY <1>2, <1>3, <1>4, <1>5

\* The invariant holds of every behaviour of the workers (queral.c:461-490).
THEOREM CacheInvariant == Spec => []CacheInv
PROOF
<1>1. Init => CacheInv
  BY InitCache
<1>2. CacheInv /\ [Next]_vars => CacheInv'
  <2>. SUFFICES ASSUME CacheInv, [Next]_vars PROVE CacheInv'
    OBVIOUS
  <2>1. ASSUME NEW w \in Workers, NEW u \in Urls,
               TakeFetch(w, u) \/ RefuseKey(w, u) \/ TakeCache(w, u)
        PROVE  CacheInv'
    BY <2>1, LineKeepsCache
  <2>2. ASSUME NEW w \in Workers, DeleteRecord(w)
        PROVE  CacheInv'
    BY <2>2, DeleteKeepsCache
  <2>3. ASSUME NEW w \in Workers,
               StartTransfer(w) \/ ReceiveChunk(w) \/ EndTransfer(w) \/ FailTransfer(w)
        PROVE  CacheInv'
    BY <2>3, TransferKeepsCache
  <2>4. ASSUME NEW w \in Workers, StoreRecord(w)
        PROVE  CacheInv'
    BY <2>4, StoreKeepsCache
  <2>5. ASSUME NEW u \in Urls, ChangePage(u) \/ ExpireRecord(u)
        PROVE  CacheInv'
    BY <2>5, WorldKeepsCache
  <2>6. CASE UNCHANGED vars
    BY <2>6 DEF vars, history, CacheInv, TypeOK, BufferInv, WholePages, FreshInv,
           Transferring, Caching, Busy, Ended, NothingOlder
  <2>. QED
    BY <2>1, <2>2, <2>3, <2>4, <2>5, <2>6 DEF Next
<1>. QED
  BY <1>1, <1>2, PTL DEF Spec

-----------------------------------------------------------------------------
\* What is under a page's key is the page as the server had it at one time,
\* whole up to its first NUL (queral.c:475-490, curl_client.c:29-47, 96-98).
THEOREM RecordsAreWhole == Spec => []WholePages
PROOF
<1>1. CacheInv => WholePages
  BY DEF CacheInv
<1>. QED
  BY <1>1, CacheInvariant, PTL

\* Ranges; a worker's buffer is never filled beyond its size, however long the
\* page is (curl_client.c:29-47).
THEOREM CacheTypes == Spec => []TypeOK
PROOF
<1>1. CacheInv => TypeOK
  BY DEF CacheInv
<1>. QED
  BY <1>1, CacheInvariant, PTL

\* A CACHE line treated with no other worker on its page leaves nothing older
\* than itself, if memcached confirmed the deletion or the store
\* (queral.c:480-489).
THEOREM OldPagesGo == Spec => []NothingOldSurvives
PROOF
<1>1. CacheInv => NothingOldSurvives
  BY DEF CacheInv, FreshInv, NothingOldSurvives
<1>. QED
  BY <1>1, CacheInvariant, PTL

\* Whatever the other workers do, a worker stores nothing that is older than
\* the line that asked for it (queral.c:480-489, curl_client.c:96-98).
THEOREM StoresNothingOlder == Spec => StoresWhatWasAskedFor
PROOF
<1>1. CacheInv /\ [Next]_vars =>
        [\A w \in Workers :
           pc[w] = "store" /\ pc'[w] = "stored" => NothingOlder(url[w], base[w])']_vars
  <2>. SUFFICES ASSUME CacheInv, Next, NEW w \in Workers,
                       pc[w] = "store", pc'[w] = "stored"
                PROVE  NothingOlder(url[w], base[w])'
    BY DEF vars
  <2>1. StoreRecord(w)
    <3>. USE DEF CacheInv, TypeOK, Goto
    <3>1. ASSUME NEW x \in Workers, NEW u \in Urls,
                 TakeFetch(x, u) \/ RefuseKey(x, u) \/ TakeCache(x, u)
          PROVE  FALSE
      BY <3>1 DEF TakeFetch, RefuseKey, TakeCache, NextLine, Busy
    <3>2. ASSUME NEW x \in Workers, DeleteRecord(x) \/ StartTransfer(x)
          PROVE  FALSE
      BY <3>2 DEF DeleteRecord, StartTransfer
    <3>3. ASSUME NEW x \in Workers, ReceiveChunk(x) \/ EndTransfer(x) \/ FailTransfer(x)
          PROVE  FALSE
      BY <3>3 DEF ReceiveChunk, EndTransfer, FailTransfer, AfterFailure
    <3>4. ASSUME NEW u \in Urls, ChangePage(u) \/ ExpireRecord(u)
          PROVE  FALSE
      BY <3>4 DEF ChangePage, ExpireRecord
    <3>5. ASSUME NEW x \in Workers, StoreRecord(x), x # w
          PROVE  FALSE
      BY <3>5 DEF StoreRecord
    <3>. HIDE DEF CacheInv, TypeOK, Goto
    <3>. QED
      BY <3>1, <3>2, <3>3, <3>4, <3>5 DEF Next
  <2>. DEFINE Stored == [from |-> serving[w], text |-> Text(url[w], serving[w])]
  <2>2. /\ record'[url[w]] = Stored
        /\ UNCHANGED <<url, base>>
        /\ url[w] \in Urls /\ serving[w] \in 0 .. MaxVersion
    BY <2>1, StoresText DEF CacheInv, TypeOK, StoreRecord, Goto, history
  <2>3. base[w] <= serving[w]
    BY StoresText DEF CacheInv
  <2>4. /\ Stored.from = serving[w]
        /\ \A i \in DOMAIN Stored.text : Stored.text[i][2] = serving[w]
    BY <2>2, TextIsWhole
  <2>. HIDE DEF Stored
  <2>. QED
    BY <2>2, <2>3, <2>4 DEF NothingOlder
<1>. QED
  BY <1>1, CacheInvariant, PTL DEF Spec, StoresWhatWasAskedFor
=============================================================================
