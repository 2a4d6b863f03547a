----------------------------- MODULE PageCache ------------------------------
(***************************************************************************)
(* What a worker does with a FETCH or CACHE line (worker_thread,           *)
(* curl_client.c, memcached_client.c).  Each worker has a cURL handle with *)
(* a download buffer of its own; the workers share the memcached servers   *)
(* and hold no lock while they work, so two of them may treat the same     *)
(* page at the same time.                                                  *)
(*                                                                         *)
(* The web server and memcached are external: pages change at any time, a  *)
(* transfer or a command to memcached may fail, and a record may expire.   *)
(* A page is a sequence of chunks <<u, v, i>>: the i-th chunk of version v *)
(* of the page at u, as write_callback receives them.  A version may have  *)
(* no chunk at all, and its text, what comes before the first NUL, may be  *)
(* shorter than the page or empty.                                         *)
(***************************************************************************)
EXTENDS Naturals, Sequences

CONSTANTS Workers,
          Urls,
          ChunksOf,     \* ChunksOf[u][v]: how many chunks version v of u has
          TextOf,       \* TextOf[u][v]: how many come before its first NUL
          MemoryChunks, \* what the download buffer holds
          KeyFits,      \* KeyFits[u]: prefix and URL make a key of legal size
          MaxVersion,   \* bound on the changes of each page
          MaxJobs,      \* bound on the lines taken
          Absent        \* no record

ASSUME CacheAssumption ==
  /\ Urls # {}
  /\ MaxVersion \in Nat
  /\ ChunksOf \in [Urls -> [0 .. MaxVersion -> Nat]]
  /\ TextOf \in [Urls -> [0 .. MaxVersion -> Nat]]
  /\ \A u \in Urls, v \in 0 .. MaxVersion : TextOf[u][v] <= ChunksOf[u][v]
  /\ MemoryChunks \in Nat
  /\ KeyFits \in [Urls -> BOOLEAN]
  /\ MaxJobs \in Nat

VARIABLES
  version,  \* version[u]: the page the web server has at u
  record,   \* record[u]: the value under u's key and the version it was made from
  pc,       \* pc[w]: where worker w is
  url,      \* url[w]: what is left of its line, the URL
  enabled,  \* buffer.enabled of its cURL handle
  memory,   \* buffer.memory of its cURL handle
  serving,  \* serving[w]: the version its transfer carries
  jobs,     \* the lines taken so far
  base,     \* base[w]: the version at url[w] when w took its line
  cleared,  \* cleared[w]: memcached has confirmed w's deletion
  rival     \* rival[w]: another worker was treating the same page meanwhile

history == <<base, cleared, rival>>
vars == <<version, record, pc, url, enabled, memory, serving, jobs, history>>

Page(u, v) == [i \in 1 .. ChunksOf[u][v] |-> <<u, v, i>>]

\* What memcached holds for a key: a value, which may be empty, or nothing.
Chunks == Urls \X (0 .. MaxVersion) \X Nat
Records == [from : 0 .. MaxVersion, text : Seq(Chunks)]

ASSUME AbsentAssumption == Absent \notin Records

\* "idle", "stored" and "failed" are the same place in the code, the top of the
\* loop; they keep apart how the last line ended.
Busy(w) == pc[w] \in {"delete", "start", "transfer", "store"}
Caching(w) == pc[w] = "delete" \/ (Busy(w) /\ enabled[w])

Init ==
  /\ version = [u \in Urls |-> 0]
  /\ record = [u \in Urls |-> Absent]
  /\ pc = [w \in Workers |-> "idle"]
  /\ url = [w \in Workers |-> CHOOSE u \in Urls : TRUE]
  /\ enabled = [w \in Workers |-> FALSE]
  /\ memory = [w \in Workers |-> <<>>]
  /\ serving = [w \in Workers |-> 0]
  /\ jobs = 0
  /\ base = [w \in Workers |-> 0]
  /\ cleared = [w \in Workers |-> FALSE]
  /\ rival = [w \in Workers |-> FALSE]

-----------------------------------------------------------------------------
(* Mutants.                                                                *)

\* The result of curl_fetch_url ignored.
StoreAnyway == "store"

\* curl_fetch_url without the memset and the reset of buffer.size.
BufferKept(w) == memory[w]

\* The record left in place until the new page is there.
RecordKept(u) == record[u]

\* The buffer taken to be one chunk larger than it is.
SpaceOffByOne(i) == i <= MemoryChunks + 1

-----------------------------------------------------------------------------
(* worker_thread.                                                          *)

\* Where a failed transfer leads.
AfterFailure == "failed"

\* The download buffer after the clean-up in curl_fetch_url.
CleanBuffer(w) == <<>>

\* write_callback's test: the buffer has room for an i-th chunk.
HasSpace(i) == i <= MemoryChunks

\* The record after a memcached_delete that succeeds.
DeletedRecord(u) == Absent

\* What memcached_set is given: strlen takes the page to end at a NUL, which
\* may be its first byte, and the memset leaves one behind a page of no byte.
Value(w) ==
  LET text == TextOf[url[w]][serving[w]] IN
  [from |-> serving[w],
   text |-> SubSeq(memory[w], 1, IF Len(memory[w]) < text THEN Len(memory[w]) ELSE text)]

Goto(w, place) == pc' = [pc EXCEPT ![w] = place]

NextLine(w, u) ==
  /\ ~Busy(w)
  /\ jobs < MaxJobs
  /\ jobs' = jobs + 1
  /\ url' = [url EXCEPT ![w] = u]

\* FETCH: the page is downloaded and thrown away.
TakeFetch(w, u) ==
  /\ NextLine(w, u)
  /\ enabled' = [enabled EXCEPT ![w] = FALSE]
  /\ Goto(w, "start")
  /\ UNCHANGED <<version, record, memory, serving, history>>

\* CACHE, when create_key refuses the key.
RefuseKey(w, u) ==
  /\ NextLine(w, u)
  /\ ~KeyFits[u]
  /\ Goto(w, "idle")
  /\ UNCHANGED <<version, record, enabled, memory, serving, history>>

TakeCache(w, u) ==
  /\ NextLine(w, u)
  /\ KeyFits[u]
  /\ Goto(w, "delete")
  /\ base' = [base EXCEPT ![w] = version[u]]
  /\ cleared' = [cleared EXCEPT ![w] = FALSE]
  /\ LET others == {x \in Workers \ {w} : Caching(x) /\ url[x] = u}
     IN  rival' = [x \in Workers |->
                     IF x = w THEN others # {} ELSE rival[x] \/ x \in others]
  /\ UNCHANGED <<version, record, enabled, memory, serving>>

\* memcached_delete_record, whose result is ignored, and buffer.enabled = 1.
DeleteRecord(w) ==
  /\ pc[w] = "delete"
  /\ \/ /\ record' = [record EXCEPT ![url[w]] = DeletedRecord(url[w])]
        /\ cleared' = [cleared EXCEPT ![w] = TRUE]
     \/ UNCHANGED <<record, cleared>>
  /\ enabled' = [enabled EXCEPT ![w] = TRUE]
  /\ Goto(w, "start")
  /\ UNCHANGED <<version, url, memory, serving, jobs, base, rival>>

\* curl_fetch_url up to the server's answer, one version of the page.
StartTransfer(w) ==
  /\ pc[w] = "start"
  /\ memory' = [memory EXCEPT ![w] = CleanBuffer(w)]
  /\ serving' = [serving EXCEPT ![w] = version[url[w]]]
  /\ Goto(w, "transfer")
  /\ UNCHANGED <<version, record, url, enabled, jobs, history>>

\* write_callback with the buffer enabled; a chunk the buffer has no room for
\* makes cURL end the transfer with an error.
ReceiveChunk(w) ==
  LET i == Len(memory[w]) + 1 IN
  /\ pc[w] = "transfer"
  /\ enabled[w]
  /\ i <= ChunksOf[url[w]][serving[w]]
  /\ \/ /\ HasSpace(i)
        /\ memory' = [memory EXCEPT ![w] = Append(@, <<url[w], serving[w], i>>)]
        /\ UNCHANGED pc
     \/ ~HasSpace(i) /\ Goto(w, AfterFailure) /\ UNCHANGED memory
  /\ UNCHANGED <<version, record, url, enabled, serving, jobs, history>>

\* curl_easy_perform returns CURLE_OK, for an empty page too.
EndTransfer(w) ==
  /\ pc[w] = "transfer"
  /\ \/ ~enabled[w] /\ Goto(w, "idle")
     \/ /\ enabled[w]
        /\ Len(memory[w]) = ChunksOf[url[w]][serving[w]]
        /\ Goto(w, "store")
  /\ UNCHANGED <<version, record, url, enabled, memory, serving, jobs, history>>

\* It returns an error: no connection, a broken one, a timeout.
FailTransfer(w) ==
  /\ pc[w] = "transfer"
  /\ Goto(w, IF enabled[w] THEN AfterFailure ELSE "idle")
  /\ UNCHANGED <<version, record, url, enabled, memory, serving, jobs, history>>

\* memcached_override_record, whose result is ignored.
StoreRecord(w) ==
  /\ pc[w] = "store"
  /\ \/ /\ record' = [record EXCEPT ![url[w]] = Value(w)]
        /\ Goto(w, "stored")
     \/ UNCHANGED record /\ Goto(w, "failed")
  /\ UNCHANGED <<version, url, enabled, memory, serving, jobs, history>>

-----------------------------------------------------------------------------
(* The web server and memcached.                                           *)
ChangePage(u) ==
  /\ version[u] < MaxVersion
  /\ version' = [version EXCEPT ![u] = @ + 1]
  /\ UNCHANGED <<record, pc, url, enabled, memory, serving, jobs, history>>

ExpireRecord(u) ==
  /\ record[u] # Absent
  /\ record' = [record EXCEPT ![u] = Absent]
  /\ UNCHANGED <<version, pc, url, enabled, memory, serving, jobs, history>>

Next ==
  \/ \E w \in Workers, u \in Urls :
       TakeFetch(w, u) \/ RefuseKey(w, u) \/ TakeCache(w, u)
  \/ \E w \in Workers :
       \/ DeleteRecord(w) \/ StartTransfer(w) \/ ReceiveChunk(w)
       \/ EndTransfer(w) \/ FailTransfer(w) \/ StoreRecord(w)
  \/ \E u \in Urls : ChangePage(u) \/ ExpireRecord(u)

Spec == Init /\ [][Next]_vars

-----------------------------------------------------------------------------
(* Properties.                                                             *)
\* Ranges of the workers' state and of the records.
TypeOK ==
  /\ version \in [Urls -> 0 .. MaxVersion]
  /\ record \in [Urls -> Records \union {Absent}]
  /\ pc \in [Workers -> {"idle", "delete", "start", "transfer", "store",
                         "stored", "failed"}]
  /\ url \in [Workers -> Urls]
  /\ enabled \in [Workers -> BOOLEAN]
  /\ memory \in [Workers -> Seq(Chunks)]
  /\ \A w \in Workers : Len(memory[w]) <= MemoryChunks
  /\ serving \in [Workers -> 0 .. MaxVersion]
  /\ jobs \in 0 .. MaxJobs
  /\ base \in [Workers -> 0 .. MaxVersion]
  /\ cleared \in [Workers -> BOOLEAN]
  /\ rival \in [Workers -> BOOLEAN]

\* A record under a page's key is that page as the server had it at one time,
\* whole up to its first NUL: never part of a download that failed, nothing
\* left in a worker's buffer by another line.  An empty value is there only if
\* the server had a page without text, not because a transfer brought nothing
\* (queral.c:475-490, curl_client.c:29-47, 96-98, memcached_client.c:92-93).
Text(u, v) == SubSeq(Page(u, v), 1, TextOf[u][v])
WholePages ==
  \A u \in Urls :
    record[u] # Absent => \E v \in 0 .. version[u] : record[u].text = Text(u, v)

\* What is under u's key, be it an empty value, is no older than version v.
NothingOlder(u, v) ==
  record[u] # Absent =>
    /\ record[u].from >= v
    /\ \A i \in DOMAIN record[u].text : record[u].text[i][2] >= v

\* A CACHE line treated with no other worker on the same page leaves nothing
\* under its key that is older than the line, when the page was stored or at
\* least the old record deleted (queral.c:480-489).  With another worker on it
\* the older download may be stored last, and with memcached out of reach the
\* old record stays.
NothingOldSurvives ==
  \A w \in Workers :
    ~rival[w] /\ (pc[w] = "stored" \/ (pc[w] = "failed" /\ cleared[w])) =>
      NothingOlder(url[w], base[w])

\* Whatever the workers do, what a worker stores is no older than the line that
\* asked for it.
StoresWhatWasAskedFor ==
  [][\A w \in Workers :
       pc[w] = "store" /\ pc'[w] = "stored" => NothingOlder(url[w], base[w])']_vars
=============================================================================
