----------------------------- MODULE Dispatcher -----------------------------
(***************************************************************************)
(* The threads of queral.c: the main thread, which starts the daemon and   *)
(* then runs the event loop over the command pipe; the SIGTERM/SIGINT      *)
(* handler, which runs on the main thread between any two of its steps     *)
(* (create_thread blocks every signal in the workers); and the worker      *)
(* threads.  They share the job queue (module FifoQueue), url_count and    *)
(* should_run, under one mutex with one condition variable.                *)
(*                                                                         *)
(* The pipe holds whole lines.  How reads cut lines into pieces is another *)
(* matter, but the five bytes the handler writes, "QUIT" with no newline,  *)
(* are kept apart from lines here: they are never a command of their own.  *)
(*                                                                         *)
(* A worker's critical section does not block and touches nothing that is  *)
(* read outside the mutex, so it is one step.  The main thread's sections  *)
(* are two, because a signal may come in between.                          *)
(***************************************************************************)
EXTENDS FifoQueue, FiniteSets

CONSTANTS RefreshList,  \* RefreshList[j]: the CACHE lines an UPDATE line j
                        \* stands for; empty for any other line
          Garbled,      \* a line get_command does not understand
          Quit,         \* the handler's unterminated "QUIT"
          PipeCapacity, \* what the pipe holds before a writer blocks
          MaxBatch,     \* what one read() returns at most
          MaxCommands,  \* bound on the lines clients write
          MaxSignals    \* bound on the signals delivered

ASSUME DispatcherAssumption ==
  /\ IsFiniteSet(Workers)
  /\ RefreshList \in [Jobs -> Seq(Jobs)]
  /\ Garbled \in Jobs
  /\ Quit \notin Jobs
  /\ PipeCapacity \in Nat \ {0}
  /\ MaxBatch \in Nat \ {0}
  /\ MaxCommands \in Nat
  /\ MaxSignals \in Nat

VARIABLES
  url_count,    \* tokens for the workers: lines queued, then stop orders
  should_run,   \* cleared by the handler, never set again
  mutex,        \* who holds `mutex': Free, Main or Handler
  mpc,          \* where the main thread is
  hpc,          \* where the handler is: "idle" when it does not run
  wpc,          \* wpc[w]: where worker w is
  todo,         \* todo[w]: what is left of the refresh list w walks
  pipe,         \* the content of the named pipe
  batch,        \* read_buffer: what was read and not parsed yet
  linked,       \* the pipe's name exists in the file system
  qlife,        \* "raw" before fifo_init, "live", "freed" after fifo_destroy
  sent, signals \* lines and signals so far, for the bounds

mainVars == <<mpc, batch, linked, qlife>>
workVars == <<wpc, todo>>
vars == <<queueVars, url_count, should_run, mutex, mpc, hpc, wpc, todo, pipe,
          batch, linked, qlife, sent, signals>>

Free == "free"
Main == "main"
Handler == "handler"

Startup == {"fifo", "spawn", "watch"}
Over == {"exited", "crashed"}
MainStates == Startup \union Over \union
  {"poll", "checking", "return", "read", "parse", "enqueue", "unlooped", "join",
   "cleanup", "library"}

\* "uncreated": pthread_create failed; "dead": worker_thread's own
\* initialisation failed; "stopped": left the loop on a stop order.
Ended == {"uncreated", "dead", "stopped"}
WorkerStates == Ended \union
  {"unborn", "init", "lock", "wait", "job", "update", "write", "sleep"}

Threads(pcs) == {w \in Workers : wpc[w] \in pcs}

\* ev_io_start sets watcher.active and nothing clears it.
WatcherActive == mpc \notin Startup

PipeHasRoom == Len(pipe) < PipeCapacity

-----------------------------------------------------------------------------
Init ==
  /\ QueueInit
  /\ url_count = 0
  /\ should_run = TRUE
  /\ mutex = Free
  /\ mpc = "fifo"
  /\ hpc = "idle"
  /\ wpc = [w \in Workers |-> "unborn"]
  /\ todo = [w \in Workers |-> <<>>]
  /\ pipe = <<>>
  /\ batch = <<>>
  /\ linked = FALSE
  /\ qlife = "raw"
  /\ sent = 0
  /\ signals = 0

-----------------------------------------------------------------------------
(* Mutants: plausible slips, each to be caught by a property below.        *)

\* cond_wait entered only when the count is negative, or not re-tested.
NoWorkLoose == url_count < 0

\* The broadcast forgotten.
NobodyWoken == wpc

\* One stop order for the whole pool.
OneStopOrder == 1

\* The last thread is not joined.
AllButOneEnded == Cardinality(Threads(Ended)) + 1 >= Cardinality(Workers)

\* The token counted before the queue had its say.
TokenAlways(ok) == 1

-----------------------------------------------------------------------------
(* What both sides of the condition variable do.                           *)

\* The test of the worker's while loop.
NoWork == url_count < 1

\* wpc after pthread_cond_broadcast: every waiter goes for the mutex again.
Woken == [w \in Workers |-> IF wpc[w] = "wait" THEN "lock" ELSE wpc[w]]

\* The stop orders should_socket_worker_run adds, one per configured worker.
StopOrders == Cardinality(Workers)

AllEnded == Threads(Ended) = Workers

\* The url_count++ that follows a successful fifo_enqueue.
Token(ok) == IF ok THEN 1 ELSE 0

\* The clean-up is inside free or syslog, whose locks syslog takes too.
InLibrary == mpc = "library"

-----------------------------------------------------------------------------
(* The main thread: main() from the installation of the handlers on.  It    *)
(* makes no step while the handler runs.                                    *)
MainAt(pc) == hpc = "idle" /\ mpc = pc

\* create_fifo; on failure exit_ ends the process.
CreateFifo ==
  /\ MainAt("fifo")
  /\ \/ mpc' = "spawn" /\ linked' = TRUE
     \/ mpc' = "exited" /\ UNCHANGED linked
  /\ UNCHANGED <<queueVars, url_count, should_run, mutex, hpc, workVars, pipe,
                 batch, qlife, sent, signals>>

\* One round of the loop around create_thread; a failure is only logged.
SpawnWorker(w) ==
  /\ MainAt("spawn")
  /\ wpc[w] = "unborn"
  /\ \E pc \in {"init", "uncreated"} : wpc' = [wpc EXCEPT ![w] = pc]
  /\ UNCHANGED <<queueVars, url_count, should_run, mutex, mainVars, hpc, todo,
                 pipe, sent, signals>>

\* fifo_init, after the threads that will use the queue have been started.
InitQueue ==
  /\ MainAt("spawn")
  /\ Threads({"unborn"}) = {}
  /\ mpc' = "watch"
  /\ qlife' = "live"
  /\ UNCHANGED <<queueVars, url_count, should_run, mutex, hpc, workVars, pipe,
                 batch, linked, sent, signals>>

\* ev_io_start, and ev_loop waits for the pipe to become readable.
StartWatcher ==
  /\ MainAt("watch")
  /\ mpc' = "poll"
  /\ UNCHANGED <<queueVars, url_count, should_run, mutex, hpc, workVars, pipe,
                 batch, linked, qlife, sent, signals>>

\* The pipe is readable: socket_cb runs and should_socket_worker_run locks.
SocketReady ==
  /\ MainAt("poll")
  /\ pipe # <<>>
  /\ mutex = Free
  /\ mutex' = Main
  /\ mpc' = "checking"
  /\ UNCHANGED <<queueVars, url_count, should_run, hpc, workVars, pipe, batch,
                 linked, qlife, sent, signals>>

\* The critical section of should_socket_worker_run.  When a stop has been
\* asked for, it destroys the loop, removes the pipe's name and leaves one
\* stop order per worker.
CheckRun ==
  /\ MainAt("checking")
  /\ mutex' = Free
  /\ \/ /\ should_run
        /\ mpc' = "return"
        /\ UNCHANGED <<url_count, wpc, linked>>
     \/ /\ ~should_run
        /\ mpc' = "unlooped"
        /\ linked' = FALSE
        /\ url_count' = url_count + StopOrders
        /\ wpc' = Woken
  /\ UNCHANGED <<queueVars, should_run, hpc, todo, pipe, batch, qlife, sent,
                 signals>>

\* `return should_run' reads the variable again, without the mutex.
ReturnRun ==
  /\ MainAt("return")
  /\ mpc' = IF should_run THEN "read" ELSE "poll"
  /\ UNCHANGED <<queueVars, url_count, should_run, mutex, hpc, workVars, pipe,
                 batch, linked, qlife, sent, signals>>

\* read() takes what fits in read_buffer.
ReadPipe ==
  /\ MainAt("read")
  /\ \E n \in 1 .. MaxBatch :
       /\ n <= Len(pipe)
       /\ batch' = SubSeq(pipe, 1, n)
       /\ pipe' = SubSeq(pipe, n + 1, Len(pipe))
  /\ mpc' = "parse"
  /\ UNCHANGED <<queueVars, url_count, should_run, mutex, hpc, workVars,
                 linked, qlife, sent, signals>>

\* What batch[n] is parsed as: bytes without a newline before it join it.
Parsed(n) == IF n = 1 THEN batch[1] ELSE Garbled

\* The first n pieces of read_buffer end in its first newline.
FirstLineAt(n) ==
  /\ n \in DOMAIN batch
  /\ batch[n] # Quit
  /\ \A i \in 1 .. n - 1 : batch[i] = Quit

\* No newline is left: the callback keeps the rest in cache_buffer and ends.
\* What it keeps is a swallowed Quit, so should_run is already FALSE, no later
\* callback reads the pipe and the kept bytes are never looked at again.
EndParse ==
  /\ MainAt("parse")
  /\ \A i \in DOMAIN batch : batch[i] = Quit
  /\ batch' = <<>>
  /\ mpc' = "poll"
  /\ UNCHANGED <<queueVars, url_count, should_run, mutex, hpc, workVars, pipe,
                 linked, qlife, sent, signals>>

LockEnqueue ==
  /\ MainAt("parse")
  /\ \E n \in DOMAIN batch : batch[n] # Quit
  /\ mutex = Free
  /\ mutex' = Main
  /\ mpc' = "enqueue"
  /\ UNCHANGED <<queueVars, url_count, should_run, hpc, workVars, pipe, batch,
                 linked, qlife, sent, signals>>

\* The critical section of socket_cb.  A full queue ends the callback: the
\* line and everything read after it are dropped.
EnqueueLine ==
  /\ MainAt("enqueue")
  /\ mutex' = Free
  /\ \E n \in DOMAIN batch, ok \in BOOLEAN :
       /\ FirstLineAt(n)
       /\ FifoEnqueue(Parsed(n), ok)
       /\ url_count' = url_count + Token(ok)
       /\ IF ok
          THEN /\ wpc' = Woken
               /\ batch' = SubSeq(batch, n + 1, Len(batch))
               /\ mpc' = "parse"
          ELSE /\ batch' = <<>>
               /\ mpc' = "poll"
               /\ UNCHANGED wpc
  /\ UNCHANGED <<job, should_run, hpc, todo, pipe, linked, qlife, sent, signals>>

\* Back in ev_loop, whose loop the callback has freed: it finds loop_done set
\* in the freed memory and returns, or the process dies.
LeaveLoop ==
  /\ MainAt("unlooped")
  /\ mpc' \in {"join", "crashed"}
  /\ UNCHANGED <<queueVars, url_count, should_run, mutex, hpc, workVars, pipe,
                 batch, linked, qlife, sent, signals>>

\* pthread_join for every worker, then the queue, the condition variable and
\* the mutex are destroyed.  The id of a thread that was never created is
\* uninitialised: joining it fails, or kills the process.
JoinWorkers ==
  /\ MainAt("join")
  /\ \/ AllEnded /\ mpc' = "cleanup" /\ qlife' = "freed"
     \/ Threads({"uncreated"}) # {} /\ mpc' = "crashed" /\ UNCHANGED qlife
  /\ UNCHANGED <<queueVars, url_count, should_run, mutex, hpc, workVars, pipe,
                 batch, linked, sent, signals>>

\* The rest of the clean-up frees memory and ends with log_notice.
CleanUp ==
  /\ MainAt("cleanup")
  /\ mpc' = "library"
  /\ UNCHANGED <<queueVars, url_count, should_run, mutex, hpc, workVars, pipe,
                 batch, linked, qlife, sent, signals>>

\* log_notice is done and main returns.
Exit ==
  /\ MainAt("library")
  /\ mpc' = "exited"
  /\ UNCHANGED <<queueVars, url_count, should_run, mutex, hpc, workVars, pipe,
                 batch, linked, qlife, sent, signals>>

-----------------------------------------------------------------------------
(* signal_handler for SIGTERM and SIGINT, from wherever the main thread is. *)
(* sa_mask is full, so it is not interrupted itself.  During the clean-up   *)
(* it locks a mutex that is already destroyed; whether that succeeds makes  *)
(* no difference, as nobody else is left to want it.                        *)
Running == mpc \notin Over

Signal ==
  /\ Running
  /\ hpc = "idle"
  /\ signals < MaxSignals
  /\ signals' = signals + 1
  /\ hpc' = "lock"
  /\ UNCHANGED <<queueVars, url_count, should_run, mutex, mainVars, workVars,
                 pipe, sent>>

\* The handler tells the event loop when there is one.  The open() of write_fifo
\* fails once the pipe's name is gone, and the handler, still holding the mutex,
\* reports that.
HandlerLock ==
  /\ hpc = "lock"
  /\ mutex = Free
  /\ should_run' = FALSE
  /\ \/ ~WatcherActive /\ hpc' = "idle" /\ UNCHANGED mutex
     \/ WatcherActive /\ linked /\ hpc' = "write" /\ mutex' = Handler
     \/ WatcherActive /\ ~linked /\ hpc' = "report" /\ mutex' = Handler
  /\ UNCHANGED <<queueVars, url_count, mainVars, workVars, pipe, sent, signals>>

\* write_fifo ("QUIT") on a descriptor that blocks, then the unlock.
HandlerWrite ==
  /\ hpc = "write"
  /\ PipeHasRoom
  /\ pipe' = Append(pipe, Quit)
  /\ mutex' = Free
  /\ hpc' = "idle"
  /\ UNCHANGED <<queueVars, url_count, should_run, mainVars, workVars, sent,
                 signals>>

\* log_error calls syslog, which waits for a lock that the thread the handler
\* has interrupted may hold; then the unlock.
HandlerReport ==
  /\ hpc = "report"
  /\ ~InLibrary
  /\ mutex' = Free
  /\ hpc' = "idle"
  /\ UNCHANGED <<queueVars, url_count, should_run, mainVars, workVars, pipe, sent,
                 signals>>

-----------------------------------------------------------------------------
(* worker_thread.                                                          *)
WorkerAt(w, pc) == Running /\ wpc[w] = pc

Goto(w, pc) == wpc' = [wpc EXCEPT ![w] = pc]

\* The cURL and memcached clients; on failure the thread returns.
InitWorker(w) ==
  /\ WorkerAt(w, "init")
  /\ \E pc \in {"lock", "dead"} : Goto(w, pc)
  /\ UNCHANGED <<queueVars, url_count, should_run, mutex, mainVars, hpc, todo,
                 pipe, sent, signals>>

\* From pthread_mutex_lock, or from inside pthread_cond_wait, to the unlock.
Acquire(w) ==
  /\ WorkerAt(w, "lock")
  /\ mutex = Free
  /\ \/ /\ NoWork
        /\ Goto(w, "wait")
        /\ UNCHANGED <<queueVars, url_count>>
     \/ /\ ~NoWork
        /\ ~should_run
        /\ Goto(w, "stopped")
        /\ url_count' = url_count - 1
        /\ UNCHANGED queueVars
     \/ /\ ~NoWork
        /\ should_run
        /\ FifoDequeue(w)
        /\ Goto(w, "job")
        /\ url_count' = url_count - 1
  /\ UNCHANGED <<should_run, mutex, mainVars, hpc, todo, pipe, sent, signals>>

\* pthread_cond_wait may return without a broadcast.
SpuriousWake(w) ==
  /\ WorkerAt(w, "wait")
  /\ Goto(w, "lock")
  /\ UNCHANGED <<queueVars, url_count, should_run, mutex, mainVars, hpc, todo,
                 pipe, sent, signals>>

\* get_command and the switch on it.  FETCH and CACHE do their work outside
\* this module; UPDATE goes on to write its refresh list to the pipe.
RunJob(w) ==
  /\ WorkerAt(w, "job")
  /\ UseUp(w)
  /\ IF job[w] \in Jobs /\ RefreshList[job[w]] # <<>>
     THEN Goto(w, "update") /\ todo' = [todo EXCEPT ![w] = RefreshList[job[w]]]
     ELSE Goto(w, "sleep") /\ UNCHANGED todo
  /\ UNCHANGED <<fifoVars, url_count, should_run, mutex, mainVars, hpc, pipe,
                 sent, signals>>

\* The loop over refresh_list up to open() in write_fifo, which fails once the
\* name is gone; the page is then skipped with a message.
OpenFifo(w) ==
  /\ WorkerAt(w, "update")
  /\ \/ todo[w] = <<>> /\ Goto(w, "sleep") /\ UNCHANGED todo
     \/ todo[w] # <<>> /\ linked /\ Goto(w, "write") /\ UNCHANGED todo
     \/ /\ todo[w] # <<>>
        /\ ~linked
        /\ todo' = [todo EXCEPT ![w] = Tail(@)]
        /\ UNCHANGED wpc
  /\ UNCHANGED <<queueVars, url_count, should_run, mutex, mainVars, hpc, pipe,
                 sent, signals>>

\* write() in write_fifo: a short line is written whole, once there is room.
WriteFifo(w) ==
  /\ WorkerAt(w, "write")
  /\ PipeHasRoom
  /\ pipe' = Append(pipe, Head(todo[w]))
  /\ todo' = [todo EXCEPT ![w] = Tail(@)]
  /\ Goto(w, "update")
  /\ UNCHANGED <<queueVars, url_count, should_run, mutex, mainVars, hpc, sent,
                 signals>>

\* sleep_millis (worker_contention).
Sleep(w) ==
  /\ WorkerAt(w, "sleep")
  /\ Goto(w, "lock")
  /\ UNCHANGED <<queueVars, url_count, should_run, mutex, mainVars, hpc, todo,
                 pipe, sent, signals>>

-----------------------------------------------------------------------------
\* A client of the daemon writes a line to the pipe.
Submit(j) ==
  /\ Running
  /\ linked
  /\ PipeHasRoom
  /\ sent < MaxCommands
  /\ sent' = sent + 1
  /\ pipe' = Append(pipe, j)
  /\ UNCHANGED <<queueVars, url_count, should_run, mutex, mainVars, hpc,
                 workVars, signals>>

MainNext ==
  \/ CreateFifo \/ (\E w \in Workers : SpawnWorker(w)) \/ InitQueue
  \/ StartWatcher \/ SocketReady \/ CheckRun \/ ReturnRun \/ ReadPipe
  \/ EndParse \/ LockEnqueue \/ EnqueueLine \/ LeaveLoop \/ JoinWorkers
  \/ CleanUp \/ Exit

HandlerNext == HandlerLock \/ HandlerWrite \/ HandlerReport

WorkerNext(w) ==
  \/ InitWorker(w) \/ Acquire(w) \/ RunJob(w) \/ OpenFifo(w) \/ WriteFifo(w)
  \/ Sleep(w)

Next ==
  \/ MainNext
  \/ Signal
  \/ HandlerNext
  \/ \E w \in Workers : WorkerNext(w) \/ SpuriousWake(w)
  \/ \E j \in Jobs : Submit(j)

Spec == Init /\ [][Next]_vars

\* Every thread runs, and so does the handler once it has started.  A thread
\* that waits for the mutex gets it if it stays free.  Clients, signals and
\* spurious wake-ups owe nothing.
Fairness ==
  /\ WF_vars(MainNext)
  /\ WF_vars(HandlerNext)
  /\ \A w \in Workers : WF_vars(WorkerNext(w))

FairSpec == Spec /\ Fairness
-----------------------------------------------------------------------------
(* Properties.                                                             *)

\* Ranges of the variables of queral.c; url_count holds at most one token per
\* queued line and one stop order per worker.
TypeOK ==
  /\ FifoTypeOK
  /\ url_count \in 0 .. Capacity + Cardinality(Workers)
  /\ should_run \in BOOLEAN
  /\ mutex \in {Free, Main, Handler}
  /\ mpc \in MainStates
  /\ hpc \in {"idle", "lock", "write", "report"}
  /\ wpc \in [Workers -> WorkerStates]
  /\ todo \in [Workers -> Seq(Jobs)]
  /\ pipe \in Seq(Jobs \union {Quit})
  /\ batch \in Seq(Jobs \union {Quit})
  /\ linked \in BOOLEAN
  /\ qlife \in {"raw", "live", "freed"}
  /\ sent \in 0 .. MaxCommands
  /\ signals \in 0 .. MaxSignals

\* While no stop is asked for, url_count is the number of queued lines: two
\* counters under two mutexes, changed by different functions (queral.c:459,
\* 598 and queue.c:71, 85), must agree or a worker takes from an empty queue.
TokenBalance == should_run => url_count = occupied

\* A worker that goes on to interpret its buffer has just been given a line,
\* never the last one again or uninitialised memory: fifo_dequeue cannot
\* report an empty queue (queue.c:87) and worker_thread does not ask.
NoStaleJob == \A w \in Workers : wpc[w] = "job" => job[w] \in Jobs

\* Nobody sleeps on the condition variable while there is a token to take
\* (queral.c:450, 545, 599).
NoLostWakeup == Threads({"wait"}) # {} => url_count = 0

\* Once the stop orders are out there is one for every thread that has not
\* ended, whatever was queued and whoever took a token in between, or
\* pthread_join (queral.c:297) waits for ever.
StopTokens ==
  mpc \in {"unlooped", "join"} =>
    url_count >= Cardinality(Workers \ Threads(Ended))

\* A worker leaves its critical section only between fifo_init and the
\* clean-up: threads start before the queue exists (queral.c:268-277) and
\* the mutex and the queue are destroyed after the joins (queral.c:296-304).
SharedStateLive ==
  [][\A w \in Workers :
       wpc[w] = "lock" /\ wpc'[w] \in {"job", "stopped"} => qlife = "live"]_vars

\* The handler was entered while the main thread held the mutex the handler
\* locks: neither can go on.
SelfDeadlock == hpc = "lock" /\ mutex = Main

\* The handler's write blocks on a full pipe that only the main thread, which
\* it interrupted, could drain.
QuitBlocked == hpc = "write" /\ ~PipeHasRoom

\* The handler's log_error waits for a lock of the C library that the thread it
\* interrupted in the clean-up holds.
ReportBlocked == hpc = "report" /\ InLibrary

\* A worker's write blocks on a full pipe nobody reads any more, and the main
\* thread waits for that worker.
WriterStranded == mpc = "join" /\ Threads({"write"}) # {} /\ ~PipeHasRoom

\* A stop was asked for and the event loop waits on an empty pipe.
StopUnheard == ~should_run /\ mpc = "poll" /\ pipe = <<>> /\ hpc = "idle"

\* A signal ends the daemon (queral.c:640-648, 534-549, 296-311), or the daemon
\* reaches one of the five states above: there is no other way to hang, in
\* particular none in which a worker misses its stop order.
TerminationOrStuck ==
  signals > 0 ~> \/ mpc \in Over
                 \/ SelfDeadlock \/ QuitBlocked \/ ReportBlocked
                 \/ WriterStranded \/ StopUnheard

\* Queued lines are all taken as long as some worker lives and no stop is
\* asked for: a token and its broadcast reach a worker (queral.c:598-599).
JobsDrain ==
  occupied > 0 ~> \/ occupied = 0
                  \/ signals > 0
                  \/ mpc \in Over
                  \/ AllEnded

\* "Signal the socket worker to terminate" (queral.c:644): the handler is able
\* to take the mutex once the thread it interrupted lets it.
NoSelfDeadlock == ~SelfDeadlock
=============================================================================
