----------------------------- MODULE Lifecycle ------------------------------
(***************************************************************************)
(* Several processes of the daemon over one pid file and one named pipe:   *)
(* daemonize and already_running (daemon_utils.c), create_fifo, and the    *)
(* end of a process, in order or killed.  In between a process serves the  *)
(* pipe, which is the matter of module Dispatcher.                         *)
(*                                                                         *)
(* The init script removes the pid file when it has stopped the daemon, so *)
(* the file a process locks need not be the one its name stands for.       *)
(* Clients write to the pipe's name as the test scripts do, with the       *)
(* shell's >>: with no pipe there, that makes a regular file.              *)
(***************************************************************************)
EXTENDS Naturals, FiniteSets

CONSTANTS Daemons,        \* processes
          ScriptsOverlap, \* a start may run while a stop script is finishing
          MaxLaunches     \* bound on the starts

ASSUME LifecycleAssumption ==
  /\ ScriptsOverlap \in BOOLEAN
  /\ MaxLaunches \in Nat

VARIABLES
  pc,       \* pc[d]: where process d is
  outcome,  \* outcome[d]: how d ended
  script,   \* the stop script: "idle", or "rm" once it saw no process left
  pidfile,  \* the file the pid file's name stands for
  pidfiles, \* pid files made so far, which numbers the next one
  opened,   \* opened[d]: the pid file d has open
  locked,   \* locked[d]: d holds its write lock
  path,     \* what the name of the pipe stands for
  reading,  \* reading[d]: what d's descriptor of the pipe stands for
  fifos,    \* pipes made so far, which numbers the next one
  launches  \* starts so far, for the bound

pidVars == <<script, pidfile, pidfiles>>
lockVars == <<opened, locked>>
pathVars == <<path, fifos>>
vars == <<pc, outcome, pidVars, lockVars, pathVars, reading, launches>>

Nothing == 0
File == 1     \* a regular file; pipes are numbered from 2
Pipes == Nat \ {Nothing, File}

Places == {"off", "fork", "pidfile", "lock", "check", "unlink", "mkfifo", "open", "serve",
           "stop", "join"}

Init ==
  /\ pc = [d \in Daemons |-> "off"]
  /\ outcome = [d \in Daemons |-> "none"]
  /\ script = "idle"
  /\ pidfile = Nothing
  /\ pidfiles = 0
  /\ opened = [d \in Daemons |-> Nothing]
  /\ locked = [d \in Daemons |-> FALSE]
  /\ path = Nothing
  /\ reading = [d \in Daemons |-> Nothing]
  /\ fifos = 0
  /\ launches = 0

-----------------------------------------------------------------------------
(* Mutants.                                                                *)

\* The lock taken without a look at fcntl's result.
NeverRunning(d) == FALSE

\* No unlink: what has the pipe's name is left behind.
NameKept == path

-----------------------------------------------------------------------------
Goto(d, place) == pc' = [pc EXCEPT ![d] = place]

\* The kernel closes the descriptors of a process that ends, which releases
\* its lock; the names of the pipe and of the pid file stay.
EndProcess(d, how) ==
  /\ Goto(d, "off")
  /\ outcome' = [outcome EXCEPT ![d] = how]
  /\ opened' = [opened EXCEPT ![d] = Nothing]
  /\ locked' = [locked EXCEPT ![d] = FALSE]
  /\ reading' = [reading EXCEPT ![d] = Nothing]

GoOn(d, place) == Goto(d, place) /\ UNCHANGED <<outcome, lockVars, reading>>

\* The script starts the program, which loads its configuration.
Launch(d) ==
  /\ pc[d] = "off"
  /\ ScriptsOverlap \/ script = "idle"
  /\ launches < MaxLaunches
  /\ launches' = launches + 1
  /\ outcome' = [outcome EXCEPT ![d] = "none"]
  /\ Goto(d, "fork")
  /\ UNCHANGED <<pidVars, lockVars, pathVars, reading>>

\* fork in daemonize: the parent exits with EXIT_SUCCESS at once and the child
\* goes on, or fork or a step before it fails.  The status the script sees says
\* nothing of the child's later steps.
Fork(d) ==
  /\ pc[d] = "fork"
  /\ GoOn(d, "pidfile") \/ EndProcess(d, "failed")
  /\ UNCHANGED <<pidVars, pathVars, launches>>

\* The rest of daemonize up to the open() in already_running, which makes the
\* pid file when there is none; any of the system calls may fail.
OpenPidFile(d) ==
  /\ pc[d] = "pidfile"
  /\ \/ /\ \/ pidfile # Nothing /\ UNCHANGED <<pidfile, pidfiles>>
           \/ /\ pidfile = Nothing
              /\ pidfiles' = pidfiles + 1
              /\ pidfile' = pidfiles'
        /\ opened' = [opened EXCEPT ![d] = pidfile']
        /\ Goto(d, "lock")
        /\ UNCHANGED <<outcome, locked, reading>>
     \/ EndProcess(d, "failed") /\ UNCHANGED <<pidfile, pidfiles>>
  /\ UNCHANGED <<script, pathVars, launches>>

\* fcntl in lockfile refuses a file that is locked.
AlreadyRunning(d) == \E x \in Daemons : locked[x] /\ opened[x] = opened[d]

TakeLock(d) ==
  /\ pc[d] = "lock"
  /\ \/ /\ ~AlreadyRunning(d)
        /\ locked' = [locked EXCEPT ![d] = TRUE]
        /\ Goto(d, "check")
        /\ UNCHANGED <<outcome, opened, reading>>
     \/ EndProcess(d, "failed")
  /\ UNCHANGED <<pidVars, pathVars, launches>>

\* create_fifo: lstat finds a regular file, and the daemon does not start.
FileInTheWay == path = File

CheckPath(d) ==
  /\ pc[d] = "check"
  /\ \/ FileInTheWay /\ EndProcess(d, "failed")
     \/ ~FileInTheWay /\ GoOn(d, "unlink")
  /\ UNCHANGED <<pidVars, pathVars, launches>>

\* What the name stands for after the unlink in create_fifo.
NameAfterUnlink == Nothing

\* create_fifo: unlink, whatever is there by now.
UnlinkOld(d) ==
  /\ pc[d] = "unlink"
  /\ path' = NameAfterUnlink
  /\ GoOn(d, "mkfifo")
  /\ UNCHANGED <<pidVars, fifos, launches>>

\* create_fifo: mkfifo, which fails when the name has been taken meanwhile.
MakeFifo(d) ==
  /\ pc[d] = "mkfifo"
  /\ \/ /\ path = Nothing
        /\ path' = fifos + 2
        /\ fifos' = fifos + 1
        /\ GoOn(d, "open")
     \/ path # Nothing /\ EndProcess(d, "failed") /\ UNCHANGED pathVars
  /\ UNCHANGED <<pidVars, launches>>

\* create_fifo: open, of what the name stands for.
OpenFifo(d) ==
  /\ pc[d] = "open"
  /\ \/ /\ path # Nothing
        /\ reading' = [reading EXCEPT ![d] = path]
        /\ Goto(d, "serve")
        /\ UNCHANGED <<outcome, lockVars>>
     \/ path = Nothing /\ EndProcess(d, "failed")
  /\ UNCHANGED <<pidVars, pathVars, launches>>

\* A signal has reached the event loop.
HearStop(d) ==
  /\ pc[d] = "serve"
  /\ GoOn(d, "stop")
  /\ UNCHANGED <<pidVars, pathVars, launches>>

\* What the name stands for after the unlink in should_socket_worker_run.
NameAfterStop == Nothing

UnlinkOwn(d) ==
  /\ pc[d] = "stop"
  /\ path' = NameAfterStop
  /\ GoOn(d, "join")
  /\ UNCHANGED <<pidVars, fifos, launches>>

\* The workers are joined and main returns.
Exit(d) ==
  /\ pc[d] = "join"
  /\ EndProcess(d, "stopped")
  /\ UNCHANGED <<pidVars, pathVars, launches>>

\* SIGKILL, a crash, or SIGTERM before the handlers are there.
Kill(d) ==
  /\ pc[d] \in Places \ {"off", "fork"}
  /\ EndProcess(d, "killed")
  /\ UNCHANGED <<pidVars, pathVars, launches>>

-----------------------------------------------------------------------------
(* The init script's do_stop, after it has signalled the daemon.           *)
ScriptSeesNone ==
  /\ script = "idle"
  /\ \A d \in Daemons : pc[d] = "off"
  /\ script' = "rm"
  /\ UNCHANGED <<pc, outcome, pidfile, pidfiles, lockVars, pathVars,
                 reading, launches>>

RemovePidFile ==
  /\ script = "rm"
  /\ script' = "idle"
  /\ pidfile' = Nothing
  /\ UNCHANGED <<pc, outcome, pidfiles, lockVars, pathVars, reading,
                 launches>>

\* A client's  echo '...' >> name  with nothing of that name.
ClientMakesFile ==
  /\ path = Nothing
  /\ path' = File
  /\ UNCHANGED <<pc, outcome, pidVars, lockVars, reading, fifos,
                 launches>>

\* Somebody removes the file that keeps the daemon from starting.
RemoveFile ==
  /\ path = File
  /\ path' = Nothing
  /\ UNCHANGED <<pc, outcome, pidVars, lockVars, reading, fifos,
                 launches>>

Next ==
  \/ \E d \in Daemons :
       \/ Launch(d) \/ Fork(d) \/ OpenPidFile(d) \/ TakeLock(d) \/ CheckPath(d)
       \/ UnlinkOld(d) \/ MakeFifo(d) \/ OpenFifo(d) \/ HearStop(d)
       \/ UnlinkOwn(d) \/ Exit(d) \/ Kill(d)
  \/ ScriptSeesNone \/ RemovePidFile
  \/ ClientMakesFile \/ RemoveFile

Spec == Init /\ [][Next]_vars

-----------------------------------------------------------------------------
(* Properties.                                                             *)

\* Ranges; no two processes hold the lock of one pid file.
TypeOK ==
  /\ pc \in [Daemons -> Places]
  /\ outcome \in [Daemons -> {"none", "failed", "stopped", "killed"}]
  /\ script \in {"idle", "rm"}
  /\ pidfiles \in 0 .. MaxLaunches
  /\ pidfile \in 0 .. pidfiles
  /\ opened \in [Daemons -> 0 .. pidfiles]
  /\ locked \in [Daemons -> BOOLEAN]
  /\ \A d, e \in Daemons :
       locked[d] /\ locked[e] /\ opened[d] = opened[e] => d = e
  /\ fifos \in 0 .. MaxLaunches
  /\ path \in 0 .. fifos + 1
  /\ reading \in [Daemons -> 0 .. fifos + 1]
  /\ launches \in 0 .. MaxLaunches

\* As long as a process serves, the name clients write to is its own pipe: no
\* second start, refused or killed half way, and no process that is still
\* ending takes the name away from it (queral.c:252, 317-332, 534-538,
\* daemon_utils.c:136).
NameIsServed ==
  \A d \in Daemons : pc[d] = "serve" => path = reading[d] /\ path \in Pipes

\* A process that stops removes its own pipe, never the pipe of a successor or
\* a file (queral.c:538).
StopsOwnPipe ==
  [][\A d \in Daemons : pc[d] = "stop" /\ pc'[d] = "join" => path = reading[d]]_vars

\* The name stands for no pipe when a process that starts is about to make one,
\* not even for that of a daemon that was killed, so that mkfifo fails for a
\* client's file only; nor until a process that stops in order has ended, so that
\* no client waits in open() for a reader that never comes (queral.c:327-328,
\* 538).
NoStalePipe ==
  \A d \in Daemons : pc[d] \in {"mkfifo", "join"} => path \notin Pipes

\* "Make sure only one copy of the daemon is running" (daemon_utils.c:135).
OnlyOneCopy ==
  \A d, e \in Daemons : pc[d] = "serve" /\ pc[e] = "serve" => d = e
=============================================================================
