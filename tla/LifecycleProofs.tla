-------------------------- MODULE LifecycleProofs --------------------------
(***************************************************************************)
(* Proofs about the life of the daemon's processes, for every set of       *)
(* processes and every number of starts, as long as no start overlaps the  *)
(* end of a stop script (ScriptsOverlap = FALSE).  The argument: the pid   *)
(* file a process has locked is the one the name stands for, so there is   *)
(* one process at most between daemonize and its end, and only that        *)
(* process changes what the name of the pipe stands for, once there is a   *)
(* pipe.  The last part, on the types, is about overlapping scripts too.   *)
(***************************************************************************)
EXTENDS Lifecycle, FiniteSetTheorems, TLAPS

\* The places between the lock and the end, where a process holds the lock.
Holding == {"check", "unlink", "mkfifo", "open", "serve", "stop", "join"}

LifeTypes ==
  /\ pc \in [Daemons -> Places]
  /\ opened \in [Daemons -> Nat]
  /\ locked \in [Daemons -> BOOLEAN]
  /\ reading \in [Daemons -> Nat]
  /\ pidfile \in Nat
  /\ pidfiles \in Nat
  /\ path \in Nat
  /\ fifos \in Nat

\* The lock, and the file it is on.
LockInv ==
  /\ \A d \in Daemons : locked[d] <=> pc[d] \in Holding
  /\ \A d \in Daemons :
       pc[d] \in Holding \union {"lock"} => opened[d] = pidfile /\ pidfile # Nothing
  /\ \A d, e \in Daemons : pc[d] \in Holding /\ pc[e] \in Holding => d = e
  /\ script = "rm" => \A d \in Daemons : pc[d] = "off"

\* What the name of the pipe stands for while a process is past its unlink.
PathInv ==
  \A d \in Daemons :
    /\ pc[d] = "open" => path \in Pipes
    /\ pc[d] \in {"serve", "stop"} => path = reading[d] /\ path \in Pipes
    /\ pc[d] \in {"mkfifo", "join"} => path \notin Pipes

LifeInv == LifeTypes /\ LockInv /\ PathInv

-----------------------------------------------------------------------------
\* The program starts with no process, no pid file and no pipe.
LEMMA InitLife == Init => LifeInv
PROOF
  BY DEF Init, LifeInv, LifeTypes, LockInv, PathInv, Places, Holding, Nothing

\* A process that ends, however it does, gives its lock back and leaves the
\* names as they are.
LEMMA EndKeepsLife ==
  ASSUME LifeInv, NEW d \in Daemons, NEW how, EndProcess(d, how), script # "rm",
         UNCHANGED <<pidVars, pathVars>>
  PROVE  LifeInv'
PROOF
<1>1. /\ pc' = [pc EXCEPT ![d] = "off"]
      /\ LifeTypes'
  BY DEF LifeInv, LifeTypes, EndProcess, Goto, Places, pidVars, pathVars, Nothing
<1>2. LockInv'
  BY <1>1 DEF LifeInv, LifeTypes, LockInv, EndProcess, Holding, pidVars, pathVars
<1>3. PathInv'
  BY <1>1 DEF LifeInv, LifeTypes, PathInv, EndProcess, pidVars, pathVars
<1>. QED
  BY <1>1, <1>2, <1>3 DEF LifeInv

\* The steps up to the lock.  fcntl refuses a file that another process has
\* locked, and every lock there is is on the file of that name.
LEMMA StartKeepsLife ==
  ASSUME LifeInv, ScriptsOverlap = FALSE, NEW d \in Daemons,
         Launch(d) \/ Fork(d) \/ OpenPidFile(d) \/ TakeLock(d)
  PROVE  LifeInv'
PROOF
<1>0. pc[d] # "off" => script # "rm"
  BY DEF LifeInv, LockInv
<1>1. CASE Launch(d)
  BY <1>1 DEF Launch, LifeInv, LifeTypes, LockInv, PathInv, Goto, Places, Holding,
              pidVars, lockVars, pathVars
<1>2. CASE Fork(d) /\ ~ EndProcess(d, "failed")
  BY <1>2, <1>0 DEF Fork, GoOn, LifeInv, LifeTypes, LockInv, PathInv, Goto, Places,
              Holding, pidVars, lockVars, pathVars
<1>3. CASE OpenPidFile(d) /\ ~ EndProcess(d, "failed")
  <2>1. /\ pc[d] = "pidfile" /\ pc' = [pc EXCEPT ![d] = "lock"]
        /\ opened' = [opened EXCEPT ![d] = pidfile']
        /\ UNCHANGED <<script, locked, reading, path, fifos>>
        /\ pidfile' # Nothing
        /\ pidfile # Nothing => pidfile' = pidfile
        /\ pidfile' \in Nat /\ pidfiles' \in Nat
    BY <1>3 DEF OpenPidFile, LifeInv, LifeTypes, Goto, pathVars, Nothing
  <2>2. LifeTypes'
    BY <2>1 DEF LifeInv, LifeTypes, Places
  <2>3. LockInv'
    BY <2>1, <1>0 DEF LifeInv, LifeTypes, LockInv, Holding
  <2>4. PathInv'
    BY <2>1 DEF LifeInv, LifeTypes, PathInv
  <2>. QED
    BY <2>2, <2>3, <2>4 DEF LifeInv
<1>4. CASE TakeLock(d) /\ ~ EndProcess(d, "failed")
  <2>1. /\ pc[d] = "lock" /\ pc' = [pc EXCEPT ![d] = "check"]
        /\ locked' = [locked EXCEPT ![d] = TRUE]
        /\ ~AlreadyRunning(d)
        /\ UNCHANGED <<opened, reading, pidVars, pathVars>>
    BY <1>4 DEF TakeLock, Goto
  <2>2. \A e \in Daemons : pc[e] \notin Holding
    BY <2>1 DEF AlreadyRunning, LifeInv, LockInv, LifeTypes
  <2>3. LifeTypes'
    BY <2>1 DEF LifeInv, LifeTypes, Places, pidVars, pathVars
  <2>4. LockInv'
    BY <2>1, <2>2, <1>0 DEF LifeInv, LifeTypes, LockInv, Holding, pidVars, pathVars
  <2>5. PathInv'
    BY <2>1 DEF LifeInv, LifeTypes, PathInv, pathVars
  <2>. QED
    BY <2>3, <2>4, <2>5 DEF LifeInv
<1>5. CASE EndProcess(d, "failed") /\ (Fork(d) \/ OpenPidFile(d) \/ TakeLock(d))
  <2>1. CASE UNCHANGED pidVars /\ UNCHANGED pathVars
    <3>1. pc[d] # "off"
      BY <1>5 DEF Fork, OpenPidFile, TakeLock
    <3>. QED
      BY <1>5, <2>1, <3>1, <1>0, EndKeepsLife
  <2>2. CASE ~(UNCHANGED pidVars /\ UNCHANGED pathVars)
    <3>1. OpenPidFile(d) /\ pc' = [pc EXCEPT ![d] = "lock"]
      BY <1>5, <2>2 DEF Fork, OpenPidFile, TakeLock, Goto, pidVars
    <3>. QED
      BY <1>5, <3>1 DEF EndProcess, Goto, LifeInv, LifeTypes
  <2>. QED
    BY <2>1, <2>2
<1>. QED
  BY <1>1, <1>2, <1>3, <1>4, <1>5

\* create_fifo, by the one process that holds the lock.
LEMMA FifoKeepsLife ==
  ASSUME LifeInv, NEW d \in Daemons,
         CheckPath(d) \/ UnlinkOld(d) \/ MakeFifo(d) \/ OpenFifo(d)
  PROVE  LifeInv'
PROOF
<1>0. /\ script # "rm"
      /\ pc[d] \in Holding
      /\ \A e \in Daemons : pc[e] \in Holding => e = d
  BY DEF CheckPath, UnlinkOld, MakeFifo, OpenFifo, LifeInv, LockInv, Holding
<1>1. CASE EndProcess(d, "failed") /\ UNCHANGED <<pidVars, pathVars>>
  BY <1>0, <1>1, EndKeepsLife
<1>2. CASE CheckPath(d) /\ GoOn(d, "unlink")
  BY <1>0, <1>2 DEF CheckPath, GoOn, LifeInv, LifeTypes, LockInv, PathInv, Goto, Places,
                    Holding, pidVars, lockVars, pathVars
<1>3. CASE UnlinkOld(d)
  <2>1. path' \notin Pipes
    BY <1>3 DEF UnlinkOld, NameAfterUnlink, Pipes, Nothing, File
  <2>. QED
    BY <1>0, <1>3, <2>1
    DEF UnlinkOld, NameAfterUnlink, GoOn, LifeInv, LifeTypes, LockInv, PathInv, Goto,
        Places, Holding, pidVars, lockVars, Nothing
<1>4. CASE MakeFifo(d) /\ path' = fifos + 2 /\ fifos' = fifos + 1 /\ GoOn(d, "open")
  <2>1. path' \in Pipes /\ path' \in Nat /\ fifos' \in Nat
    BY <1>4 DEF LifeInv, LifeTypes, Pipes, Nothing, File
  <2>2. /\ pc[d] = "mkfifo" /\ pc' = [pc EXCEPT ![d] = "open"]
        /\ UNCHANGED <<lockVars, reading, pidVars>>
    BY <1>4 DEF MakeFifo, GoOn, Goto
  <2>3. LifeTypes' /\ LockInv'
    BY <1>0, <2>1, <2>2 DEF LifeInv, LifeTypes, LockInv, Places, Holding, pidVars, lockVars
  <2>4. PathInv'
    BY <1>0, <2>1, <2>2 DEF LifeInv, LifeTypes, PathInv, Holding
  <2>. QED
    BY <2>3, <2>4 DEF LifeInv
<1>5. CASE OpenFifo(d) /\ Goto(d, "serve") /\ UNCHANGED lockVars
           /\ reading' = [reading EXCEPT ![d] = path]
  BY <1>0, <1>5 DEF OpenFifo, LifeInv, LifeTypes, LockInv, PathInv, Goto, Places,
                    Holding, pidVars, lockVars, pathVars
<1>. QED
  BY <1>1, <1>2, <1>3, <1>4, <1>5 DEF CheckPath, MakeFifo, OpenFifo

\* The end of a process, in order or killed.
LEMMA StopKeepsLife ==
  ASSUME LifeInv, NEW d \in Daemons, HearStop(d) \/ UnlinkOwn(d) \/ Exit(d) \/ Kill(d)
  PROVE  LifeInv'
PROOF
<1>0. script # "rm"
  BY DEF HearStop, UnlinkOwn, Exit, Kill, LifeInv, LockInv
<1>1. CASE Exit(d) \/ Kill(d)
  BY <1>0, <1>1, EndKeepsLife DEF Exit, Kill
<1>2. CASE HearStop(d)
  BY <1>0, <1>2 DEF HearStop, GoOn, LifeInv, LifeTypes, LockInv, PathInv, Goto, Places,
                    Holding, pidVars, lockVars, pathVars
<1>3. CASE UnlinkOwn(d)
  BY <1>0, <1>3 DEF UnlinkOwn, NameAfterStop, GoOn, LifeInv, LifeTypes, LockInv, PathInv,
                    Goto, Places, Holding, pidVars, lockVars, Nothing, Pipes
<1>. QED
  BY <1>1, <1>2, <1>3

\* The script and the clients: a file is made or removed only where there is
\* no pipe, and the pid file only where there is no process.
LEMMA OthersKeepLife ==
  ASSUME LifeInv,
         ScriptSeesNone \/ RemovePidFile \/ ClientMakesFile \/ RemoveFile
  PROVE  LifeInv'
PROOF
<1>. USE DEF LifeInv, LifeTypes, LockInv, PathInv
<1>1. CASE ScriptSeesNone
  BY <1>1 DEF ScriptSeesNone, Holding, lockVars, pathVars
<1>2. CASE RemovePidFile
  BY <1>2 DEF RemovePidFile, Holding, lockVars, pathVars, Nothing
<1>3. CASE ClientMakesFile
  BY <1>3 DEF ClientMakesFile, lockVars, pidVars, Nothing, File, Pipes
<1>4. CASE RemoveFile
  BY <1>4 DEF RemoveFile, lockVars, pidVars, Nothing, File, Pipes
<1>. QED
  BY <1>1, <1>2, <1>3, <1>4

\* The invariant holds of every behaviour without overlapping scripts
\* (daemon_utils.c, queral.c:317-332).
THEOREM LifeInvariant ==
  ASSUME ScriptsOverlap = FALSE
  PROVE  Spec => []LifeInv
PROOF
<1>1. Init => LifeInv
  BY InitLife
<1>2. LifeInv /\ [Next]_vars => LifeInv'
  <2>. SUFFICES ASSUME LifeInv, [Next]_vars PROVE LifeInv'
    OBVIOUS
  <2>1. ASSUME NEW d \in Daemons,
               Launch(d) \/ Fork(d) \/ OpenPidFile(d) \/ TakeLock(d)
        PROVE  LifeInv'
    BY <2>1, StartKeepsLife
  <2>2. ASSUME NEW d \in Daemons,
               CheckPath(d) \/ UnlinkOld(d) \/ MakeFifo(d) \/ OpenFifo(d)
        PROVE  LifeInv'
    BY <2>2, FifoKeepsLife
  <2>3. ASSUME NEW d \in Daemons,
               HearStop(d) \/ UnlinkOwn(d) \/ Exit(d) \/ Kill(d)
        PROVE  LifeInv'
    BY <2>3, StopKeepsLife
  <2>4. CASE ScriptSeesNone \/ RemovePidFile \/ ClientMakesFile \/ RemoveFile
    BY <2>4, OthersKeepLife
  <2>5. CASE UNCHANGED vars
    BY <2>5 DEF vars, pidVars, lockVars, pathVars, LifeInv, LifeTypes, LockInv, PathInv
  <2>. QED
    BY <2>1, <2>2, <2>3, <2>4, <2>5 DEF Next
<1>. QED
  BY <1>1, <1>2, PTL DEF Spec

-----------------------------------------------------------------------------
\* While a process serves, the pipe's name stands for its own pipe
\* (queral.c:317-332, 538, daemon_utils.c:37-57).
THEOREM NameStaysServed ==
  ASSUME ScriptsOverlap = FALSE
  PROVE  Spec => []NameIsServed
PROOF
<1>1. LifeInv => NameIsServed
  BY DEF LifeInv, PathInv, NameIsServed
<1>. QED
  BY <1>1, LifeInvariant, PTL

\* A stopping process removes no pipe but its own (queral.c:538).
THEOREM OnlyOwnPipeIsRemoved ==
  ASSUME ScriptsOverlap = FALSE
  PROVE  Spec => StopsOwnPipe
PROOF
<1>1. LifeInv /\ [Next]_vars =>
        [\A d \in Daemons : pc[d] = "stop" /\ pc'[d] = "join" => path = reading[d]]_vars
  BY DEF LifeInv, PathInv
<1>. QED
  BY <1>1, LifeInvariant, PTL DEF Spec, StopsOwnPipe

\* No pipe is in the way of a process that starts, and none stays behind while
\* one that stops in order waits for its workers (queral.c:295-312, 327-328, 538).
THEOREM NoPipeIsLeft ==
  ASSUME ScriptsOverlap = FALSE
  PROVE  Spec => []NoStalePipe
PROOF
<1>1. LifeInv => NoStalePipe
  BY DEF LifeInv, PathInv, NoStalePipe
<1>. QED
  BY <1>1, LifeInvariant, PTL

\* One process at most holds a lock, so one copy of the daemon serves
\* (daemon_utils.c:135): what the run lifecycle_one_copy refutes for scripts
\* that overlap does hold for scripts that do not.
THEOREM OneCopyServes ==
  ASSUME ScriptsOverlap = FALSE
  PROVE  Spec => []OnlyOneCopy
PROOF
<1>1. LifeInv => OnlyOneCopy
  BY DEF LifeInv, LockInv, Holding, OnlyOneCopy
<1>. QED
  BY <1>1, LifeInvariant, PTL

-----------------------------------------------------------------------------
(* The types hold for scripts that overlap, too, and with them that fcntl  *)
(* gives one process at most the lock of one file.  That the files and the *)
(* pipes are no more than the starts is a matter of counting: a process    *)
(* that may yet make one has been started and has made none.               *)

BeforePidFile == {"fork", "pidfile"}
BeforeFifo == {"fork", "pidfile", "lock", "check", "unlink", "mkfifo"}

At(places) == {d \in Daemons : pc[d] \in places}

\* n things were made by processes that are no longer at these places.
Made(n, places) ==
  IsFiniteSet(At(places)) /\ n + Cardinality(At(places)) <= launches

LocksHeld == \A d \in Daemons : locked[d] => pc[d] \in Holding

CountInv ==
  TypeOK /\ LocksHeld /\ Made(pidfiles, BeforePidFile) /\ Made(fifos, BeforeFifo)

\* A set that at most gains one element, or loses it.
LEMMA OneMore ==
  ASSUME NEW S, NEW T, NEW d, IsFiniteSet(S), T \subseteq S \union {d}
  PROVE  /\ IsFiniteSet(T) /\ Cardinality(S) \in Nat /\ Cardinality(T) \in Nat
         /\ Cardinality(T) <= Cardinality(S) + 1
         /\ d \in S \/ d \notin T => Cardinality(T) <= Cardinality(S)
         /\ d \in S /\ d \notin T => Cardinality(T) + 1 <= Cardinality(S)
PROOF
<1>1. /\ IsFiniteSet(S \union {d})
      /\ Cardinality(S \union {d}) = IF d \in S THEN Cardinality(S) ELSE Cardinality(S) + 1
  BY FS_AddElement
<1>2. /\ IsFiniteSet(S \ {d})
      /\ Cardinality(S \ {d}) = IF d \in S THEN Cardinality(S) - 1 ELSE Cardinality(S)
  BY FS_RemoveElement
<1>3. IsFiniteSet(T) /\ Cardinality(T) <= Cardinality(S \union {d})
  BY <1>1, FS_Subset
<1>4. Cardinality(S) \in Nat /\ Cardinality(T) \in Nat
  BY <1>3, FS_CardinalityType
<1>5. d \notin T => Cardinality(T) <= Cardinality(S \ {d})
  <2>. HAVE d \notin T
  <2>1. T \in SUBSET (S \ {d})
    OBVIOUS
  <2>. QED
    BY <1>2, <2>1, FS_Subset
<1>6. CASE d \in S
  BY <1>1, <1>2, <1>3, <1>4, <1>5, <1>6
<1>7. CASE d \notin S
  BY <1>1, <1>2, <1>3, <1>4, <1>5, <1>7
<1>. QED
  BY <1>6, <1>7

\* A process that was started counts until it makes the thing.
LEMMA LaunchIsCounted ==
  ASSUME TypeOK, NEW d \in Daemons, NEW n \in Nat, NEW places,
         pc' = [pc EXCEPT ![d] = "fork"], launches' = launches + 1,
         IsFiniteSet(At(places)), n + Cardinality(At(places)) <= launches
  PROVE  IsFiniteSet(At(places)') /\ n + Cardinality(At(places)') <= launches'
PROOF
<1>1. At(places)' \subseteq At(places) \union {d}
  BY DEF At, TypeOK
<1>2. /\ IsFiniteSet(At(places)') /\ Cardinality(At(places)) \in Nat
      /\ Cardinality(At(places)') \in Nat
      /\ Cardinality(At(places)') <= Cardinality(At(places)) + 1
  BY <1>1, OneMore
<1>3. launches \in Nat
  BY LifecycleAssumption DEF TypeOK
<1>. QED
  BY <1>2, <1>3

\* Any other step counts on: nothing made, or made by a process that leaves.
LEMMA StepIsCounted ==
  ASSUME TypeOK, NEW d \in Daemons, NEW n \in Nat, NEW m \in Nat, NEW places, NEW q,
         pc' = [pc EXCEPT ![d] = q], launches' = launches,
         IsFiniteSet(At(places)), n + Cardinality(At(places)) <= launches,
         \/ m = n /\ (q \in places => pc[d] \in places)
         \/ m = n + 1 /\ pc[d] \in places /\ q \notin places
  PROVE  IsFiniteSet(At(places)') /\ m + Cardinality(At(places)') <= launches'
PROOF
<1>1. /\ At(places)' \subseteq At(places) \union {d}
      /\ d \in At(places)' <=> q \in places
      /\ d \in At(places) <=> pc[d] \in places
  BY DEF At, TypeOK
<1>2. /\ IsFiniteSet(At(places)') /\ Cardinality(At(places)) \in Nat
      /\ Cardinality(At(places)') \in Nat
      /\ m = n => Cardinality(At(places)') <= Cardinality(At(places))
      /\ m # n => Cardinality(At(places)') + 1 <= Cardinality(At(places))
  BY <1>1, OneMore
<1>3. launches \in Nat
  BY LifecycleAssumption DEF TypeOK
<1>. QED
  BY <1>2, <1>3

\* The files and pipes made are bounded by the starts.
LEMMA Bounds ==
  ASSUME NEW n, n \in Nat, NEW l \in 0 .. MaxLaunches, NEW S, IsFiniteSet(S),
         n + Cardinality(S) <= l
  PROVE  n \in 0 .. MaxLaunches
PROOF
<1>1. Cardinality(S) \in Nat
  BY FS_CardinalityType
<1>. QED
  BY <1>1, LifecycleAssumption

\* The program starts with nothing made.
LEMMA InitCount == Init => CountInv
PROOF
<1>. SUFFICES ASSUME Init PROVE CountInv
  OBVIOUS
<1>1. TypeOK /\ LocksHeld
  BY LifecycleAssumption DEF Init, TypeOK, LocksHeld, Places, Nothing
<1>2. At(BeforePidFile) = {} /\ At(BeforeFifo) = {}
  BY DEF Init, At, BeforePidFile, BeforeFifo
<1>3. IsFiniteSet({}) /\ Cardinality({}) = 0
  BY FS_EmptySet
<1>4. pidfiles = 0 /\ fifos = 0 /\ launches = 0
  BY DEF Init
<1>. QED
  BY <1>1, <1>2, <1>3, <1>4 DEF CountInv, Made

\* What every step of a process but its start has in common.
LEMMA StepKeepsCount ==
  ASSUME CountInv, NEW d \in Daemons, NEW q \in Places,
         pc' = [pc EXCEPT ![d] = q], launches' = launches,
         \/ pidfiles' = pidfiles /\ (q \in BeforePidFile => pc[d] \in BeforePidFile)
         \/ pidfiles' = pidfiles + 1 /\ pc[d] \in BeforePidFile /\ q \notin BeforePidFile,
         \/ fifos' = fifos /\ (q \in BeforeFifo => pc[d] \in BeforeFifo)
         \/ fifos' = fifos + 1 /\ pc[d] \in BeforeFifo /\ q \notin BeforeFifo
  PROVE  /\ Made(pidfiles, BeforePidFile)' /\ Made(fifos, BeforeFifo)'
         /\ pidfiles' \in 0 .. MaxLaunches /\ fifos' \in 0 .. MaxLaunches
         /\ launches' \in 0 .. MaxLaunches /\ pc' \in [Daemons -> Places]
         /\ pidfiles \in Nat /\ fifos \in Nat
PROOF
<1>1. /\ TypeOK /\ pidfiles \in Nat /\ fifos \in Nat /\ pidfiles' \in Nat /\ fifos' \in Nat
      /\ launches' \in 0 .. MaxLaunches /\ pc' \in [Daemons -> Places]
  BY LifecycleAssumption DEF CountInv, TypeOK
<1>2. /\ IsFiniteSet(At(BeforePidFile))
      /\ pidfiles + Cardinality(At(BeforePidFile)) <= launches
      /\ IsFiniteSet(At(BeforeFifo))
      /\ fifos + Cardinality(At(BeforeFifo)) <= launches
  BY DEF CountInv, Made
<1>3. /\ IsFiniteSet(At(BeforePidFile)')
      /\ pidfiles' + Cardinality(At(BeforePidFile)') <= launches'
  BY <1>1, <1>2, StepIsCounted
<1>4. /\ IsFiniteSet(At(BeforeFifo)')
      /\ fifos' + Cardinality(At(BeforeFifo)') <= launches'
  BY <1>1, <1>2, StepIsCounted
<1>5. Made(pidfiles, BeforePidFile)' /\ Made(fifos, BeforeFifo)'
  BY <1>3, <1>4 DEF Made, BeforePidFile, BeforeFifo
<1>. QED
  BY <1>1, <1>3, <1>4, <1>5, Bounds

LEMMA EndKeepsCount ==
  ASSUME CountInv, NEW d \in Daemons, NEW how \in {"failed", "stopped", "killed"},
         EndProcess(d, how), UNCHANGED <<pidVars, pathVars, launches>>
  PROVE  CountInv'
PROOF
<1>1. /\ pc' = [pc EXCEPT ![d] = "off"] /\ "off" \in Places
      /\ launches' = launches /\ pidfiles' = pidfiles /\ fifos' = fifos
      /\ "off" \notin BeforePidFile /\ "off" \notin BeforeFifo
  BY DEF EndProcess, Goto, pidVars, pathVars, BeforePidFile, BeforeFifo, Places
<1>2. /\ Made(pidfiles, BeforePidFile)' /\ Made(fifos, BeforeFifo)'
      /\ pidfiles \in Nat /\ fifos \in Nat
  BY <1>1, StepKeepsCount
<1>3. TypeOK' /\ LocksHeld'
  BY <1>1, <1>2
     DEF CountInv, TypeOK, LocksHeld, EndProcess, pidVars, pathVars, Nothing
<1>. QED
  BY <1>2, <1>3 DEF CountInv

\* A step that makes nothing, takes no lock and opens no file.
LEMMA GoOnKeepsCount ==
  ASSUME CountInv, NEW d \in Daemons, NEW q \in Places, GoOn(d, q),
         UNCHANGED <<pidVars, fifos, launches>>, path' \in {path, Nothing},
         q \in BeforePidFile => pc[d] \in BeforePidFile,
         q \in BeforeFifo => pc[d] \in BeforeFifo,
         pc[d] \in Holding => q \in Holding
  PROVE  CountInv'
PROOF
<1>1. /\ pc' = [pc EXCEPT ![d] = q]
      /\ UNCHANGED <<outcome, opened, locked, reading, script, pidfile, pidfiles, fifos, launches>>
  BY DEF GoOn, Goto, pidVars, lockVars
<1>2. /\ Made(pidfiles, BeforePidFile)' /\ Made(fifos, BeforeFifo)'
      /\ pidfiles \in Nat /\ fifos \in Nat /\ pc' \in [Daemons -> Places]
  BY <1>1, StepKeepsCount
<1>3. TypeOK'
  BY <1>1, <1>2 DEF CountInv, TypeOK, Nothing
<1>4. LocksHeld'
  BY <1>1 DEF CountInv, TypeOK, LocksHeld
<1>. QED
  BY <1>2, <1>3, <1>4 DEF CountInv

LEMMA LaunchKeepsCount ==
  ASSUME CountInv, NEW d \in Daemons, Launch(d)
  PROVE  CountInv'
PROOF
<1>1. /\ pc[d] = "off" /\ pc' = [pc EXCEPT ![d] = "fork"] /\ launches < MaxLaunches
      /\ launches' = launches + 1 /\ outcome' = [outcome EXCEPT ![d] = "none"]
      /\ UNCHANGED <<script, pidfile, pidfiles, opened, locked, path, fifos, reading>>
  BY DEF Launch, Goto, pidVars, lockVars, pathVars
<1>2. TypeOK /\ pidfiles \in Nat /\ fifos \in Nat /\ "fork" \in Places
  BY LifecycleAssumption DEF CountInv, TypeOK, Places
<1>3. /\ IsFiniteSet(At(BeforePidFile))
      /\ pidfiles + Cardinality(At(BeforePidFile)) <= launches
      /\ IsFiniteSet(At(BeforeFifo))
      /\ fifos + Cardinality(At(BeforeFifo)) <= launches
  BY DEF CountInv, Made
<1>4. /\ IsFiniteSet(At(BeforePidFile)')
      /\ pidfiles + Cardinality(At(BeforePidFile)') <= launches'
  BY <1>1, <1>2, <1>3, LaunchIsCounted
<1>5. /\ IsFiniteSet(At(BeforeFifo)')
      /\ fifos + Cardinality(At(BeforeFifo)') <= launches'
  BY <1>1, <1>2, <1>3, LaunchIsCounted
<1>6. launches' \in 0 .. MaxLaunches
  BY <1>1, <1>2, LifecycleAssumption DEF TypeOK
<1>7. TypeOK'
  BY <1>1, <1>2, <1>6 DEF TypeOK
<1>8. LocksHeld'
  BY <1>1, <1>2 DEF CountInv, TypeOK, LocksHeld, Holding
<1>. QED
  BY <1>1, <1>4, <1>5, <1>7, <1>8 DEF CountInv, Made, BeforePidFile, BeforeFifo

\* The steps up to the lock: open() makes one pid file at most, and a lock is
\* on a file nobody else has locked (daemon_utils.c:37-57, 135-140).
LEMMA PidFileKeepsCount ==
  ASSUME CountInv, NEW d \in Daemons, OpenPidFile(d)
  PROVE  CountInv'
PROOF
<1>1. CASE EndProcess(d, "failed") /\ UNCHANGED <<pidVars, pathVars, launches>>
  BY <1>1, EndKeepsCount
<1>2. CASE /\ \/ pidfile # Nothing /\ UNCHANGED <<pidfile, pidfiles>>
              \/ pidfile = Nothing /\ pidfiles' = pidfiles + 1 /\ pidfile' = pidfiles'
           /\ opened' = [opened EXCEPT ![d] = pidfile']
           /\ Goto(d, "lock")
           /\ UNCHANGED <<outcome, locked, reading>>
  <2>1. /\ pc[d] = "pidfile" /\ pc' = [pc EXCEPT ![d] = "lock"] /\ "lock" \in Places
        /\ UNCHANGED <<script, path, fifos, launches>>
        /\ "lock" \notin BeforePidFile /\ pc[d] \in BeforePidFile /\ pc[d] \in BeforeFifo
    BY <1>2 DEF OpenPidFile, Goto, pathVars, Places, BeforePidFile, BeforeFifo
  <2>2. /\ Made(pidfiles, BeforePidFile)' /\ Made(fifos, BeforeFifo)'
        /\ pidfiles \in Nat /\ fifos \in Nat /\ pc' \in [Daemons -> Places]
        /\ pidfiles' \in 0 .. MaxLaunches
    BY <1>2, <2>1, StepKeepsCount
  <2>3. ~locked[d]
    BY <2>1 DEF CountInv, LocksHeld, Holding
  <2>4. pidfile' \in 0 .. pidfiles' /\ pidfiles <= pidfiles'
    BY <1>2, <2>2 DEF CountInv, TypeOK, Nothing
  <2>5. opened' \in [Daemons -> 0 .. pidfiles']
    BY <1>2, <2>2, <2>4 DEF CountInv, TypeOK
  <2>6. \A e, x \in Daemons :
          locked'[e] /\ locked'[x] /\ opened'[e] = opened'[x] => e = x
    BY <1>2, <2>3 DEF CountInv, TypeOK
  <2>7. TypeOK'
    BY <1>2, <2>1, <2>2, <2>4, <2>5, <2>6 DEF CountInv, TypeOK
  <2>8. LocksHeld'
    BY <1>2, <2>1, <2>3 DEF CountInv, TypeOK, LocksHeld
  <2>. QED
    BY <2>2, <2>7, <2>8 DEF CountInv
<1>. QED
  BY <1>1, <1>2 DEF OpenPidFile, pidVars

LEMMA LockKeepsCount ==
  ASSUME CountInv, NEW d \in Daemons, TakeLock(d)
  PROVE  CountInv'
PROOF
<1>1. CASE EndProcess(d, "failed")
  BY <1>1, EndKeepsCount DEF TakeLock
<1>2. CASE /\ ~AlreadyRunning(d)
           /\ locked' = [locked EXCEPT ![d] = TRUE]
           /\ Goto(d, "check")
           /\ UNCHANGED <<outcome, opened, reading>>
  <2>1. /\ pc[d] = "lock" /\ pc' = [pc EXCEPT ![d] = "check"] /\ "check" \in Places
        /\ UNCHANGED <<script, pidfile, pidfiles, path, fifos, launches>>
        /\ "check" \notin BeforePidFile /\ pc[d] \in BeforeFifo /\ "check" \in Holding
    BY <1>2 DEF TakeLock, Goto, pidVars, pathVars, Places, BeforePidFile, BeforeFifo, Holding
  <2>2. /\ Made(pidfiles, BeforePidFile)' /\ Made(fifos, BeforeFifo)'
        /\ pidfiles \in Nat /\ fifos \in Nat /\ pc' \in [Daemons -> Places]
    BY <2>1, StepKeepsCount
  <2>3. \A e, x \in Daemons :
          locked'[e] /\ locked'[x] /\ opened'[e] = opened'[x] => e = x
    BY <1>2 DEF CountInv, TypeOK, AlreadyRunning
  <2>4. locked' \in [Daemons -> BOOLEAN]
    BY <1>2 DEF CountInv, TypeOK
  <2>5. TypeOK'
    BY <1>2, <2>1, <2>2, <2>3, <2>4 DEF CountInv, TypeOK
  <2>6. LocksHeld'
    BY <1>2, <2>1 DEF CountInv, TypeOK, LocksHeld
  <2>. QED
    BY <2>2, <2>5, <2>6 DEF CountInv
<1>. QED
  BY <1>1, <1>2 DEF TakeLock

\* create_fifo: mkfifo makes one pipe for a start at most (queral.c:317-332).
LEMMA MakeFifoKeepsCount ==
  ASSUME CountInv, NEW d \in Daemons, MakeFifo(d)
  PROVE  CountInv'
PROOF
<1>1. CASE EndProcess(d, "failed") /\ UNCHANGED pathVars
  BY <1>1, EndKeepsCount DEF MakeFifo
<1>2. CASE path' = fifos + 2 /\ fifos' = fifos + 1 /\ GoOn(d, "open")
  <2>1. /\ pc[d] = "mkfifo" /\ pc' = [pc EXCEPT ![d] = "open"] /\ "open" \in Places
        /\ UNCHANGED <<outcome, opened, locked, reading, script, pidfile, pidfiles, launches>>
        /\ "open" \notin BeforePidFile /\ "open" \notin BeforeFifo /\ pc[d] \in BeforeFifo
        /\ "open" \in Holding
    BY <1>2 DEF MakeFifo, GoOn, Goto, pidVars, lockVars, Places, BeforePidFile, BeforeFifo,
                Holding
  <2>2. /\ Made(pidfiles, BeforePidFile)' /\ Made(fifos, BeforeFifo)'
        /\ pidfiles \in Nat /\ fifos \in Nat /\ pc' \in [Daemons -> Places]
        /\ fifos' \in 0 .. MaxLaunches
    BY <1>2, <2>1, StepKeepsCount
  <2>3. path' \in 0 .. fifos' + 1 /\ reading' \in [Daemons -> 0 .. fifos' + 1]
    BY <1>2, <2>1, <2>2 DEF CountInv, TypeOK
  <2>4. TypeOK'
    BY <1>2, <2>1, <2>2, <2>3 DEF CountInv, TypeOK
  <2>5. LocksHeld'
    BY <2>1 DEF CountInv, TypeOK, LocksHeld
  <2>. QED
    BY <2>2, <2>4, <2>5 DEF CountInv
<1>. QED
  BY <1>1, <1>2 DEF MakeFifo

LEMMA OpenFifoKeepsCount ==
  ASSUME CountInv, NEW d \in Daemons, OpenFifo(d)
  PROVE  CountInv'
PROOF
<1>1. CASE EndProcess(d, "failed")
  BY <1>1, EndKeepsCount DEF OpenFifo
<1>2. CASE reading' = [reading EXCEPT ![d] = path] /\ Goto(d, "serve")
           /\ UNCHANGED <<outcome, lockVars>>
  <2>1. /\ pc[d] = "open" /\ pc' = [pc EXCEPT ![d] = "serve"] /\ "serve" \in Places
        /\ UNCHANGED <<outcome, opened, locked, script, pidfile, pidfiles, path, fifos, launches>>
        /\ "serve" \notin BeforePidFile /\ "serve" \notin BeforeFifo /\ "serve" \in Holding
    BY <1>2 DEF OpenFifo, Goto, pidVars, lockVars, pathVars, Places, BeforePidFile,
                BeforeFifo, Holding
  <2>2. /\ Made(pidfiles, BeforePidFile)' /\ Made(fifos, BeforeFifo)'
        /\ pidfiles \in Nat /\ fifos \in Nat /\ pc' \in [Daemons -> Places]
    BY <2>1, StepKeepsCount
  <2>3. TypeOK'
    BY <1>2, <2>1, <2>2 DEF CountInv, TypeOK
  <2>4. LocksHeld'
    BY <2>1 DEF CountInv, TypeOK, LocksHeld
  <2>. QED
    BY <2>2, <2>3, <2>4 DEF CountInv
<1>. QED
  BY <1>1, <1>2 DEF OpenFifo

\* The steps that make nothing.
LEMMA OthersOfProcessKeepCount ==
  ASSUME CountInv, NEW d \in Daemons,
         Fork(d) \/ CheckPath(d) \/ UnlinkOld(d) \/ HearStop(d) \/ UnlinkOwn(d)
           \/ Exit(d) \/ Kill(d)
  PROVE  CountInv'
PROOF
<1>. USE DEF BeforePidFile, BeforeFifo, Holding, Places
<1>1. CASE Fork(d)
  <2>1. CASE GoOn(d, "pidfile")
    BY <1>1, <2>1, GoOnKeepsCount DEF Fork, pathVars
  <2>2. CASE EndProcess(d, "failed")
    BY <1>1, <2>2, EndKeepsCount DEF Fork
  <2>. QED
    BY <1>1, <2>1, <2>2 DEF Fork
<1>2. CASE CheckPath(d)
  <2>1. CASE GoOn(d, "unlink")
    BY <1>2, <2>1, GoOnKeepsCount DEF CheckPath, pathVars
  <2>2. CASE EndProcess(d, "failed")
    BY <1>2, <2>2, EndKeepsCount DEF CheckPath
  <2>. QED
    BY <1>2, <2>1, <2>2 DEF CheckPath
<1>3. CASE UnlinkOld(d)
  BY <1>3, GoOnKeepsCount DEF UnlinkOld, NameAfterUnlink
<1>4. CASE HearStop(d)
  BY <1>4, GoOnKeepsCount DEF HearStop, pathVars
<1>5. CASE UnlinkOwn(d)
  BY <1>5, GoOnKeepsCount DEF UnlinkOwn, NameAfterStop
<1>6. CASE Exit(d) \/ Kill(d)
  BY <1>6, EndKeepsCount DEF Exit, Kill
<1>. QED
  BY <1>1, <1>2, <1>3, <1>4, <1>5, <1>6

\* The script, the clients, and no step at all.
LEMMA WorldKeepsCount ==
  ASSUME CountInv,
         ScriptSeesNone \/ RemovePidFile \/ ClientMakesFile \/ RemoveFile \/ UNCHANGED vars
  PROVE  CountInv'
PROOF
<1>1. /\ UNCHANGED <<pc, outcome, pidfiles, opened, locked, fifos, reading, launches>>
      /\ script' \in {script, "idle", "rm"}
      /\ pidfile' \in {pidfile, Nothing} /\ path' \in {path, Nothing, File}
  BY DEF ScriptSeesNone, RemovePidFile, ClientMakesFile, RemoveFile, vars, pidVars,
         lockVars, pathVars
<1>2. pidfiles \in Nat /\ fifos \in Nat
  BY LifecycleAssumption DEF CountInv, TypeOK
<1>3. TypeOK'
  BY <1>1, <1>2 DEF CountInv, TypeOK, Nothing, File
<1>4. LocksHeld' /\ Made(pidfiles, BeforePidFile)' /\ Made(fifos, BeforeFifo)'
  BY <1>1 DEF CountInv, LocksHeld, Made, At
<1>. QED
  BY <1>3, <1>4 DEF CountInv

\* The ranges hold, and a pid file is locked by one process at most, whatever
\* the scripts do (daemon_utils.c:37-57, 135-140, queral.c:317-332).
THEOREM LifeTypesHold == Spec => []TypeOK
PROOF
<1>1. CountInv /\ [Next]_vars => CountInv'
  <2>. SUFFICES ASSUME CountInv, [Next]_vars PROVE CountInv'
    OBVIOUS
  <2>1. ASSUME NEW d \in Daemons, Launch(d) \/ OpenPidFile(d) \/ TakeLock(d)
        PROVE  CountInv'
    BY <2>1, LaunchKeepsCount, PidFileKeepsCount, LockKeepsCount
  <2>2. ASSUME NEW d \in Daemons, MakeFifo(d) \/ OpenFifo(d)
        PROVE  CountInv'
    BY <2>2, MakeFifoKeepsCount, OpenFifoKeepsCount
  <2>3. ASSUME NEW d \in Daemons,
               Fork(d) \/ CheckPath(d) \/ UnlinkOld(d) \/ HearStop(d) \/ UnlinkOwn(d)
                 \/ Exit(d) \/ Kill(d)
        PROVE  CountInv'
    BY <2>3, OthersOfProcessKeepCount
  <2>4. CASE ScriptSeesNone \/ RemovePidFile \/ ClientMakesFile \/ RemoveFile
             \/ UNCHANGED vars
    BY <2>4, WorldKeepsCount
  <2>. QED
    BY <2>1, <2>2, <2>3, <2>4 DEF Next
<1>2. CountInv => TypeOK
  BY DEF CountInv
<1>. QED
  BY <1>1, <1>2, InitCount, PTL DEF Spec
=============================================================================
