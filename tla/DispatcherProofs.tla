-------------------------- MODULE DispatcherProofs --------------------------
(***************************************************************************)
(* Proofs about the ring buffer of queue.c and the threads of queral.c that *)
(* share it, for every number of workers, every capacity of the queue and  *)
(* the pipe, every set of lines and any number of commands and signals.    *)
(*                                                                         *)
(* The first part is about the queue alone (module FifoQueue): its fields  *)
(* stay in their ranges, the indices and the count stay consistent, and    *)
(* the buffer implements the bounded list.  The invariant is stated of     *)
(* FifoEnqueue, FifoDequeue and UseUp, so that the second part can use the *)
(* same lemmas for the threads that call them.  That part has three layers: *)
(*                                                                         *)
(*  - ControlInv: the ranges of the variables that are not the queue's;    *)
(*  - every step is a step of the queue or leaves it alone, so what the    *)
(*    first part proves of the queue holds here;                           *)
(*  - TokenInv and LifeInv: the two counters, the condition variable, the  *)
(*    stop orders and the life of the shared objects.                      *)
(***************************************************************************)
EXTENDS Dispatcher, Integers, SequenceTheorems, FiniteSetTheorems, TLAPS

-----------------------------------------------------------------------------
(* Arithmetic around the ring.                                             *)

\* One turn of the ring at most: the remainder is a subtraction.
LEMMA RingMod ==
  ASSUME NEW N \in Nat \ {0}, NEW x \in 0 .. 2 * N - 1
  PROVE  x % N = IF x < N THEN x ELSE x - N
PROOF
<1>1. /\ x % N \in 0 .. N - 1
      /\ x = N * (x \div N) + (x % N)
      /\ x \div N \in Int
  BY SMT
<1>. DEFINE q == x \div N
            r == x % N
<1>2. q \in Int /\ r \in 0 .. N - 1 /\ x = N * q + r
  BY <1>1
<1>. HIDE DEF q, r
<1>3. CASE q <= -1
  <2>1. N * q <= -N
    BY <1>2, <1>3, SMT
  <2>. QED BY <1>2, <2>1, SMT
<1>4. CASE q >= 2
  <2>1. N * q >= 2 * N
    BY <1>2, <1>4, SMT
  <2>. QED BY <1>2, <2>1, SMT
<1>5. CASE q = 0
  BY <1>2, <1>5 DEF r
<1>6. CASE q = 1
  BY <1>2, <1>6 DEF r
<1>. QED BY <1>2, <1>3, <1>4, <1>5, <1>6

\* Slot i + 1 is the slot after slot i, counted from either end.
LEMMA RingStep ==
  ASSUME NEW N \in Nat \ {0}, NEW e \in 0 .. N - 1, NEW i \in 0 .. N - 1
  PROVE  /\ (e + i) % N \in 0 .. N - 1
         /\ (((e + i) % N) + 1) % N = (e + (i + 1)) % N
         /\ (((e + 1) % N) + i) % N = (e + (i + 1)) % N
PROOF
<1>. DEFINE Turn(x) == IF x < N THEN x ELSE x - N
<1>1. \A x \in 0 .. 2 * N - 1 : x % N = Turn(x)
  BY RingMod
<1>2. /\ e + i \in 0 .. 2 * N - 1
      /\ e + 1 \in 0 .. 2 * N - 1
      /\ e + (i + 1) \in 0 .. 2 * N - 1
      /\ Turn(e + i) \in 0 .. N - 1
      /\ Turn(e + 1) \in 0 .. N - 1
      /\ Turn(e + i) + 1 \in 0 .. 2 * N - 1
      /\ Turn(e + 1) + i \in 0 .. 2 * N - 1
  OBVIOUS
<1>3. /\ Turn(Turn(e + i) + 1) = Turn(e + (i + 1))
      /\ Turn(Turn(e + 1) + i) = Turn(e + (i + 1))
  OBVIOUS
<1>. HIDE DEF Turn
<1>4. /\ (e + i) % N = Turn(e + i)
      /\ (e + 1) % N = Turn(e + 1)
      /\ (e + (i + 1)) % N = Turn(e + (i + 1))
  BY <1>1, <1>2
<1>5. /\ (Turn(e + i) + 1) % N = Turn(Turn(e + i) + 1)
      /\ (Turn(e + 1) + i) % N = Turn(Turn(e + 1) + i)
  BY <1>1, <1>2
<1>. QED BY <1>2, <1>3, <1>4, <1>5

\* Fewer than a turn apart, two places are two slots.
LEMMA RingDistinct ==
  ASSUME NEW N \in Nat \ {0}, NEW e \in 0 .. N - 1,
         NEW i \in 0 .. N - 1, NEW k \in 0 .. N - 1, i # k
  PROVE  (e + i) % N # (e + k) % N
PROOF
<1>. DEFINE Turn(x) == IF x < N THEN x ELSE x - N
<1>1. \A x \in 0 .. 2 * N - 1 : x % N = Turn(x)
  BY RingMod
<1>2. e + i \in 0 .. 2 * N - 1 /\ e + k \in 0 .. 2 * N - 1
  OBVIOUS
<1>3. Turn(e + i) # Turn(e + k)
  OBVIOUS
<1>. HIDE DEF Turn
<1>. QED BY <1>1, <1>2, <1>3

\* The index after a slot is a slot.
LEMMA AfterSlot ==
  ASSUME NEW i \in 0 .. Capacity - 1
  PROVE  After(i) \in 0 .. Capacity - 1
PROOF
<1>1. i + 1 \in 0 .. 2 * Capacity - 1 /\ Capacity \in Nat \ {0}
  BY QueueAssumption
<1>2. \A x \in 0 .. 2 * Capacity - 1 :
        x % Capacity = IF x < Capacity THEN x ELSE x - Capacity
  BY <1>1, RingMod
<1>. QED BY <1>1, <1>2 DEF After

-----------------------------------------------------------------------------
(* Type correctness and consistency.                                       *)

FifoInv == FifoTypeOK /\ RingConsistent

\* The queue fifo_init makes satisfies the invariant.
LEMMA InitFifoInv == QueueInit => FifoInv
PROOF
<1>. SUFFICES ASSUME QueueInit PROVE FifoInv
  OBVIOUS
<1>1. FifoTypeOK
  BY QueueAssumption DEF QueueInit, FifoInit, FifoTypeOK, Slots, AnyJob
<1>2. (0 + 0) % Capacity = 0
  BY QueueAssumption, RingMod
<1>3. RingConsistent
  BY <1>2 DEF QueueInit, FifoInit, RingConsistent, SlotAt
<1>. QED BY <1>1, <1>3 DEF FifoInv

\* fifo_enqueue, the caller's buffers being left alone.
LEMMA EnqueueFifoInv ==
  ASSUME FifoInv, NEW j \in Jobs, NEW ok \in BOOLEAN,
         FifoEnqueue(j, ok), UNCHANGED job
  PROVE  FifoInv'
PROOF
<1>. USE DEF FifoInv, FifoTypeOK, Slots, AnyJob
<1>1. CASE ~HasRoom
  BY <1>1 DEF FifoEnqueue, fifoVars, RingConsistent, SlotAt
<1>2. CASE HasRoom
  <2>1. /\ buffer' = [buffer EXCEPT ![begin] = j]
        /\ occupied' = occupied + 1
        /\ begin' = (begin + 1) % Capacity
        /\ end' = end
        /\ occupied \in 0 .. Capacity - 1
    BY <1>2, QueueAssumption DEF FifoEnqueue, HasRoom, After
  <2>2. begin' = (end + (occupied + 1)) % Capacity
    BY <2>1, RingStep, QueueAssumption DEF RingConsistent, SlotAt
  <2>3. begin' \in Slots
    BY <2>1, AfterSlot DEF After
  <2>4. FifoTypeOK'
    BY <2>1, <2>3, QueueAssumption
  <2>5. ASSUME NEW i \in 0 .. occupied
        PROVE  buffer'[(end + i) % Capacity] \in Jobs
    <3>1. (end + i) % Capacity \in Slots
      BY <2>1, RingStep, QueueAssumption
    <3>2. CASE i = occupied
      BY <2>1, <3>1, <3>2 DEF RingConsistent, SlotAt
    <3>3. CASE i # occupied
      <4>0. /\ i \in 0 .. Capacity - 1
            /\ occupied \in 0 .. Capacity - 1
            /\ end \in 0 .. Capacity - 1
            /\ Capacity \in Nat \ {0}
        BY <2>1, QueueAssumption
      <4>1. (end + i) % Capacity # (end + occupied) % Capacity
        BY <3>3, <4>0, RingDistinct
      <4>2. i \in 0 .. occupied - 1
        BY <3>3
      <4>3. (end + i) % Capacity # begin
        BY <4>1 DEF RingConsistent, SlotAt
      <4>. QED BY <2>1, <3>1, <4>2, <4>3 DEF RingConsistent, SlotAt
    <3>. QED BY <3>2, <3>3
  <2>6. 0 .. occupied' - 1 = 0 .. occupied
    BY <2>1
  <2>. QED BY <2>1, <2>2, <2>4, <2>5, <2>6 DEF RingConsistent, SlotAt
<1>. QED BY <1>1, <1>2

\* fifo_dequeue; what is handed over is a queued line.
LEMMA DequeueFifoInv ==
  ASSUME FifoInv, NEW w \in Workers, FifoDequeue(w)
  PROVE  /\ FifoInv'
         /\ occupied > 0 => job' = [job EXCEPT ![w] = Front] /\ Front \in Jobs
PROOF
<1>. USE DEF FifoInv, FifoTypeOK, Slots, AnyJob
<1>1. CASE occupied = 0
  BY <1>1 DEF FifoDequeue, queueVars, RingConsistent, SlotAt
<1>2. CASE occupied > 0
  <2>1. /\ job' = [job EXCEPT ![w] = Front]
        /\ end' = (end + 1) % Capacity
        /\ occupied' = occupied - 1
        /\ buffer' = buffer
        /\ begin' = begin
        /\ occupied - 1 \in 0 .. Capacity - 1
    BY <1>2, QueueAssumption DEF FifoDequeue, After
  <2>2. Front \in Jobs
    <3>1. (end + 0) % Capacity = end
      BY RingMod, QueueAssumption
    <3>2. 0 \in 0 .. occupied - 1
      BY <1>2, QueueAssumption
    <3>3. buffer[(end + 0) % Capacity] \in Jobs
      BY <3>2 DEF RingConsistent, SlotAt
    <3>. QED BY <3>1, <3>3 DEF Front
  <2>3. end' \in Slots
    BY <2>1, AfterSlot DEF After
  <2>4. FifoTypeOK'
    BY <2>1, <2>2, <2>3, QueueAssumption
  <2>5. ASSUME NEW i \in 0 .. occupied - 1
        PROVE  (end' + i) % Capacity = (end + (i + 1)) % Capacity
    <3>1. i \in 0 .. Capacity - 1
      BY <2>1, QueueAssumption
    <3>. QED BY <2>1, <3>1, RingStep, QueueAssumption
  <2>6. begin' = (end' + occupied') % Capacity
    BY <2>1, <2>5, <1>2 DEF RingConsistent, SlotAt
  <2>7. ASSUME NEW i \in 0 .. occupied' - 1
        PROVE  buffer'[(end' + i) % Capacity] \in Jobs
    <3>1. i \in 0 .. occupied - 1 /\ i + 1 \in 0 .. occupied - 1
      BY <2>1, QueueAssumption
    <3>2. buffer[(end + (i + 1)) % Capacity] \in Jobs
      BY <3>1 DEF RingConsistent, SlotAt
    <3>. QED BY <2>1, <2>5, <3>1, <3>2
  <2>. QED BY <2>1, <2>2, <2>4, <2>6, <2>7 DEF RingConsistent, SlotAt
<1>. QED BY <1>1, <1>2

\* A worker using its line up.
LEMMA UseUpFifoInv ==
  ASSUME FifoInv, NEW w \in Workers, UseUp(w), UNCHANGED fifoVars
  PROVE  FifoInv'
PROOF
  BY DEF FifoInv, FifoTypeOK, Slots, AnyJob, RingConsistent, SlotAt, UseUp, fifoVars

\* A step that changes no field of the queue keeps it.
LEMMA StutterFifoInv ==
  ASSUME FifoInv, UNCHANGED queueVars
  PROVE  FifoInv'
PROOF
  BY DEF FifoInv, FifoTypeOK, Slots, AnyJob, RingConsistent, SlotAt, queueVars

\* Every call of queue.c keeps the fields in their ranges and the two indices
\* and the count consistent.
THEOREM FifoInvariant == QueueSpec => []FifoInv
PROOF
<1>1. QueueInit => FifoInv
  BY InitFifoInv
<1>2. FifoInv /\ [QueueNext]_queueVars => FifoInv'
  <2>. SUFFICES ASSUME FifoInv, [QueueNext]_queueVars PROVE FifoInv'
    OBVIOUS
  <2>1. ASSUME NEW j \in Jobs, Enqueue(j) PROVE FifoInv'
    BY <2>1, EnqueueFifoInv DEF Enqueue
  <2>2. ASSUME NEW w \in Workers, FifoDequeue(w) PROVE FifoInv'
    BY <2>2, DequeueFifoInv
  <2>3. ASSUME NEW w \in Workers, UseUp(w), UNCHANGED fifoVars PROVE FifoInv'
    BY <2>3, UseUpFifoInv
  <2>4. CASE UNCHANGED queueVars
    BY <2>4, StutterFifoInv
  <2>. QED BY <2>1, <2>2, <2>3, <2>4 DEF QueueNext
<1>. QED BY <1>1, <1>2, PTL DEF QueueSpec

\* The fields of fifo_queue_t stay in their ranges.
THEOREM FifoTypeCorrect == QueueSpec => []FifoTypeOK
PROOF
<1>1. FifoInv => FifoTypeOK
  BY DEF FifoInv
<1>. QED BY <1>1, FifoInvariant, PTL

\* The write index is always `occupied' slots past the read index, and every
\* slot between them holds a queued line.
THEOREM FifoRingConsistent == QueueSpec => []RingConsistent
PROOF
<1>1. FifoInv => RingConsistent
  BY DEF FifoInv
<1>. QED BY <1>1, FifoInvariant, PTL
-----------------------------------------------------------------------------
(* The ring buffer implements the bounded list.                            *)

\* The refinement mapping gives a list of lines of at most Capacity.
LEMMA ContentsSeq ==
  ASSUME FifoInv
  PROVE  /\ Contents \in Seq(Jobs)
         /\ Len(Contents) = occupied
         /\ DOMAIN Contents = 1 .. occupied
         /\ \A i \in 1 .. occupied : Contents[i] = buffer[(end + (i - 1)) % Capacity]
PROOF
<1>1. occupied \in Nat
  BY QueueAssumption DEF FifoInv, FifoTypeOK
<1>2. ASSUME NEW i \in 1 .. occupied
      PROVE  buffer[(end + (i - 1)) % Capacity] \in Jobs
  <2>1. i - 1 \in 0 .. occupied - 1
    BY <1>1
  <2>. QED BY <2>1 DEF FifoInv, RingConsistent, SlotAt
<1>3. Contents \in [1 .. occupied -> Jobs]
  BY <1>2 DEF Contents, SlotAt
<1>4. Contents \in Seq(Jobs) /\ Len(Contents) = occupied
  BY <1>1, <1>3
<1>. QED BY <1>3, <1>4 DEF Contents, SlotAt

\* fifo_enqueue appends the line or, when the queue is full, does nothing.
LEMMA EnqueueAppends ==
  ASSUME FifoInv, NEW j \in Jobs, NEW ok \in BOOLEAN,
         FifoEnqueue(j, ok), UNCHANGED job
  PROVE  \/ Len(Contents) < Capacity /\ Contents' = Append(Contents, j)
         \/ UNCHANGED Contents
PROOF
<1>1. FifoInv'
  BY EnqueueFifoInv
<1>2. CASE ~HasRoom
  BY <1>2 DEF FifoEnqueue, fifoVars, Contents, SlotAt
<1>3. CASE HasRoom
  <2>1. /\ buffer' = [buffer EXCEPT ![begin] = j]
        /\ occupied' = occupied + 1
        /\ end' = end
        /\ occupied \in 0 .. Capacity - 1
        /\ end \in 0 .. Capacity - 1
        /\ Capacity \in Nat \ {0}
        /\ begin = (end + occupied) % Capacity
        /\ begin \in DOMAIN buffer
    BY <1>3, QueueAssumption
    DEF FifoEnqueue, HasRoom, FifoInv, FifoTypeOK, RingConsistent, SlotAt, Slots
  <2>2. /\ Contents \in Seq(Jobs)
        /\ Len(Contents) = occupied
        /\ \A i \in 1 .. occupied : Contents[i] = buffer[(end + (i - 1)) % Capacity]
    BY ContentsSeq
  <2>3. /\ Contents' \in Seq(Jobs)
        /\ Len(Contents') = occupied + 1
        /\ \A i \in 1 .. occupied + 1 :
              Contents'[i] = buffer'[(end + (i - 1)) % Capacity]
    <3>1. /\ (Contents \in Seq(Jobs))'
          /\ (Len(Contents) = occupied)'
          /\ (\A i \in 1 .. occupied :
                Contents[i] = buffer[(end + (i - 1)) % Capacity])'
      BY <1>1, ContentsSeq, PTL
    <3>. QED BY <2>1, <3>1
  <2>4. /\ Append(Contents, j) \in Seq(Jobs)
        /\ Len(Append(Contents, j)) = occupied + 1
        /\ Append(Contents, j)[occupied + 1] = j
        /\ \A i \in 1 .. occupied : Append(Contents, j)[i] = Contents[i]
    BY <2>2
  <2>5. ASSUME NEW i \in 1 .. occupied + 1
        PROVE  Contents'[i] = Append(Contents, j)[i]
    <3>1. CASE i = occupied + 1
      <4>1. i - 1 = occupied
        BY <2>1, <3>1
      <4>. QED BY <2>1, <2>3, <2>4, <3>1, <4>1
    <3>2. CASE i # occupied + 1
      <4>1. i \in 1 .. occupied /\ i - 1 \in 0 .. Capacity - 1 /\ i - 1 # occupied
        BY <2>1, <3>2
      <4>2. (end + (i - 1)) % Capacity # (end + occupied) % Capacity
        BY <2>1, <4>1, RingDistinct
      <4>3. buffer'[(end + (i - 1)) % Capacity] = buffer[(end + (i - 1)) % Capacity]
        BY <2>1, <4>2
      <4>. QED BY <2>2, <2>3, <2>4, <4>1, <4>3
    <3>. QED BY <3>1, <3>2
  <2>6. Contents' = Append(Contents, j)
    BY <2>3, <2>4, <2>5, SeqEqual
  <2>. QED BY <2>1, <2>2, <2>6
<1>. QED BY <1>2, <1>3

\* fifo_dequeue hands over the head of the list or, when there is none, does
\* nothing.
LEMMA DequeueTakesHead ==
  ASSUME FifoInv, NEW w \in Workers, FifoDequeue(w)
  PROVE  \/ /\ Contents # <<>>
            /\ job' = [job EXCEPT ![w] = Head(Contents)]
            /\ Contents' = Tail(Contents)
         \/ UNCHANGED <<Contents, job>>
PROOF
<1>1. FifoInv'
  BY DequeueFifoInv
<1>2. CASE occupied = 0
  BY <1>2 DEF FifoDequeue, queueVars, Contents, SlotAt
<1>3. CASE occupied > 0
  <2>1. /\ job' = [job EXCEPT ![w] = buffer[end]]
        /\ buffer' = buffer
        /\ end' = (end + 1) % Capacity
        /\ occupied' = occupied - 1
        /\ occupied \in 1 .. Capacity
        /\ end \in 0 .. Capacity - 1
        /\ Capacity \in Nat \ {0}
    BY <1>3, QueueAssumption
    DEF FifoDequeue, After, Front, FifoInv, FifoTypeOK, Slots
  <2>2. /\ Contents \in Seq(Jobs)
        /\ Len(Contents) = occupied
        /\ \A i \in 1 .. occupied : Contents[i] = buffer[(end + (i - 1)) % Capacity]
    BY ContentsSeq
  <2>3. /\ Contents' \in Seq(Jobs)
        /\ Len(Contents') = occupied - 1
        /\ \A i \in 1 .. occupied - 1 :
              Contents'[i] = buffer[(end' + (i - 1)) % Capacity]
    <3>1. /\ (Contents \in Seq(Jobs))'
          /\ (Len(Contents) = occupied)'
          /\ (\A i \in 1 .. occupied :
                Contents[i] = buffer[(end + (i - 1)) % Capacity])'
      BY <1>1, ContentsSeq, PTL
    <3>. QED BY <2>1, <3>1
  <2>4. Contents # <<>>
    BY <2>1, <2>2
  <2>5. Head(Contents) = buffer[end]
    <3>1. (end + (1 - 1)) % Capacity = end
      <4>1. \A x \in 0 .. 2 * Capacity - 1 :
              x % Capacity = IF x < Capacity THEN x ELSE x - Capacity
        BY <2>1, RingMod
      <4>. QED BY <2>1, <4>1
    <3>2. Head(Contents) = Contents[1] /\ 1 \in 1 .. occupied
      BY <2>1, <2>2, <2>4
    <3>. QED BY <2>2, <3>1, <3>2
  <2>6. /\ Tail(Contents) \in Seq(Jobs)
        /\ Len(Tail(Contents)) = occupied - 1
        /\ \A i \in 1 .. occupied - 1 : Tail(Contents)[i] = Contents[i + 1]
    BY <2>2, <2>4, HeadTailProperties
  <2>7. ASSUME NEW i \in 1 .. occupied - 1
        PROVE  Contents'[i] = Tail(Contents)[i]
    <3>1. /\ i - 1 \in 0 .. Capacity - 1
          /\ i + 1 \in 1 .. occupied
          /\ (i + 1) - 1 = (i - 1) + 1
      BY <2>1
    <3>2. (end' + (i - 1)) % Capacity = (end + ((i - 1) + 1)) % Capacity
      BY <2>1, <3>1, RingStep
    <3>3. Contents[i + 1] = buffer[(end + ((i - 1) + 1)) % Capacity]
      BY <2>2, <3>1
    <3>. QED BY <2>3, <2>6, <3>2, <3>3
  <2>8. Contents' = Tail(Contents)
    BY <2>3, <2>6, <2>7, SeqEqual
  <2>. QED BY <2>1, <2>4, <2>5, <2>8
<1>4. occupied = 0 \/ occupied > 0
  BY QueueAssumption DEF FifoInv, FifoTypeOK
<1>. QED BY <1>2, <1>3, <1>4

\* The empty ring stands for the empty list.
LEMMA InitContents == QueueInit => Abstract!Init
PROOF
<1>. SUFFICES ASSUME QueueInit PROVE Abstract!Init
  OBVIOUS
<1>1. occupied = 0 /\ FifoInv
  BY InitFifoInv DEF QueueInit, FifoInit
<1>2. Contents \in Seq(Jobs) /\ Len(Contents) = 0
  BY <1>1, ContentsSeq
<1>3. Contents = <<>>
  BY <1>2
<1>. QED BY <1>3 DEF QueueInit, Abstract!Init

\* A step of the queue, or of a program that changes it by these operations
\* only, is a step of the bounded list or leaves it alone.
LEMMA QueueStepImplements ==
  ASSUME FifoInv, [QueueNext]_queueVars
  PROVE  [Abstract!Next]_(Abstract!vars)
PROOF
<1>1. ASSUME NEW j \in Jobs, Enqueue(j) PROVE [Abstract!Next]_(Abstract!vars)
  <2>1. PICK ok \in BOOLEAN : FifoEnqueue(j, ok) /\ UNCHANGED job
    BY <1>1 DEF Enqueue
  <2>2. CASE Len(Contents) < Capacity /\ Contents' = Append(Contents, j)
    BY <2>1, <2>2 DEF Abstract!Next, Abstract!Put
  <2>3. CASE UNCHANGED Contents
    BY <2>1, <2>3 DEF Abstract!vars
  <2>. QED BY <2>1, <2>2, <2>3, EnqueueAppends
<1>2. ASSUME NEW w \in Workers, FifoDequeue(w) PROVE [Abstract!Next]_(Abstract!vars)
  <2>1. CASE /\ Contents # <<>>
             /\ job' = [job EXCEPT ![w] = Head(Contents)]
             /\ Contents' = Tail(Contents)
    BY <2>1 DEF Abstract!Next, Abstract!Take
  <2>2. CASE UNCHANGED <<Contents, job>>
    BY <2>2 DEF Abstract!vars
  <2>. QED BY <1>2, <2>1, <2>2, DequeueTakesHead
<1>3. ASSUME NEW w \in Workers, UseUp(w), UNCHANGED fifoVars
      PROVE  [Abstract!Next]_(Abstract!vars)
  <2>1. UNCHANGED Contents
    BY <1>3 DEF fifoVars, Contents, SlotAt
  <2>. QED BY <1>3, <2>1 DEF UseUp, Abstract!Next, Abstract!Use
<1>4. CASE UNCHANGED queueVars
  BY <1>4 DEF queueVars, Contents, SlotAt, Abstract!vars
<1>. QED BY <1>1, <1>2, <1>3, <1>4 DEF QueueNext

\* The ring buffer of queue.c implements the bounded list: no line is lost,
\* duplicated or reordered, whatever the capacity.
THEOREM FifoImplementsList == QueueSpec => ImplementsFifo
PROOF
<1>1. QueueInit => Abstract!Init
  BY InitContents
<1>2. FifoInv /\ [QueueNext]_queueVars => [Abstract!Next]_(Abstract!vars)
  BY QueueStepImplements
<1>. QED BY <1>1, <1>2, FifoInvariant, PTL DEF QueueSpec, ImplementsFifo, Abstract!Spec

-----------------------------------------------------------------------------
(* The threads.                                                            *)

Lines == Jobs \union {Quit}

ControlInv ==
  /\ should_run \in BOOLEAN
  /\ mutex \in {Free, Main, Handler}
  /\ mpc \in MainStates
  /\ hpc \in {"idle", "lock", "write", "report"}
  /\ wpc \in [Workers -> WorkerStates]
  /\ todo \in [Workers -> Seq(Jobs)]
  /\ pipe \in Seq(Lines)
  /\ batch \in Seq(Lines)
  /\ linked \in BOOLEAN
  /\ qlife \in {"raw", "live", "freed"}
  /\ sent \in 0 .. MaxCommands
  /\ signals \in 0 .. MaxSignals
  /\ \A w \in Workers : wpc[w] = "write" => todo[w] # <<>>

-----------------------------------------------------------------------------
(* Ranges of the control variables.                                        *)

\* The program starts with every control variable in its range.
LEMMA InitControl == Init => ControlInv
PROOF
<1>. SUFFICES ASSUME Init PROVE ControlInv
  OBVIOUS
<1>1. 0 \in 0 .. MaxCommands /\ 0 \in 0 .. MaxSignals
  BY DispatcherAssumption
<1>2. <<>> \in Seq(Jobs) /\ <<>> \in Seq(Lines)
  OBVIOUS
<1>3. /\ wpc \in [Workers -> WorkerStates]
      /\ \A w \in Workers : wpc[w] # "write"
  BY DEF Init, WorkerStates
<1>4. todo \in [Workers -> Seq(Jobs)]
  BY <1>2 DEF Init
<1>. QED
  BY <1>1, <1>2, <1>3, <1>4
  DEF Init, ControlInv, MainStates, Startup, Over, Free, Main, Handler

\* A broadcast sends waiters to the lock and moves nobody else.
LEMMA WokenStates ==
  ASSUME ControlInv
  PROVE  /\ Woken \in [Workers -> WorkerStates]
         /\ \A w \in Workers : Woken[w] = "write" => wpc[w] = "write"
         /\ \A w \in Workers : Woken[w] # "wait"
         /\ \A w \in Workers : Woken[w] # "lock" => Woken[w] = wpc[w]
PROOF
  BY DEF Woken, ControlInv, WorkerStates, Ended

\* Steps of the main thread, from the start-up to exit_, keep the ranges.
LEMMA MainControl ==
  ASSUME ControlInv, MainNext
  PROVE  ControlInv'
PROOF
<1>. USE DEF ControlInv, MainAt, mainVars, workVars
<1>1. CASE CreateFifo
  BY <1>1 DEF CreateFifo, MainStates, Startup, Over
<1>2. ASSUME NEW w \in Workers, SpawnWorker(w) PROVE ControlInv'
  BY <1>2 DEF SpawnWorker, WorkerStates, Ended
<1>3. CASE InitQueue
  BY <1>3 DEF InitQueue, MainStates, Startup, Over
<1>4. CASE StartWatcher
  BY <1>4 DEF StartWatcher, MainStates, Startup, Over
<1>5. CASE SocketReady
  BY <1>5 DEF SocketReady, MainStates, Startup, Over
<1>6. CASE CheckRun
  BY <1>6, WokenStates DEF CheckRun, MainStates, Startup, Over
<1>7. CASE ReturnRun
  BY <1>7 DEF ReturnRun, MainStates, Startup, Over
<1>8. CASE ReadPipe
  <2>1. PICK n \in 1 .. MaxBatch :
          /\ n <= Len(pipe)
          /\ batch' = SubSeq(pipe, 1, n)
          /\ pipe' = SubSeq(pipe, n + 1, Len(pipe))
    BY <1>8 DEF ReadPipe
  <2>2. n \in Nat /\ Len(pipe) \in Nat
    BY DispatcherAssumption
  <2>3. batch' \in Seq(Lines) /\ pipe' \in Seq(Lines)
    <3>1. \A i \in 1 .. n : pipe[i] \in Lines
      BY <2>1, <2>2
    <3>2. \A i \in n + 1 .. Len(pipe) : pipe[i] \in Lines
      BY <2>1, <2>2
    <3>. QED BY <2>1, <2>2, <3>1, <3>2, SubSeqProperties
  <2>. QED BY <1>8, <2>3 DEF ReadPipe, MainStates, Startup, Over
<1>9. CASE EndParse
  BY <1>9 DEF EndParse, MainStates, Startup, Over
<1>10. CASE LockEnqueue
  BY <1>10 DEF LockEnqueue, MainStates, Startup, Over
<1>11. CASE EnqueueLine
  <2>1. PICK n \in DOMAIN batch, ok \in BOOLEAN :
          IF ok
          THEN /\ wpc' = Woken
               /\ batch' = SubSeq(batch, n + 1, Len(batch))
               /\ mpc' = "parse"
          ELSE /\ batch' = <<>>
               /\ mpc' = "poll"
               /\ UNCHANGED wpc
    BY <1>11 DEF EnqueueLine
  <2>2. n \in 1 .. Len(batch) /\ Len(batch) \in Nat
    OBVIOUS
  <2>3. \A i \in n + 1 .. Len(batch) : batch[i] \in Lines
    BY <2>2
  <2>4. SubSeq(batch, n + 1, Len(batch)) \in Seq(Lines)
    BY <2>2, <2>3, SubSeqProperties
  <2>5. batch' \in Seq(Lines)
    <3>1. CASE ok
      BY <2>1, <2>4, <3>1
    <3>2. CASE ~ok
      BY <2>1, <3>2
    <3>. QED BY <3>1, <3>2
  <2>6. mpc' \in MainStates
    BY <2>1 DEF MainStates
  <2>7. /\ wpc' \in [Workers -> WorkerStates]
        /\ \A w \in Workers : wpc'[w] = "write" => wpc[w] = "write"
    BY <2>1, WokenStates
  <2>. QED BY <1>11, <2>5, <2>6, <2>7 DEF EnqueueLine
<1>12. CASE LeaveLoop
  BY <1>12 DEF LeaveLoop, MainStates, Startup, Over
<1>13. CASE JoinWorkers
  BY <1>13 DEF JoinWorkers, MainStates, Startup, Over
<1>14. CASE CleanUp \/ Exit
  BY <1>14 DEF CleanUp, Exit, MainStates, Startup, Over
<1>. QED
  BY <1>1, <1>2, <1>3, <1>4, <1>5, <1>6, <1>7, <1>8, <1>9, <1>10, <1>11, <1>12,
     <1>13, <1>14
  DEF MainNext

\* So do the steps of signal_handler,
LEMMA HandlerControl ==
  ASSUME ControlInv, Signal \/ HandlerNext
  PROVE  ControlInv'
PROOF
<1>. USE DEF ControlInv, mainVars, workVars
<1>1. CASE Signal
  <2>1. signals' \in 0 .. MaxSignals
    BY <1>1, DispatcherAssumption DEF Signal
  <2>. QED BY <1>1, <2>1 DEF Signal
<1>2. CASE HandlerLock
  BY <1>2 DEF HandlerLock, Handler
<1>3. CASE HandlerWrite
  <2>1. pipe' \in Seq(Lines)
    BY <1>3 DEF HandlerWrite, Lines
  <2>. QED BY <1>3, <2>1 DEF HandlerWrite, Free
<1>4. CASE HandlerReport
  BY <1>4 DEF HandlerReport, Free
<1>. QED BY <1>1, <1>2, <1>3, <1>4 DEF HandlerNext

\* those of worker_thread and the write_fifo it calls,
LEMMA WorkerControl ==
  ASSUME ControlInv, NEW w \in Workers, WorkerNext(w) \/ SpuriousWake(w)
  PROVE  ControlInv'
PROOF
<1>. USE DEF ControlInv, mainVars, workVars, WorkerAt, Goto
<1>1. CASE InitWorker(w)
  BY <1>1 DEF InitWorker, WorkerStates, Ended
<1>2. CASE Acquire(w)
  <2>1. PICK pc \in {"wait", "stopped", "job"} : wpc' = [wpc EXCEPT ![w] = pc]
    BY <1>2 DEF Acquire
  <2>2. /\ wpc' \in [Workers -> WorkerStates]
        /\ \A v \in Workers : wpc'[v] = "write" => wpc[v] = "write"
    BY <2>1 DEF WorkerStates, Ended
  <2>. QED BY <1>2, <2>2 DEF Acquire
<1>3. CASE RunJob(w)
  <2>1. /\ todo' \in [Workers -> Seq(Jobs)]
        /\ wpc' \in [Workers -> WorkerStates]
        /\ wpc'[w] # "write"
        /\ \A v \in Workers \ {w} : wpc'[v] = wpc[v] /\ todo'[v] = todo[v]
    <3>1. CASE job[w] \in Jobs /\ RefreshList[job[w]] # <<>>
      <4>1. RefreshList[job[w]] \in Seq(Jobs)
        BY <3>1, DispatcherAssumption
      <4>. QED BY <1>3, <3>1, <4>1 DEF RunJob, WorkerStates
    <3>2. CASE ~(job[w] \in Jobs /\ RefreshList[job[w]] # <<>>)
      BY <1>3, <3>2 DEF RunJob, WorkerStates
    <3>. QED BY <3>1, <3>2
  <2>. QED BY <1>3, <2>1 DEF RunJob
<1>4. CASE OpenFifo(w)
  <2>1. CASE todo[w] = <<>>
    BY <1>4, <2>1 DEF OpenFifo, WorkerStates
  <2>2. CASE todo[w] # <<>> /\ linked
    BY <1>4, <2>2 DEF OpenFifo, WorkerStates
  <2>3. CASE todo[w] # <<>> /\ ~linked
    <3>1. Tail(todo[w]) \in Seq(Jobs)
      BY <2>3, HeadTailProperties
    <3>. QED BY <1>4, <2>3, <3>1 DEF OpenFifo
  <2>. QED BY <2>1, <2>2, <2>3
<1>5. CASE WriteFifo(w)
  <2>1. todo[w] # <<>>
    BY <1>5 DEF WriteFifo
  <2>2. Head(todo[w]) \in Jobs /\ Tail(todo[w]) \in Seq(Jobs)
    BY <2>1, HeadTailProperties
  <2>3. pipe' \in Seq(Lines)
    BY <1>5, <2>2 DEF WriteFifo, Lines
  <2>. QED BY <1>5, <2>2, <2>3 DEF WriteFifo, WorkerStates
<1>6. CASE Sleep(w)
  BY <1>6 DEF Sleep, WorkerStates
<1>7. CASE SpuriousWake(w)
  BY <1>7 DEF SpuriousWake, WorkerStates
<1>. QED BY <1>1, <1>2, <1>3, <1>4, <1>5, <1>6, <1>7 DEF WorkerNext

\* and a client's write to the pipe.
LEMMA ClientControl ==
  ASSUME ControlInv, NEW j \in Jobs, Submit(j)
  PROVE  ControlInv'
PROOF
<1>1. sent' \in 0 .. MaxCommands
  BY DispatcherAssumption DEF Submit, ControlInv
<1>2. pipe' \in Seq(Lines)
  BY DEF Submit, ControlInv, Lines
<1>. QED BY <1>1, <1>2 DEF Submit, ControlInv, mainVars, workVars

\* Together: any step of the daemon keeps the ranges.
LEMMA StepControl ==
  ASSUME ControlInv, [Next]_vars
  PROVE  ControlInv'
PROOF
<1>1. CASE UNCHANGED vars
  BY <1>1 DEF vars, ControlInv
<1>. QED
  BY <1>1, MainControl, HandlerControl, WorkerControl, ClientControl DEF Next

\* Every control variable stays in its range, and a worker is never in
\* write_fifo without a page to write.
THEOREM ControlCorrect == Spec => []ControlInv
PROOF
<1>1. ControlInv /\ [Next]_vars => ControlInv'
  BY StepControl
<1>. QED BY InitControl, <1>1, PTL DEF Spec

-----------------------------------------------------------------------------
(* The queue is changed by its own operations only.                        *)

\* A step is a call of fifo_enqueue or fifo_dequeue, the use of a job, or
\* leaves the queue alone.
LEMMA StepUsesQueue ==
  ASSUME ControlInv, [Next]_vars
  PROVE  [QueueNext]_queueVars
PROOF
<1>. USE DEF MainAt, mainVars, workVars
<1>1. ASSUME EnqueueLine PROVE QueueNext
  <2>1. PICK n \in DOMAIN batch, ok \in BOOLEAN :
          /\ FirstLineAt(n)
          /\ FifoEnqueue(Parsed(n), ok)
    BY <1>1 DEF EnqueueLine
  <2>2. Parsed(n) \in Jobs
    BY <2>1, DispatcherAssumption
    DEF Parsed, FirstLineAt, ControlInv, Lines
  <2>. QED BY <1>1, <2>1, <2>2 DEF EnqueueLine, QueueNext, Enqueue
<1>2. CASE MainNext
  <2>1. ASSUME NEW w \in Workers, SpawnWorker(w) PROVE UNCHANGED queueVars
    BY <2>1 DEF SpawnWorker
  <2>. QED
    BY <1>1, <1>2, <2>1
    DEF MainNext, CreateFifo, InitQueue, StartWatcher, SocketReady, CheckRun,
        ReturnRun, ReadPipe, EndParse, LockEnqueue, LeaveLoop, JoinWorkers,
        CleanUp, Exit
<1>3. CASE Signal \/ HandlerNext
  BY <1>3 DEF Signal, HandlerNext, HandlerLock, HandlerWrite, HandlerReport
<1>4. ASSUME NEW w \in Workers, WorkerNext(w) \/ SpuriousWake(w)
      PROVE  [QueueNext]_queueVars
  BY <1>4
  DEF WorkerNext, InitWorker, Acquire, RunJob, OpenFifo, WriteFifo, Sleep,
      SpuriousWake, QueueNext
<1>5. ASSUME NEW j \in Jobs, Submit(j) PROVE UNCHANGED queueVars
  BY <1>5 DEF Submit
<1>6. CASE UNCHANGED vars
  BY <1>6 DEF vars
<1>. QED BY <1>2, <1>3, <1>4, <1>5, <1>6 DEF Next

\* Whatever the threads do, the queue sees a sequence of its own operations.
THEOREM DispatcherUsesQueue == Spec => QueueSpec
PROOF
<1>1. Init => QueueInit
  BY DEF Init
<1>2. ControlInv /\ [Next]_vars => [QueueNext]_queueVars
  BY StepUsesQueue
<1>. QED BY <1>1, <1>2, ControlCorrect, PTL DEF Spec, QueueSpec

\* So the lines the event loop queues reach the workers in order, once each.
THEOREM DispatcherImplementsList == Spec => ImplementsFifo
PROOF
  BY DispatcherUsesQueue, FifoImplementsList, PTL

-----------------------------------------------------------------------------
(* Tokens, the condition variable and the stop orders.                     *)

\* The main thread has sent the stop orders, or is past caring.
StopSent == {"unlooped", "join", "cleanup", "library", "exited", "crashed"}

Living == Workers \ Threads(Ended)

TokenInv ==
  /\ url_count \in Nat
  /\ TokenBalance
  /\ mpc \notin StopSent => url_count <= occupied
  /\ url_count <= occupied + Cardinality(Workers)
  /\ mpc \in {"unlooped", "join", "cleanup", "library"} => ~should_run
  /\ NoStaleJob
  /\ NoLostWakeup
  /\ StopTokens

\* The threads that have not ended can be counted.
LEMMA LivingFinite ==
  /\ IsFiniteSet(Living)
  /\ Cardinality(Living) \in Nat
  /\ Cardinality(Living) <= Cardinality(Workers)
  /\ Cardinality(Workers) \in Nat
PROOF
<1>1. Living \in SUBSET Workers
  BY DEF Living
<1>. QED BY <1>1, FS_Subset, FS_CardinalityType, DispatcherAssumption

\* At the start there are no tokens, no lines and no stop.
LEMMA InitToken == Init => TokenInv
PROOF
<1>. SUFFICES ASSUME Init PROVE TokenInv
  OBVIOUS
<1>1. url_count = 0 /\ occupied = 0 /\ mpc = "fifo"
  BY DEF Init, QueueInit, FifoInit
<1>2. \A w \in Workers : wpc[w] = "unborn"
  BY DEF Init
<1>3. Threads({"wait"}) = {} /\ NoStaleJob
  BY <1>2 DEF Threads, NoStaleJob
<1>4. url_count <= occupied + Cardinality(Workers)
  BY <1>1, LivingFinite
<1>. QED
  BY <1>1, <1>3, <1>4
  DEF TokenInv, TokenBalance, StopSent, NoLostWakeup, StopTokens

\* Steps that leave the counters, should_run and the workers alone.
LEMMA QuietToken ==
  ASSUME TokenInv, UNCHANGED <<queueVars, url_count, wpc>>,
         should_run' => should_run,
         mpc' \in StopSent => mpc' = mpc \/ mpc' \in {"exited", "crashed"}
                               \/ (mpc = "unlooped" /\ mpc' = "join")
                               \/ (mpc = "join" /\ mpc' = "cleanup")
                               \/ (mpc = "cleanup" /\ mpc' = "library"),
         mpc \in StopSent => mpc' \in StopSent
  PROVE  TokenInv'
PROOF
  BY DEF TokenInv, TokenBalance, StopSent, NoStaleJob, NoLostWakeup, StopTokens,
         Threads, queueVars

\* The critical section of should_socket_worker_run.
LEMMA CheckRunToken ==
  ASSUME ControlInv, FifoInv, TokenInv, CheckRun
  PROVE  TokenInv'
PROOF
<1>. occupied \in Nat
  BY QueueAssumption DEF FifoInv, FifoTypeOK
<1>1. CASE should_run
  BY <1>1, QuietToken DEF CheckRun, MainAt, StopSent
<1>2. CASE ~should_run
  <2>1. /\ mpc = "checking"
        /\ mpc' = "unlooped"
        /\ url_count' = url_count + Cardinality(Workers)
        /\ wpc' = Woken
        /\ ~should_run'
        /\ UNCHANGED <<occupied, job>>
    BY <1>2 DEF CheckRun, MainAt, StopOrders, queueVars
  <2>2. url_count <= occupied /\ url_count \in Nat
    BY <2>1 DEF TokenInv, StopSent
  <2>3. /\ Threads({"wait"})' = {}
        /\ \A w \in Workers : wpc'[w] = "job" => wpc[w] = "job"
    BY <2>1 DEF Threads, Woken
  <2>4. Cardinality(Living)' <= Cardinality(Workers) /\ Cardinality(Living)' \in Nat
    <3>1. Living' \in SUBSET Workers
      BY DEF Living
    <3>. QED BY <3>1, FS_Subset, FS_CardinalityType, DispatcherAssumption
  <2>5. url_count' \in Nat /\ Cardinality(Living)' <= url_count'
        /\ url_count' <= occupied' + Cardinality(Workers)
    BY <2>1, <2>2, <2>4, LivingFinite
  <2>6. NoStaleJob'
    BY <2>1, <2>3 DEF TokenInv, NoStaleJob
  <2>7. NoLostWakeup' /\ TokenBalance'
    BY <2>1, <2>3 DEF NoLostWakeup, TokenBalance
  <2>8. StopTokens'
    BY <2>5, LivingFinite DEF StopTokens, Living
  <2>. QED BY <2>1, <2>5, <2>6, <2>7, <2>8 DEF TokenInv, StopSent
<1>. QED BY <1>1, <1>2

\* The critical section of socket_cb.
LEMMA EnqueueToken ==
  ASSUME ControlInv, FifoInv, TokenInv, EnqueueLine
  PROVE  TokenInv'
PROOF
<1>. occupied \in Nat
  BY QueueAssumption DEF FifoInv, FifoTypeOK
<1>1. PICK n \in DOMAIN batch, ok \in BOOLEAN :
        /\ FifoEnqueue(Parsed(n), ok)
        /\ url_count' = url_count + Token(ok)
        /\ IF ok THEN wpc' = Woken /\ mpc' = "parse"
                 ELSE mpc' = "poll" /\ UNCHANGED wpc
  BY DEF EnqueueLine
<1>2. /\ mpc = "enqueue" /\ mpc' \notin StopSent
      /\ UNCHANGED <<job, should_run>>
  BY <1>1 DEF EnqueueLine, MainAt, StopSent
<1>3. CASE ok
  <2>1. occupied' = occupied + 1 /\ url_count' = url_count + 1 /\ wpc' = Woken
    BY <1>1, <1>3 DEF FifoEnqueue, Token
  <2>2. /\ Threads({"wait"})' = {}
        /\ \A w \in Workers : wpc'[w] = "job" => wpc[w] = "job"
    BY <2>1 DEF Threads, Woken
  <2>3. url_count \in Nat /\ Cardinality(Workers) \in Nat
    BY LivingFinite DEF TokenInv
  <2>. QED
    BY <1>2, <2>1, <2>2, <2>3
    DEF TokenInv, TokenBalance, NoStaleJob, NoLostWakeup, StopTokens, StopSent
<1>4. CASE ~ok
  <2>1. UNCHANGED <<occupied, wpc>>
    BY <1>1, <1>4 DEF FifoEnqueue, fifoVars
  <2>2. url_count' = url_count + 0
    BY <1>1, <1>4 DEF Token
  <2>3. url_count' = url_count
    BY <2>2 DEF TokenInv
  <2>. QED
    BY <1>2, <2>1, <2>3
    DEF TokenInv, TokenBalance, NoStaleJob, NoLostWakeup, StopTokens, StopSent,
        Threads
<1>. QED BY <1>3, <1>4

\* The main thread's steps: two of them touch the counters.
LEMMA MainToken ==
  ASSUME ControlInv, FifoInv, TokenInv, MainNext
  PROVE  TokenInv'
PROOF
<1>. USE DEF MainAt, mainVars, workVars
<1>1. ASSUME NEW w \in Workers, SpawnWorker(w) PROVE TokenInv'
  <2>1. /\ mpc = "spawn"
        /\ Threads({"wait"})' \subseteq Threads({"wait"})
        /\ \A v \in Workers : wpc'[v] = "job" => wpc[v] = "job"
        /\ UNCHANGED <<job, occupied, url_count, should_run, mpc>>
    BY <1>1 DEF SpawnWorker, ControlInv, Threads, queueVars
  <2>. QED
    BY <2>1
    DEF TokenInv, TokenBalance, StopSent, NoStaleJob, NoLostWakeup, StopTokens
<1>2. CASE \/ CreateFifo \/ InitQueue \/ StartWatcher \/ SocketReady \/ ReturnRun
           \/ ReadPipe \/ EndParse \/ LockEnqueue \/ LeaveLoop \/ JoinWorkers
           \/ CleanUp \/ Exit
  BY <1>2, QuietToken
  DEF CreateFifo, InitQueue, StartWatcher, SocketReady, ReturnRun, ReadPipe,
      EndParse, LockEnqueue, LeaveLoop, JoinWorkers, CleanUp, Exit,
      StopSent
<1>. QED BY <1>1, <1>2, CheckRunToken, EnqueueToken DEF MainNext

\* Steps of the handler and of the clients.
LEMMA OtherToken ==
  ASSUME ControlInv, TokenInv,
         Signal \/ HandlerNext \/ (\E j \in Jobs : Submit(j))
  PROVE  TokenInv'
PROOF
  BY QuietToken
  DEF Signal, HandlerNext, HandlerLock, HandlerWrite, HandlerReport, Submit,
      mainVars, workVars

\* The worker's critical section.
LEMMA AcquireToken ==
  ASSUME ControlInv, FifoInv, TokenInv, NEW w \in Workers, Acquire(w)
  PROVE  TokenInv'
PROOF
<1>. USE DEF WorkerAt, Goto, mainVars
<1>0. /\ occupied \in Nat
      /\ url_count \in Nat
      /\ wpc \in [Workers -> WorkerStates]
      /\ wpc[w] = "lock"
      /\ UNCHANGED <<should_run, mpc>>
  BY QueueAssumption
  DEF FifoInv, FifoTypeOK, TokenInv, ControlInv, Acquire
<1>1. CASE NoWork /\ wpc' = [wpc EXCEPT ![w] = "wait"] /\ UNCHANGED <<queueVars, url_count>>
  <2>1. url_count = 0
    BY <1>0, <1>1 DEF NoWork
  <2>2. Living' = Living
    BY <1>0, <1>1 DEF Living, Threads, Ended
  <2>3. StopTokens'
    BY <1>0, <1>1, <2>2 DEF TokenInv, StopTokens, Living
  <2>4. NoStaleJob'
    BY <1>0, <1>1 DEF TokenInv, NoStaleJob, queueVars
  <2>. QED
    BY <1>0, <1>1, <2>1, <2>3, <2>4
    DEF TokenInv, TokenBalance, NoLostWakeup, queueVars
<1>2. CASE /\ ~NoWork
           /\ ~should_run
           /\ wpc' = [wpc EXCEPT ![w] = "stopped"]
           /\ url_count' = url_count - 1
           /\ UNCHANGED queueVars
  <2>1. url_count >= 1 /\ url_count' \in Nat
    BY <1>0, <1>2 DEF NoWork
  <2>2. Living' = Living \ {w} /\ w \in Living
    BY <1>0, <1>2 DEF Living, Threads, Ended
  <2>3. Cardinality(Living') = Cardinality(Living) - 1
    BY <2>2, FS_RemoveElement, LivingFinite
  <2>4. StopTokens'
    BY <1>0, <1>2, <2>3, LivingFinite DEF TokenInv, StopTokens, Living
  <2>5. NoStaleJob'
    BY <1>0, <1>2 DEF TokenInv, NoStaleJob, queueVars
  <2>6. NoLostWakeup'
    BY <1>0, <1>2, <2>1 DEF TokenInv, NoLostWakeup, Threads
  <2>7. occupied' = occupied /\ Cardinality(Workers) \in Nat
    BY <1>2, LivingFinite DEF queueVars
  <2>8. /\ mpc' \notin StopSent => url_count' <= occupied'
        /\ url_count' <= occupied' + Cardinality(Workers)
    BY <1>0, <1>2, <2>1, <2>7 DEF TokenInv
  <2>. QED
    BY <1>0, <1>2, <2>1, <2>4, <2>5, <2>6, <2>8 DEF TokenInv, TokenBalance
<1>3. CASE /\ ~NoWork
           /\ should_run
           /\ FifoDequeue(w)
           /\ wpc' = [wpc EXCEPT ![w] = "job"]
           /\ url_count' = url_count - 1
  <2>1. url_count >= 1 /\ url_count = occupied /\ occupied > 0
    BY <1>0, <1>3 DEF NoWork, TokenInv, TokenBalance
  <2>2. /\ occupied' = occupied - 1
        /\ job' = [job EXCEPT ![w] = Front]
        /\ Front \in Jobs
    <3>1. occupied' = occupied - 1
      BY <1>3, <2>1 DEF FifoDequeue
    <3>. QED BY <1>3, <2>1, <3>1, DequeueFifoInv
  <2>3. mpc \notin {"unlooped", "join"}
    BY <1>3 DEF TokenInv
  <2>4. NoStaleJob'
    BY <1>0, <1>3, <2>2 DEF TokenInv, NoStaleJob, FifoInv, FifoTypeOK
  <2>5. NoLostWakeup'
    BY <1>0, <1>3, <2>1 DEF TokenInv, NoLostWakeup, Threads
  <2>6. Cardinality(Workers) \in Nat
    BY LivingFinite
  <2>. QED
    BY <1>0, <1>3, <2>1, <2>2, <2>3, <2>4, <2>5, <2>6
    DEF TokenInv, TokenBalance, StopTokens
<1>. QED BY <1>1, <1>2, <1>3 DEF Acquire

\* The worker's other steps touch no counter, and a thread that waits or runs
\* a job after them did so before.
LEMMA WorkerToken ==
  ASSUME ControlInv, FifoInv, TokenInv, NEW w \in Workers,
         WorkerNext(w) \/ SpuriousWake(w)
  PROVE  TokenInv'
PROOF
<1>1. CASE Acquire(w)
  BY <1>1, AcquireToken
<1>2. CASE \/ InitWorker(w) \/ RunJob(w) \/ OpenFifo(w) \/ WriteFifo(w)
           \/ Sleep(w) \/ SpuriousWake(w)
  <2>1. /\ UNCHANGED <<url_count, occupied, should_run, mpc>>
        /\ wpc \in [Workers -> WorkerStates]
        /\ wpc' \in [Workers -> WorkerStates]
        /\ wpc[w] \notin Ended
        /\ wpc'[w] \notin {"wait", "job"}
        /\ \A v \in Workers \ {w} : wpc'[v] = wpc[v] /\ job'[v] = job[v]
    <3>1. wpc' \in [Workers -> WorkerStates] /\ wpc \in [Workers -> WorkerStates]
      BY <1>2, WorkerControl DEF WorkerNext, ControlInv
    <3>2. CASE RunJob(w)
      <4>1. job \in [Workers -> AnyJob]
        BY DEF FifoInv, FifoTypeOK
      <4>. QED
        BY <3>1, <3>2, <4>1
        DEF RunJob, WorkerAt, Goto, UseUp, fifoVars, mainVars, Ended
    <3>3. CASE ~RunJob(w)
      BY <1>2, <3>1, <3>3
      DEF InitWorker, OpenFifo, WriteFifo, Sleep, SpuriousWake, WorkerAt, Goto,
          queueVars, mainVars, Ended
    <3>. QED BY <3>2, <3>3
  <2>2. Living' \subseteq Living
    BY <2>1 DEF Living, Threads, Ended
  <2>3. Cardinality(Living') <= Cardinality(Living) /\ Cardinality(Living') \in Nat
    BY <2>2, LivingFinite, FS_Subset, FS_CardinalityType
  <2>4. StopTokens'
    BY <2>1, <2>3, LivingFinite DEF TokenInv, StopTokens, Living
  <2>5. NoStaleJob'
    BY <2>1 DEF TokenInv, NoStaleJob
  <2>6. NoLostWakeup'
    BY <2>1 DEF TokenInv, NoLostWakeup, Threads
  <2>. QED BY <2>1, <2>4, <2>5, <2>6 DEF TokenInv, TokenBalance
<1>. QED BY <1>1, <1>2 DEF WorkerNext

\* Together: any step of the daemon keeps the token invariant.
LEMMA StepToken ==
  ASSUME ControlInv, FifoInv, TokenInv, [Next]_vars
  PROVE  TokenInv'
PROOF
<1>1. CASE UNCHANGED vars
  BY <1>1, QuietToken DEF vars
<1>. QED BY <1>1, MainToken, OtherToken, WorkerToken DEF Next

\* The inductive invariant behind the four theorems below holds in every
\* reachable state: tokens, lines, stop orders and waiting workers agree
\* (queral.c:450-460, 541-546, 588-600).
THEOREM TokenCorrect == Spec => []TokenInv
PROOF
<1>1. ControlInv /\ FifoInv /\ TokenInv /\ [Next]_vars => TokenInv'
  BY StepToken
<1>2. Spec => []FifoInv
  BY DispatcherUsesQueue, FifoInvariant, PTL
<1>. QED BY InitToken, <1>1, <1>2, ControlCorrect, PTL DEF Spec

\* All the variables of the program in their ranges, url_count included.
THEOREM TypeCorrect == Spec => []TypeOK
PROOF
<1>1. ControlInv /\ FifoInv /\ TokenInv => TypeOK
  <2>. SUFFICES ASSUME ControlInv, FifoInv, TokenInv PROVE TypeOK
    OBVIOUS
  <2>1. /\ occupied \in 0 .. Capacity
        /\ url_count \in Nat
        /\ url_count <= occupied + Cardinality(Workers)
        /\ Cardinality(Workers) \in Nat
    BY LivingFinite DEF FifoInv, FifoTypeOK, TokenInv
  <2>2. url_count \in 0 .. Capacity + Cardinality(Workers)
    BY <2>1, QueueAssumption
  <2>. QED BY <2>2 DEF TypeOK, FifoInv, ControlInv, Lines
<1>2. Spec => []FifoInv
  BY DispatcherUsesQueue, FifoInvariant, PTL
<1>. QED BY <1>1, <1>2, ControlCorrect, TokenCorrect, PTL

\* url_count and occupied agree until a stop is asked for.
THEOREM CountersAgree == Spec => []TokenBalance
PROOF
<1>1. TokenInv => TokenBalance
  BY DEF TokenInv
<1>. QED BY <1>1, TokenCorrect, PTL

\* No worker interprets its last job again or a buffer nobody filled.
THEOREM JobsAreFresh == Spec => []NoStaleJob
PROOF
<1>1. TokenInv => NoStaleJob
  BY DEF TokenInv
<1>. QED BY <1>1, TokenCorrect, PTL

\* A worker never sleeps beside a token.
THEOREM NoWakeupIsLost == Spec => []NoLostWakeup
PROOF
<1>1. TokenInv => NoLostWakeup
  BY DEF TokenInv
<1>. QED BY <1>1, TokenCorrect, PTL

\* Until the joins are over there is a stop order for every living thread.
THEOREM EveryoneIsStopped == Spec => []StopTokens
PROOF
<1>1. TokenInv => StopTokens
  BY DEF TokenInv
<1>. QED BY <1>1, TokenCorrect, PTL

-----------------------------------------------------------------------------
(* The life of the queue, the mutex and the condition variable.            *)

LifeInv ==
  /\ qlife = "raw" => url_count = 0
  /\ qlife = "freed" => AllEnded
  /\ mpc \in {"fifo", "spawn"} => qlife = "raw"
  /\ mpc \in MainStates \ ({"fifo", "spawn", "cleanup", "library"} \union Over)
       => qlife = "live"

\* At the start the queue is not initialised and no thread needs it.
LEMMA InitLife == Init => LifeInv
PROOF
  BY DEF Init, LifeInv, Over

\* A broadcast revives nobody.
LEMMA WokenEnded ==
  ASSUME AllEnded, wpc' = Woken
  PROVE  AllEnded'
PROOF
  BY DEF AllEnded, Threads, Woken, Ended

\* Every step keeps the place of the main thread and the state of the shared
\* objects in agreement.
LEMMA StepLife ==
  ASSUME ControlInv, TokenInv, LifeInv, [Next]_vars
  PROVE  LifeInv'
PROOF
<1>. USE DEF MainAt, mainVars, workVars
<1>1. CASE UNCHANGED vars
  BY <1>1 DEF vars, LifeInv, AllEnded, Threads
<1>2. ASSUME NEW w \in Workers, SpawnWorker(w) PROVE LifeInv'
  BY <1>2 DEF SpawnWorker, LifeInv
<1>3. CASE CheckRun
  <2>1. mpc = "checking" /\ qlife = "live" /\ qlife' = qlife
    BY <1>3 DEF CheckRun, LifeInv, MainStates, Over, Startup
  <2>2. mpc' \in {"return", "unlooped"}
    BY <1>3 DEF CheckRun
  <2>. QED BY <2>1, <2>2 DEF LifeInv
<1>4. CASE EnqueueLine
  <2>1. mpc = "enqueue" /\ qlife = "live" /\ qlife' = qlife
    BY <1>4 DEF EnqueueLine, LifeInv, MainStates, Over, Startup
  <2>2. mpc' \in {"parse", "poll"}
    BY <1>4 DEF EnqueueLine
  <2>. QED BY <2>1, <2>2 DEF LifeInv
<1>5. CASE \/ CreateFifo \/ InitQueue \/ StartWatcher \/ SocketReady \/ ReturnRun
           \/ ReadPipe \/ EndParse \/ LockEnqueue \/ LeaveLoop \/ JoinWorkers
           \/ CleanUp \/ Exit
  BY <1>5
  DEF CreateFifo, InitQueue, StartWatcher, SocketReady, ReturnRun, ReadPipe,
      EndParse, LockEnqueue, LeaveLoop, JoinWorkers, CleanUp, Exit, LifeInv,
      AllEnded, Threads, MainStates, Over, Startup
<1>6. CASE Signal \/ HandlerNext \/ (\E j \in Jobs : Submit(j))
  BY <1>6
  DEF Signal, HandlerNext, HandlerLock, HandlerWrite, HandlerReport, Submit,
      LifeInv, AllEnded, Threads
<1>7. ASSUME NEW w \in Workers, WorkerNext(w) \/ SpuriousWake(w) PROVE LifeInv'
  <2>1. wpc[w] \notin Ended
    BY <1>7
    DEF WorkerNext, InitWorker, Acquire, RunJob, OpenFifo, WriteFifo, Sleep,
        SpuriousWake, WorkerAt, Ended
  <2>2. qlife # "freed"
    BY <2>1 DEF LifeInv, AllEnded, Threads
  <2>3. UNCHANGED <<mpc, qlife>>
    BY <1>7
    DEF WorkerNext, InitWorker, Acquire, RunJob, OpenFifo, WriteFifo, Sleep,
        SpuriousWake
  <2>4. url_count = 0 => url_count' = 0
    BY <1>7
    DEF WorkerNext, InitWorker, Acquire, NoWork, RunJob, OpenFifo, WriteFifo,
        Sleep, SpuriousWake
  <2>. QED BY <2>2, <2>3, <2>4 DEF LifeInv
<1>. QED
  BY <1>1, <1>2, <1>3, <1>4, <1>5, <1>6, <1>7 DEF Next, MainNext

\* What leaves a critical section of a worker has found the objects alive.
LEMMA StepLeavesLive ==
  ASSUME ControlInv, TokenInv, LifeInv, [Next]_vars,
         NEW w \in Workers, wpc[w] = "lock", wpc'[w] \in {"job", "stopped"}
  PROVE  qlife = "live"
PROOF
<1>1. Acquire(w)
  <2>1. ASSUME NEW v \in Workers, SpawnWorker(v) PROVE FALSE
    BY <2>1 DEF SpawnWorker, ControlInv
  <2>2. ~MainNext
    BY <2>1
    DEF MainNext, CreateFifo, InitQueue, StartWatcher, SocketReady, CheckRun,
        ReturnRun, ReadPipe, EndParse, LockEnqueue, EnqueueLine, LeaveLoop,
        JoinWorkers, CleanUp, Exit, Woken, workVars
  <2>3. ~(Signal \/ HandlerNext \/ (\E j \in Jobs : Submit(j)) \/ UNCHANGED vars)
    BY DEF Signal, HandlerNext, HandlerLock, HandlerWrite, HandlerReport, Submit,
       vars, workVars
  <2>4. PICK v \in Workers : WorkerNext(v) \/ SpuriousWake(v)
    BY <2>2, <2>3 DEF Next
  <2>. QED
    BY <2>4
    DEF WorkerNext, InitWorker, Acquire, RunJob, OpenFifo, WriteFifo, Sleep,
        SpuriousWake, WorkerAt, Goto, ControlInv
<1>2. ~NoWork
  BY <1>1 DEF Acquire, Goto, ControlInv
<1>3. url_count # 0
  BY <1>2 DEF NoWork
<1>4. ~AllEnded
  BY DEF AllEnded, Threads, Ended
<1>. QED BY <1>3, <1>4 DEF LifeInv, ControlInv

\* The queue, the mutex and the condition variable outlive their users.
THEOREM SharedStateOutlivesWorkers == Spec => SharedStateLive
PROOF
<1>1. ControlInv /\ TokenInv /\ LifeInv /\ [Next]_vars => LifeInv'
  BY StepLife
<1>2. Spec => []LifeInv
  BY InitLife, <1>1, ControlCorrect, TokenCorrect, PTL DEF Spec
<1>3. ControlInv /\ TokenInv /\ LifeInv /\ [Next]_vars =>
        [\A w \in Workers :
           wpc[w] = "lock" /\ wpc'[w] \in {"job", "stopped"} => qlife = "live"]_vars
  BY StepLeavesLive
<1>. QED
  BY <1>2, <1>3, ControlCorrect, TokenCorrect, PTL DEF Spec, SharedStateLive
=============================================================================
