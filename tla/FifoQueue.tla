------------------------------ MODULE FifoQueue ------------------------------
(***************************************************************************)
(* The ring buffer of queue.c (fifo_queue_t).                              *)
(*                                                                         *)
(* `begin' is where the next job is written and `end' where the next one   *)
(* is read: the code names them that way round.  The queue's own mutex is  *)
(* held for the whole of every operation and nothing blocks under it, so   *)
(* an operation is one step.  A slot that was never written holds what     *)
(* malloc returned, NoJob.                                                 *)
(*                                                                         *)
(* job[w] is the buffer worker w passes to fifo_dequeue.  It belongs to    *)
(* the caller and keeps its old content when the queue is empty: the       *)
(* assignment to next_element at queue.c:87 sets only the parameter.       *)
(***************************************************************************)
EXTENDS Naturals, Sequences

CONSTANTS Capacity,   \* fifo_init's argument, QUEUE_CAPACITY in queral.c
          Jobs,       \* the lines that may be queued
          NoJob,      \* content that is no queued line: uninitialised or used up
          Workers     \* the threads that call fifo_dequeue

ASSUME QueueAssumption ==
  /\ Capacity \in Nat \ {0}
  /\ NoJob \notin Jobs

VARIABLES buffer, occupied, begin, end, job

fifoVars == <<buffer, occupied, begin, end>>
queueVars == <<buffer, occupied, begin, end, job>>

Slots == 0 .. Capacity - 1
AnyJob == Jobs \union {NoJob}

-----------------------------------------------------------------------------
(* Mutants: the same operations with a plausible slip.                     *)

\* The read side not wrapping at the end of the array.
AfterNoWrap(i) == IF i + 1 < Capacity THEN i + 1 ELSE i

\* The slot read on the write side's index.
FrontAtBegin == buffer[begin]

-----------------------------------------------------------------------------
(* fifo_init: an array of Capacity unwritten slots.                        *)
FifoInit ==
  /\ buffer   = [i \in Slots |-> NoJob]
  /\ occupied = 0
  /\ begin    = 0
  /\ end      = 0

\* The index after i, around the ring.
After(i) == (i + 1) % Capacity

\* fifo_enqueue's test.  Its other half, sizeof (new_element) <= BUFFER_SIZE,
\* takes the size of a pointer and always holds.
HasRoom == occupied < Capacity

\* The line fifo_dequeue copies out.
Front == buffer[end]

\* fifo_enqueue; ok is *res: TRUE for 1, FALSE for -1.
FifoEnqueue(j, ok) ==
  \/ /\ HasRoom
     /\ ok
     /\ buffer'   = [buffer EXCEPT ![begin] = j]
     /\ occupied' = occupied + 1
     /\ begin'    = After(begin)
     /\ UNCHANGED end
  \/ /\ ~HasRoom
     /\ ~ok
     /\ UNCHANGED fifoVars

\* fifo_dequeue called by worker w with its own buffer.
FifoDequeue(w) ==
  \/ /\ occupied > 0
     /\ job'      = [job EXCEPT ![w] = Front]
     /\ end'      = After(end)
     /\ occupied' = occupied - 1
     /\ UNCHANGED <<buffer, begin>>
  \/ /\ occupied = 0
     /\ UNCHANGED queueVars

\* The caller uses its line up: get_command cuts the command off in place and
\* what is left of the line is no queued line any more.
UseUp(w) == job' = [job EXCEPT ![w] = NoJob]

-----------------------------------------------------------------------------
(* The queue on its own, under any sequence of calls.                      *)
QueueInit ==
  /\ FifoInit
  /\ job = [w \in Workers |-> NoJob]

Enqueue(j) == (\E ok \in BOOLEAN : FifoEnqueue(j, ok)) /\ UNCHANGED job

QueueNext ==
  \/ \E j \in Jobs : Enqueue(j)
  \/ \E w \in Workers : FifoDequeue(w)
  \/ \E w \in Workers : UseUp(w) /\ UNCHANGED fifoVars

QueueSpec == QueueInit /\ [][QueueNext]_queueVars

-----------------------------------------------------------------------------
\* Every field of fifo_queue_t stays in its range, and a caller's buffer holds
\* a line or nothing (queue.h:38-45).
FifoTypeOK ==
  /\ buffer \in [Slots -> AnyJob]
  /\ occupied \in 0 .. Capacity
  /\ begin \in Slots
  /\ end \in Slots
  /\ job \in [Workers -> AnyJob]

\* The slot i places behind the front.
SlotAt(i) == (end + i) % Capacity

\* The two indices and the count agree: going `occupied' places from the read
\* index leads to the write index, through slots that hold real lines.  The
\* three fields are updated by separate statements of fifo_enqueue and
\* fifo_dequeue (queue.c:71-72, 84-85) and nothing else ties them together.
RingConsistent ==
  /\ begin = SlotAt(occupied)
  /\ \A i \in 0 .. occupied - 1 : buffer[SlotAt(i)] \in Jobs

\* The queued lines in order of arrival.
Contents == [i \in 1 .. occupied |-> buffer[SlotAt(i - 1)]]

\* The ring buffer implements the bounded list: fifo_enqueue appends or does
\* nothing, fifo_dequeue hands over the oldest line or does nothing.
Abstract == INSTANCE BoundedFifo WITH items <- Contents, hand <- job
ImplementsFifo == Abstract!Spec
=============================================================================
