----------------------------- MODULE BoundedFifo -----------------------------
(***************************************************************************)
(* What the job queue promises: a bounded first-in first-out list of jobs. *)
(* A job that is put is taken exactly once, in the order of arrival, by    *)
(* one of the workers, into whose hand it goes; the worker then uses it    *)
(* up.  A put into a full list and a take from an empty one do nothing.    *)
(***************************************************************************)
EXTENDS Naturals, Sequences

CONSTANTS Capacity,   \* the most jobs the list holds
          Jobs,       \* what may be put in the list
          NoJob,      \* an empty hand
          Workers     \* who takes jobs

VARIABLES items,      \* the waiting jobs, the oldest first
          hand        \* hand[w]: the job worker w has taken and not used yet

vars == <<items, hand>>

Init ==
  /\ items = <<>>
  /\ hand  = [w \in Workers |-> NoJob]

Put(j) ==
  /\ Len(items) < Capacity
  /\ items' = Append(items, j)
  /\ UNCHANGED hand

Take(w) ==
  /\ items # <<>>
  /\ hand'  = [hand EXCEPT ![w] = Head(items)]
  /\ items' = Tail(items)

Use(w) ==
  /\ hand' = [hand EXCEPT ![w] = NoJob]
  /\ UNCHANGED items

Next ==
  \/ \E j \in Jobs : Put(j)
  \/ \E w \in Workers : Take(w) \/ Use(w)

Spec == Init /\ [][Next]_vars
=============================================================================
