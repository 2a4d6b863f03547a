----------------------------- MODULE LineReader -----------------------------
(***************************************************************************)
(* How socket_cb cuts the byte stream of the named pipe into lines:        *)
(* read_buffer holds what the last read() returned, cache_buffer the piece *)
(* of a line that came without its newline.  Only the event loop touches   *)
(* them, so the interleaving is that of its steps with the writers of the  *)
(* pipe.                                                                   *)
(*                                                                         *)
(* A byte is <<k, i>>, the i-th of the k-th line written, so that a        *)
(* property can tell where a queued line comes from.  No byte is NUL, and  *)
(* the overlapping strcpy of queral.c:604 is taken to move bytes down.     *)
(***************************************************************************)
EXTENDS Naturals, Sequences, FiniteSets, SequencesExt

CONSTANTS BufferSize,   \* BUFFER_SIZE, the size of both buffers
          Lengths,      \* lengths of the lines written, without the newline
          QueueMayFill, \* fifo_enqueue may find the queue full
          PipeCapacity, \* bytes the pipe holds
          MaxLines      \* bound on the lines written

ASSUME ReaderAssumption ==
  /\ BufferSize \in Nat \ {0, 1}
  /\ Lengths \subseteq Nat
  /\ QueueMayFill \in BOOLEAN
  /\ PipeCapacity \in Nat
  /\ MaxLines \in Nat

VARIABLES lengths,      \* the lengths of the lines written so far
          pipe,         \* the bytes in the pipe
          read_buffer,  \* the bytes not parsed yet
          cache_buffer, \* the line put together so far
          pc,           \* "poll", "parse" or, after the strncat, "joined"
          queued,       \* the lines given to fifo_enqueue with success
          drops         \* how often the callback gave up half way

vars == <<lengths, pipe, read_buffer, cache_buffer, pc, queued, drops>>

Newline == <<0, 0>>

\* The k-th line written, without its newline.
Line(k, n) == [i \in 1 .. n |-> <<k, i>>]
Body(k) == Line(k, lengths[k])

-----------------------------------------------------------------------------
Init ==
  /\ lengths = <<>>
  /\ pipe = <<>>
  /\ read_buffer = <<>>
  /\ cache_buffer = <<>>
  /\ pc = "poll"
  /\ queued = <<>>
  /\ drops = 0

-----------------------------------------------------------------------------
(* Mutants.                                                                *)

\* The line put together from what was read alone.
JoinedWithoutCache(p) == SubSeq(read_buffer, 1, p)

\* cache_buffer kept after a line was queued.
CacheKept == cache_buffer

\* The length of what was read compared with the buffer, the cache forgotten.
AcceptedAlone(p) == p <= BufferSize

\* read_buffer not moved on behind the line.
RestKept(p) == read_buffer

\* read() given the whole of read_buffer, with no byte left for the NUL.
ReadSizeFull == IF Len(pipe) < BufferSize THEN Len(pipe) ELSE BufferSize

-----------------------------------------------------------------------------
(* A writer writes a line with one write(), which is atomic up to PIPE_BUF  *)
(* bytes; it waits while the pipe has no room for it.                      *)
WriteLine(n) ==
  /\ Len(lengths) < MaxLines
  /\ Len(pipe) + n + 1 <= PipeCapacity
  /\ lengths' = Append(lengths, n)
  /\ pipe' = pipe \o Append(Line(Len(lengths) + 1, n), Newline)
  /\ UNCHANGED <<read_buffer, cache_buffer, pc, queued, drops>>

-----------------------------------------------------------------------------
(* socket_cb.                                                              *)

\* read() returns what there is, up to one byte less than the buffer.
ReadSize == IF Len(pipe) < BufferSize - 1 THEN Len(pipe) ELSE BufferSize - 1

Read ==
  /\ pc = "poll"
  /\ pipe # <<>>
  /\ read_buffer' = SubSeq(pipe, 1, ReadSize)
  /\ pipe' = SubSeq(pipe, ReadSize + 1, Len(pipe))
  /\ pc' = "parse"
  /\ UNCHANGED <<lengths, cache_buffer, queued, drops>>

\* strchr (read_buffer, '\n').
Newlines == {i \in DOMAIN read_buffer : read_buffer[i] = Newline}
Found(p) == p \in Newlines /\ \A i \in Newlines : p <= i

\* cache_buffer after the strncat.
Joined(p) == cache_buffer \o SubSeq(read_buffer, 1, p)

\* What the test before the strncat lets through.
Accepted(p) == Len(cache_buffer) + p <= BufferSize

\* read_buffer after the strcpy that moves what follows the line to its start.
Rest(p) == SubSeq(read_buffer, p + 1, Len(read_buffer))

\* cache_buffer once the line has been queued.
CacheAfterLine == <<>>

\* The callback returns early: the cache is cleared and the rest of what was
\* read is forgotten.
GiveUp ==
  /\ cache_buffer' = <<>>
  /\ read_buffer' = <<>>
  /\ pc' = "poll"
  /\ drops' = drops + 1

JoinLine ==
  /\ pc = "parse"
  /\ \E p \in Newlines :
       /\ Found(p)
       /\ \/ /\ Accepted(p)
             /\ cache_buffer' = Joined(p)
             /\ read_buffer' = Rest(p)
             /\ pc' = "joined"
             /\ UNCHANGED drops
          \/ ~Accepted(p) /\ GiveUp
  /\ UNCHANGED <<lengths, pipe, queued>>

\* The newline is cut off and the line queued.
QueueLine ==
  /\ pc = "joined"
  /\ \/ /\ queued' = Append(queued, Front(cache_buffer))
        /\ cache_buffer' = CacheAfterLine
        /\ pc' = "parse"
        /\ UNCHANGED <<read_buffer, drops>>
     \/ QueueMayFill /\ GiveUp /\ UNCHANGED queued
  /\ UNCHANGED <<lengths, pipe>>

\* No newline is left: strcpy puts the rest in place of what the cache holds.
KeepRest ==
  /\ pc = "parse"
  /\ Newlines = {}
  /\ cache_buffer' = IF read_buffer = <<>> THEN cache_buffer ELSE read_buffer
  /\ read_buffer' = <<>>
  /\ pc' = "poll"
  /\ UNCHANGED <<lengths, pipe, queued, drops>>

Next ==
  \/ \E n \in Lengths : WriteLine(n)
  \/ Read
  \/ JoinLine
  \/ QueueLine
  \/ KeepRest

Spec == Init /\ [][Next]_vars

-----------------------------------------------------------------------------
(* Properties.                                                             *)
\* Ranges of the buffers of socket_worker_t and of the history.
TypeOK ==
  /\ lengths \in Seq(Lengths)
  /\ Len(lengths) <= MaxLines
  /\ \A s \in {pipe, read_buffer, cache_buffer} : s \in Seq(Nat \X Nat)
  /\ Len(pipe) <= PipeCapacity
  /\ Len(read_buffer) < BufferSize
  /\ pc \in {"poll", "parse", "joined"}
  /\ queued \in Seq(Seq(Nat \X Nat))
  /\ drops \in Nat

\* No line written so far is too long for cache_buffer.
LinesFit == \A k \in DOMAIN lengths : lengths[k] < BufferSize

\* The lines queued that are not a line as it was written.
Damaged ==
  {i \in DOMAIN queued : ~ \E k \in DOMAIN lengths : queued[i] = Body(k)}

\* Lines written whole that fit the buffer come out complete and in order,
\* however read() cuts the stream, until the callback gives up
\* (queral.c:571-614).
Lossless ==
  drops = 0 /\ LinesFit => IsPrefix(queued, [k \in DOMAIN lengths |-> Body(k)])

\* After the callback gave up half way, or read a line that does not fit, it
\* may start in the middle of a line, but what it queues is at worst the end
\* of one line: pieces of two lines are never put together (queral.c:577-579,
\* 593-596, 610-613).
NoMixedLines ==
  \A q \in Range(queued) : \E k \in DOMAIN lengths : IsSuffix(q, Body(k))

\* With lines that fit, giving up costs at most one damaged line; the rest of
\* the loss is lines that are missing.
DamageBounded == LinesFit => Cardinality(Damaged) <= drops

\* The pieces are queued in the order of the lines they end, and no line comes
\* twice or in two pieces, whatever was dropped in between (queral.c:602-614).
InOrder ==
  \A i, j \in DOMAIN queued :
    i < j /\ queued[i] # <<>> /\ queued[j] # <<>> =>
      Head(queued[i])[1] < Head(queued[j])[1]

\* "Concatenates avoiding buffer overflow" (queral.c:573), but for one byte: the
\* NUL after a line of at least BUFFER_SIZE - 1 characters is written past
\* cache_buffer, and nothing else ever is (queral.c:574-582).
OverrunByNulOnly ==
  Len(cache_buffer) + 1 > BufferSize =>
    /\ Len(cache_buffer) = BufferSize
    /\ \E k \in DOMAIN lengths : lengths[k] >= BufferSize - 1
=============================================================================
