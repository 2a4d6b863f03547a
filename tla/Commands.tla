------------------------------ MODULE Commands ------------------------------
(***************************************************************************)
(* What a worker makes of a line: get_command takes it apart in place, the *)
(* switch of worker_thread acts on it, and an UPDATE sends its pages back  *)
(* through the pipe as CACHE lines.  The question is what the buffers hold *)
(* and whether they are long enough.                                       *)
(*                                                                         *)
(* `job' and `command' are arrays of the worker's stack that are never     *)
(* initialised; the parser moves bytes within them, so they are functions  *)
(* on 0 .. BufferSize - 1.  new_command is only ever built from its start  *)
(* and is a sequence.  A write past the end of a buffer leads to pc =      *)
(* "undefined", where the model stops.  Messages have lengths only.        *)
(***************************************************************************)
EXTENDS Integers, Sequences, FiniteSets, SequencesExt

CONSTANTS Chars,        \* characters; a string has no NUL
          Lines,        \* the lines clients write
          Caches,       \* Caches[n]: the refresh list of the cache named n
          Words,        \* FETCH_COMMAND, CACHE_COMMAND, UPDATE_COMMAND
          Junk,         \* contents of a buffer nobody has written yet
          BufferSize,   \* BUFFER_SIZE
          MaxKey,       \* MEMCACHED_MAX_KEY; the array `key' has one byte less
          PrefixLength, \* strlen (key_prefix)
          LogSize,      \* QUERAL_LOG_BUFFER_SIZE
          Text,         \* lengths of the messages without what they quote
          MaxLines      \* bound on the lines clients write

Operations == {"FETCH", "CACHE", "UPDATE"}

Space == " "
Tab == "tab"
Spaces == {Space, Tab}
Nul == "NUL"
Outside == "outside"  \* a byte read past the end of a buffer
Nobody == <<"nobody">>

ASSUME CommandsAssumption ==
  /\ Spaces \subseteq Chars /\ Nul \notin Chars
  /\ BufferSize \in Nat \ {0}
  /\ Lines \subseteq Seq(Chars)
  /\ \A l \in Lines : Len(l) < BufferSize
  /\ \A n \in DOMAIN Caches : Caches[n] \in Seq(Seq(Chars))
  /\ Junk # {} /\ \A m \in Junk : DOMAIN m = 0 .. BufferSize - 1
  /\ {MaxKey, PrefixLength, LogSize, MaxLines} \subseteq Nat
  /\ {Text.refused, Text.undefined, Text.unknown} \subseteq Nat
  /\ \A T \in {Text.url, Text.key} : T \subseteq Nat /\ T # {}

\* Three words, none of them empty or with a blank in it, that leave room in a
\* buffer for a blank and an argument.
ASSUME WordsAssumption ==
  /\ Words \in [Operations -> Seq(Chars \ Spaces) \ {<<>>}]
  /\ \A o, p \in Operations : Words[o] = Words[p] => o = p
  /\ Len(Words.CACHE) + 1 < BufferSize

\* The message on a key that is refused is too long for its own buffer: 51
\* characters, 251 of the key and a buffer of 256 leave room for a prefix of
\* 46 and there are 13 (memcached_client.c:129, config_utils.h:44).
ASSUME RefusalAssumption ==
  MaxKey - PrefixLength + Text.refused >= LogSize

VARIABLES
  job,         \* the line, then what follows its first word
  command,     \* the first word
  new_command, \* the line an UPDATE is about to write
  page,        \* the next page of the refresh list
  pipe,        \* pages on their way back, with the lines they became
  op,          \* what get_command returned
  pc,          \* "wait", "parse", "switch", "refresh", "undefined"
  taken,       \* the lines taken from clients
  line,        \* history: the line as it was taken
  origin,      \* history: the page it stands for, or Nobody
  said,        \* history: the operation the last message called undefined
  lastWord     \* history: the first word of the last line that had a blank

history == <<line, origin, said, lastWord>>
vars == <<job, command, new_command, page, pipe, op, pc, taken, history>>

-----------------------------------------------------------------------------
(* Strings in memory.                                                      *)
Byte(m, i) == IF i \in DOMAIN m THEN m[i] ELSE Outside

Nuls(m) == {i \in DOMAIN m : m[i] = Nul}
StrLen(m) == Min(Nuls(m))
Str(m) == [i \in 1 .. StrLen(m) |-> m[i - 1]]

\* memmove (m, m + from, n).
MemMove(m, from, n) ==
  [i \in DOMAIN m |-> IF i < n THEN Byte(m, from + i) ELSE m[i]]

\* skip_spaces, and the NUL strim puts after the last character that is no space.
Start(m) == Min({i \in 0 .. StrLen(m) : m[i] \notin Spaces})
Ink(m) == {i \in 0 .. StrLen(m) - 1 : m[i] \notin Spaces}
Cut(m) == IF Ink(m) = {} THEN m ELSE [m EXCEPT ![Max(Ink(m)) + 1] = Nul]

\* memmove (job, strim (job), job_length), with the length from before strim.
Trim(m) == MemMove(Cut(m), Start(m), StrLen(m))

-----------------------------------------------------------------------------
(* Mutants.                                                                *)

\* job[job_length] = '\0' forgotten.
ArgumentWithoutNul(m, b) == MemMove(m, b, StrLen(m) - b)

\* command_length one too short.
WordCutShort(m, b) == SubSeq(Str(m), 1, b - 1)

\* new_command not cut back to "CACHE " for the next page.
AfterLastPage(p) == new_command \o p

\* The newline forgotten in the length test.
PageAcceptedAtMax(n) == Len(Words.CACHE) + 1 + n <= BufferSize

\* memcpy of strlen bytes, the NUL left out.
CopiedWithoutNul(m, s) ==
  [i \in DOMAIN m |-> IF i < Len(s) THEN s[i + 1] ELSE m[i]]

-----------------------------------------------------------------------------
\* strcpy (m, s).
Copied(m, s) ==
  [i \in DOMAIN m |-> IF i < Len(s) THEN s[i + 1]
                      ELSE IF i = Len(s) THEN Nul ELSE m[i]]

Init ==
  /\ job \in Junk
  /\ command \in Junk
  /\ new_command = <<>>
  /\ page = 1
  /\ pipe = <<>>
  /\ op = "UNDEFINED"
  /\ pc = "wait"
  /\ taken = 0
  /\ line = <<>>
  /\ origin = Nobody
  /\ said = Nobody
  /\ lastWord = Nobody

\* fifo_dequeue copies a client's line, or one an UPDATE wrote, into job.
TakeLine ==
  /\ pc = "wait"
  /\ \/ /\ taken < MaxLines
        /\ taken' = taken + 1
        /\ line' \in Lines
        /\ origin' = Nobody
        /\ UNCHANGED pipe
     \/ /\ pipe # <<>>
        /\ line' = Head(pipe).line
        /\ origin' = Head(pipe).page
        /\ pipe' = Tail(pipe)
        /\ UNCHANGED taken
  /\ job' = Copied(job, line')
  /\ pc' = "parse"
  /\ UNCHANGED <<command, new_command, page, op, said, lastWord>>

-----------------------------------------------------------------------------
(* What the bytes of a line mean, told from the line alone.                *)
Trimmed(s) ==
  LET ink == {i \in DOMAIN s : s[i] \notin Spaces}
  IN  IF ink = {} THEN <<>> ELSE SubSeq(s, Min(ink), Max(ink))

Blanks(s) == {i \in DOMAIN s : s[i] = Space}
HasWord(s) == Blanks(Trimmed(s)) # {}
FirstWord(s) == SubSeq(Trimmed(s), 1, Min(Blanks(Trimmed(s))) - 1)
AfterWord(s) ==
  LET t == Trimmed(s) IN Trimmed(SubSeq(t, Min(Blanks(t)), Len(t)))

Asks(s, o) == HasWord(s) /\ FirstWord(s) = Words[o]
Meaning(s) ==
  IF \E o \in Operations : Asks(s, o)
  THEN <<CHOOSE o \in Operations : Asks(s, o), AfterWord(s)>>
  ELSE <<"UNDEFINED", Trimmed(s)>>

-----------------------------------------------------------------------------
(* get_command.                                                            *)

\* What strncpy and the NUL after it leave in command.
Word(m, b) == SubSeq(Str(m), 1, b)

\* job from the blank on moved to its start, before it is trimmed again.
Argument(m, b) == [MemMove(m, b, StrLen(m) - b) EXCEPT ![StrLen(m) - b] = Nul]

ParseLine ==
  LET m == Trim(job)
      blanks == {i \in 0 .. StrLen(m) - 1 : m[i] = Space}
      b == Min(blanks)
  IN  /\ pc = "parse"
      /\ pc' = "switch"
      /\ \/ /\ blanks = {}
            /\ op' = "UNDEFINED"
            /\ job' = m
            /\ UNCHANGED command
         \/ /\ blanks # {}
            /\ command' = Copied(command, Word(m, b))
            /\ \/ \E o \in Operations :
                    /\ Str(command') = Words[o]
                    /\ op' = o
                    /\ job' = Trim(Argument(m, b))
               \/ /\ \A o \in Operations : Str(command') # Words[o]
                  /\ op' = "UNDEFINED"
                  /\ job' = m
      /\ lastWord' = IF HasWord(line) THEN FirstWord(line) ELSE lastWord
      /\ UNCHANGED <<new_command, page, pipe, taken, line, origin, said>>

-----------------------------------------------------------------------------
(* The switch.                                                             *)

\* vsprintf of a message of n characters; the line is done with.
Say(n) == pc' = IF n < LogSize THEN "wait" ELSE "undefined"

Fetch ==
  /\ pc = "switch" /\ op = "FETCH"
  /\ \E u \in Text.url : Say(u + StrLen(job))
  /\ UNCHANGED <<job, command, new_command, page, pipe, op, taken, history>>

\* The test in create_key; strcpy and strcat then need n + 1 bytes of `key'.
KeyAccepted(n) == n < MaxKey

Cache ==
  LET n == PrefixLength + StrLen(job) IN
  /\ pc = "switch" /\ op = "CACHE"
  /\ \/ ~KeyAccepted(n) /\ Say(Text.refused + StrLen(job))
     \/ KeyAccepted(n) /\ n + 1 > MaxKey - 1 /\ pc' = "undefined"
     \/ /\ KeyAccepted(n) /\ n + 1 <= MaxKey - 1
        /\ \E k \in Text.key, u \in Text.url :
             Say(Max({k + n, u + StrLen(job)}))
  /\ UNCHANGED <<job, command, new_command, page, pipe, op, taken, history>>

\* find_action, and new_command up to length1.
StartUpdate ==
  /\ pc = "switch" /\ op = "UPDATE"
  /\ \/ /\ Str(job) \in DOMAIN Caches
        /\ new_command' = Append(Words.CACHE, Space)
        /\ page' = 1
        /\ pc' = "refresh"
     \/ /\ Str(job) \notin DOMAIN Caches
        /\ Say(Text.unknown + StrLen(job))
        /\ UNCHANGED <<new_command, page>>
  /\ UNCHANGED <<job, command, pipe, op, taken, history>>

Pages == Caches[Str(job)]
Length1 == Len(Words.CACHE) + 1

\* The test before a page is appended.
PageAccepted(n) == Length1 + n + 1 <= BufferSize

\* new_command cut back to length1, then the page.
WithPage(p) == SubSeq(new_command, 1, Length1) \o p

\* One turn of the loop; write_fifo may fail.
RefreshPage ==
  LET p == Pages[page]
      text == WithPage(p)
  IN  /\ pc = "refresh" /\ page <= Len(Pages)
      /\ page' = page + 1
      /\ \/ ~PageAccepted(Len(p)) /\ UNCHANGED <<new_command, pipe, pc>>
         \/ /\ PageAccepted(Len(p))
            /\ new_command' = Append(text, "newline")
            /\ \/ /\ Len(new_command') < BufferSize
                  /\ UNCHANGED pc
                  /\ \/ pipe' = Append(pipe, [line |-> text, page |-> p])
                     \/ UNCHANGED pipe
               \/ /\ Len(new_command') >= BufferSize
                  /\ pc' = "undefined"
                  /\ UNCHANGED pipe
      /\ UNCHANGED <<job, command, op, taken, history>>

EndUpdate ==
  /\ pc = "refresh" /\ page > Len(Pages)
  /\ pc' = "wait"
  /\ UNCHANGED <<job, command, new_command, page, pipe, op, taken, history>>

\* The message quotes `command', whatever it holds.
Undefined ==
  /\ pc = "switch" /\ op = "UNDEFINED"
  /\ \/ Nuls(command) = {} /\ pc' = "undefined" /\ UNCHANGED said
     \/ /\ Nuls(command) # {}
        /\ said' = Str(command)
        /\ Say(Text.undefined + StrLen(command))
  /\ UNCHANGED <<job, command, new_command, page, pipe, op, taken, line, origin, lastWord>>

Next ==
  \/ TakeLine \/ ParseLine \/ Fetch \/ Cache
  \/ StartUpdate \/ RefreshPage \/ EndUpdate \/ Undefined

Spec == Init /\ [][Next]_vars

-----------------------------------------------------------------------------
(* Properties.                                                             *)
Buffer(m) == DOMAIN m = 0 .. BufferSize - 1

\* Ranges; job always holds a string once a line has been taken.
TypeOK ==
  /\ Buffer(job) /\ Buffer(command)
  /\ pc \in {"parse", "switch", "refresh"} => Nuls(job) # {}
  /\ pc # "undefined" => Len(new_command) < BufferSize
  /\ pc = "refresh" => page \in 1 .. Len(Pages) + 1
  /\ \A k \in DOMAIN pipe : Len(pipe[k].line) < BufferSize
  /\ op \in Operations \union {"UNDEFINED"}
  /\ pc \in {"wait", "parse", "switch", "refresh", "undefined"}
  /\ taken \in 0 .. MaxLines

\* Whatever is left in the buffers by earlier lines, and with a memmove that
\* may read past the end of job, the parser finds the operation and the
\* argument that the line's own characters say (queral.c:357-400,
\* string_utils.c:28-50).
Understood == pc = "switch" => <<op, Str(job)>> = Meaning(line)

\* A page of the refresh list comes back as the CACHE line of that page, with
\* nothing of the page before it, unless it is blank (queral.c:494-505).
RefreshReachesCache ==
  pc = "switch" /\ origin # Nobody /\ Trimmed(origin) # <<>> =>
    op = "CACHE" /\ Str(job) = Trimmed(origin)

\* The message on an undefined operation names the first word of the line if a
\* blank follows it; otherwise the word of an earlier line, or what was in the
\* memory (queral.c:360-366, 516).
NamesLastWord ==
  pc = "wait" /\ op = "UNDEFINED" /\ taken > 0 /\ lastWord # Nobody =>
    said = lastWord

\* Lines that are treated without a write past any buffer: what they quote or
\* copy leaves room for the longest message and for every NUL.
Quotable(T, n) == \A t \in T : t + n < LogSize

Harmless(o, s) ==
  CASE o = "FETCH" -> Quotable(Text.url, Len(s))
    [] o = "CACHE" -> /\ Quotable(Text.url, Len(s))
                      /\ Quotable(Text.key, PrefixLength + Len(s))
                      /\ PrefixLength + Len(s) < MaxKey - 1
    [] o = "UPDATE" -> IF s \in DOMAIN Caches
                       THEN \A p \in Range(Caches[s]) :
                              Len(p) # BufferSize - Length1 - 1
                       ELSE Quotable({Text.unknown}, Len(s))
    [] OTHER -> lastWord # Nobody /\ Quotable({Text.undefined}, Len(lastWord))

\* Lines that cannot be: the key is as long as its array, or longer, although
\* create_key refuses the latter.
Fatal(o, s) ==
  CASE o = "CACHE" -> PrefixLength + Len(s) >= MaxKey - 1
    [] o = "UPDATE" -> /\ s \in DOMAIN Caches
                       /\ \E p \in Range(Caches[s]) :
                            Len(p) = BufferSize - Length1 - 1
    [] OTHER -> FALSE

\* Writes past the end of key, new_command and the log buffer happen at the
\* lengths above and at no others.  The tests of create_key and of UPDATE do
\* not prevent them: a key or a page of exactly the length tested passes, and
\* the message on a key that is refused is too long itself (queral.c:501-505,
\* 516, memcached_client.c:123-129, logger.c:51-93).
OverrunsAtKnownLengths ==
  LET o == Meaning(line)[1]
      s == Meaning(line)[2]
  IN  taken > 0 =>
        /\ pc = "undefined" => ~Harmless(o, s)
        /\ pc = "wait" => ~Fatal(o, s)
=============================================================================
