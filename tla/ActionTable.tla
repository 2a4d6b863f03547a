---------------------------- MODULE ActionTable -----------------------------
(***************************************************************************)
(* The table of caches: list_files (file_utils.c) lists the configuration  *)
(* files, create_actions and load_action (action.c) fill the table at the  *)
(* start, find_action looks caches up for UPDATE lines and destroy_actions *)
(* frees them at the end.                                                  *)
(*                                                                         *)
(* Both arrays end in a NULL their walks look for, and neither has a slot  *)
(* for it when it is full.  The slot past the end is the array's own when  *)
(* malloc has rounded the size up; otherwise it is somebody else's memory, *)
(* which changes under the table and is damaged by a write.                *)
(*                                                                         *)
(* Most texts of a file are copied or printed into buffers of a fixed size *)
(* that nobody compares them with.  What the texts are does not matter     *)
(* here, only whether they fit; how long a URL gets by the substitution of *)
(* variables, and whether that ends, is the subject of Substitution.       *)
(***************************************************************************)
EXTENDS Naturals, Sequences, SequencesExt, ConfigLists

CONSTANTS Kinds,     \* the configuration files there may be, see KindOK
          Pages,     \* URLs after substitution
          CacheNames,\* names of caches and arguments of UPDATE
          LongNames, \* names read_string accepts and the log buffer cannot hold
          MaxFiles,  \* MAX_NUM_FILES
          MaxUrls,   \* URL_MAX_COUNT
          Slack,     \* sizes for which malloc has a slot to spare
          Refused,   \* a file unreadable, of another version, without a name
          Misquoted, \* one refused with a message the log buffer cannot hold
          Incomplete,\* an entry of cache.pages without a url
          Overlong,  \* one whose url does not fit a line, as it is or substituted
          Null,      \* the NULL pointer
          Junk,      \* a pointer that was never stored where it is
          NoList     \* a refresh_list that is NULL

\* What load_action gets to see of a file it accepts.  Its variables are
\* "unlisted" when read_variable_list returns no list: none, an empty or a too
\* long one; "overlong" when one of them does not fit a line with its value, or
\* has a name with a blank too long for the message about it.
KindOK(f) ==
  f \notin {Refused, Misquoted} =>
    /\ f.name \in CacheNames
    /\ f.variables \in {"listed", "unlisted", "overlong"}
    /\ f.pages \in Seq(Pages \union {Incomplete, Overlong})

ASSUME TableAssumption ==
  /\ \A f \in Kinds : KindOK(f)
  /\ Refused # Misquoted
  /\ Incomplete \notin Pages
  /\ MaxFiles \in Nat \ {0}
  /\ MaxUrls \in Nat
  /\ Slack \subseteq Nat
  /\ Null \notin CacheNames
  /\ Null # Junk
  /\ NoList \notin Seq(Pages)

VARIABLES
  phase,   \* "list", "create", "load", "serve", "exited"; or "undefined": the
           \* program has left an array or followed a pointer nobody stored; or
           \* "overrun": a text has not fitted its buffer
  dir,     \* include_files
  table,   \* actions, with the slot past its end; <<>> for a NULL pointer
  index,   \* the file to load next
  asked,   \* the argument of the last UPDATE line
  written  \* the pages it wrote to the pipe

vars == <<phase, dir, table, index, asked, written>>

\* An action_t.
Action(name, count, list) == [name |-> name, count |-> count, list |-> list]

Init ==
  /\ phase = "list"
  /\ dir = <<>>
  /\ table = <<>>
  /\ index = 0
  /\ asked = Null
  /\ written = <<>>

-----------------------------------------------------------------------------
(* Mutants.                                                                *)

\* One file too many.
MostFilesOffByOne == MaxFiles + 1

\* The slot after a loaded cache left as it is.
SlotLeft(i) == table[i]

-----------------------------------------------------------------------------
MostFiles == MaxFiles

\* list_files in the order of readdir; without the directory there is no
\* table, which is only reported.  The path of a file may be longer than
\* filename, and it or the directory longer than a message about it may be.
ListFiles ==
  /\ phase = "list"
  /\ \/ phase' \in {"serve", "overrun"} /\ UNCHANGED dir
     \/ \E n \in 0 .. MostFiles : \E d \in [1 .. n -> Kinds] :
          dir' = d /\ phase' = "create"
  /\ UNCHANGED <<table, index, asked, written>>

\* create_actions: counts the files up to the NULL, past the end of a full
\* list, and clears the first slot of the new table.  No file at all ends the
\* program.
CreateTable ==
  /\ phase = "create"
  /\ \/ dir = <<>> /\ phase' = "exited" /\ UNCHANGED table
     \/ /\ dir # <<>>
        /\ phase' = "load"
        /\ \E slots \in [0 .. Len(dir) -> {Null, Junk}] :
             table' = [slots EXCEPT ![0] = Null]
     \/ Len(dir) >= MaxFiles /\ phase' = "undefined" /\ UNCHANGED table
  /\ UNCHANGED <<dir, index, asked, written>>

\* refresh_list and count after read_url_list.
Complete(pages) == Kept(pages, Incomplete)
RefreshList(pages) ==
  IF Len(pages) \in 1 .. MaxUrls THEN Complete(pages) ELSE NoList

Accepted(f) == f \notin {Refused, Misquoted}

Loaded(f) ==
  IF f.variables = "listed" THEN Action(f.name, Len(f.pages), RefreshList(f.pages))
                            ELSE Action(f.name, 0, NoList)

\* A pointer to an action is neither NULL nor the uninitialised one.
ASSUME PointerAssumption ==
  \A f \in Kinds : Accepted(f) => Loaded(f) \notin {Null, Junk}

\* The slot after the one load_action fills.
SlotAfter(i) == Null

\* The messages of load_config and check_version, the one that announces the
\* cache, the sprintf of a variable, the strcpy of a URL and its substitution.
\* Beyond these, substitute_variables reads past the end of its variable
\* whenever it moves a value to the front, by a memmove of the size of the
\* whole buffer; what that brings along stays behind the NUL of the value.
Overruns(f) ==
  \/ f = Misquoted
  \/ /\ Accepted(f)
     /\ \/ f.name \in LongNames
        \/ f.variables = "overlong"
        \/ /\ f.variables = "listed"
           /\ Len(f.pages) <= MaxUrls
           /\ Overlong \in Range(f.pages)

\* load_action; it never returns -1, so the next file follows in any case.
LoadAction ==
  LET f == dir[index + 1] IN
  /\ phase = "load"
  /\ index < Len(dir)
  /\ index' = index + 1
  /\ \/ f = Refused /\ UNCHANGED <<phase, table>>
     \/ Overruns(f) /\ phase' = "overrun" /\ UNCHANGED table
     \/ /\ Accepted(f) /\ ~Overruns(f)
        /\ table' = [table EXCEPT ![index] = Loaded(f),
                                  ![index + 1] = SlotAfter(index + 1)]
        /\ \/ UNCHANGED phase
           \/ /\ index + 1 = Len(dir)
              /\ Len(dir) \notin Slack
              /\ table[index + 1] = Junk
              /\ phase' = "undefined"
  /\ UNCHANGED <<dir, asked, written>>

EndLoading ==
  /\ phase = "load"
  /\ index = Len(dir)
  /\ phase' = "serve"
  /\ UNCHANGED <<dir, table, index, asked, written>>

\* The owner of the memory past the table uses it.
ReusePast ==
  /\ phase \in {"load", "serve"}
  /\ table # <<>>
  /\ Len(dir) \notin Slack
  /\ \E x \in {Null, Junk} : table' = [table EXCEPT ![Len(dir)] = x]
  /\ UNCHANGED <<phase, dir, index, asked, written>>

\* What the walk of find_action and destroy_actions ends at, and what it passes.
Holes == {k \in DOMAIN table : table[k] = Null}
Reached == {k \in DOMAIN table : \A h \in Holes : k < h}

\* find_action for name n, as far as the first match.
Matches(n) == {k \in Reached : table[k] # Junk /\ table[k].name = n}

\* Mutant: the loop not ended by a match.
LastMatch(k, n) == k \in Matches(n) /\ \A m \in Matches(n) : m <= k

\* strcmp with each name in turn, up to the first that is equal.
FirstMatch(k, n) == k \in Matches(n) /\ \A m \in Matches(n) : k <= m

\* An UPDATE line: find_action, then the loop over the list.
Update(n) ==
  /\ phase = "serve"
  /\ asked' = n
  /\ \/ \E k \in DOMAIN table :
          /\ FirstMatch(k, n)
          /\ \A m \in Reached : m < k => table[m] # Junk
          /\ LET a == table[k] IN
             \/ /\ a.count = 0 \/ a.list # NoList
                /\ written' = IF a.count = 0 THEN <<>> ELSE a.list
                /\ UNCHANGED phase
             \/ /\ a.count > 0 /\ a.list = NoList
                /\ phase' = "undefined"
                /\ UNCHANGED written
     \/ /\ Matches(n) = {}
        /\ \A m \in Reached : table[m] # Junk
        /\ written' = <<>>
        /\ UNCHANGED phase
     \/ /\ \E m \in Reached : table[m] = Junk /\ \A k \in Matches(n) : m < k
        /\ phase' = "undefined"
        /\ UNCHANGED written
  /\ UNCHANGED <<dir, table, index>>

\* destroy_actions at the end of main.
DestroyActions ==
  /\ phase = "serve"
  /\ phase' = IF \E m \in Reached : table[m] = Junk THEN "undefined" ELSE "exited"
  /\ UNCHANGED <<dir, table, index, asked, written>>

Next ==
  \/ ListFiles \/ CreateTable \/ LoadAction \/ EndLoading \/ ReusePast
  \/ (\E n \in CacheNames : Update(n))
  \/ DestroyActions

Spec == Init /\ [][Next]_vars

-----------------------------------------------------------------------------
(* Properties.                                                             *)
Slots ==
  {Null, Junk} \union
  [name : CacheNames, count : Nat, list : Seq(Pages) \union {NoList}]

\* Ranges; the list of files never exceeds its array.
TypeOK ==
  /\ phase \in {"list", "create", "load", "serve", "exited", "undefined",
               "overrun"}
  /\ dir \in Seq(Kinds)
  /\ Len(dir) <= MaxFiles
  /\ index \in 0 .. Len(dir)
  /\ table # <<>> => table \in [0 .. Len(dir) -> Slots]
  /\ asked \in CacheNames \union {Null}
  /\ written \in Seq(Pages)

\* The caches before the first file that was refused.
AllLoaded(k) == \A m \in 1 .. k : dir[m] # Refused

Overfull(f) == Accepted(f) /\ f.variables = "listed" /\ Len(f.pages) > MaxUrls

\* The program leaves an array of its own, or follows a pointer nobody stored,
\* in three ways only: with a full list of files, with a last file that is
\* loaded and no spare slot after it, and with a cache of more pages than it may
\* have.  In particular the walks never read a slot between its ends that was
\* not initialised: a refused file leaves a NULL that the walk finds first
\* (action.c:35, 84-85, 111, config_utils.c:270).  A text overruns its buffer
\* only when a path is too long or one of the texts of a file is: its version,
\* its name, a variable it lists or a URL of a list that is read
\* (file_utils.c:68, 78, logger.c:54-91, config_utils.c:228, 288-289).  Outside
\* of this stands the memmove of config_utils.c:253, see Overruns: it reads past
\* an array for every variable with a value.
OnlyKnownMisuse ==
  /\ phase = "undefined" =>
       \/ Len(dir) = MaxFiles
       \/ dir # <<>> /\ Accepted(Last(dir)) /\ Len(dir) \notin Slack
       \/ \E k \in DOMAIN dir : Overfull(dir[k])
  /\ phase = "overrun" =>
       dir = <<>> \/ \E k \in DOMAIN dir : Overruns(dir[k])

\* What an UPDATE line writes, told from the files alone: the complete pages of
\* the first file with that name, provided that no file listed before it was
\* refused and that it has a list of variables; otherwise nothing
\* (action.c:61-116, queral.c:492-512).
Visible(k, n) == AllLoaded(k) /\ dir[k].name = n
Expected(n) ==
  IF \E k \in DOMAIN dir : Visible(k, n)
  THEN LET k == CHOOSE k \in DOMAIN dir :
                  Visible(k, n) /\ \A m \in DOMAIN dir : Visible(m, n) => k <= m
       IN  IF dir[k].variables = "listed" THEN Complete(dir[k].pages) ELSE <<>>
  ELSE <<>>

UpdatesAsConfigured ==
  phase = "serve" /\ asked # Null => written = Expected(asked)
=============================================================================
