---------------------------- MODULE Substitution ----------------------------
(***************************************************************************)
(* How the page templates of a cache become URLs: read_variable_list and   *)
(* read_url_list copy variables and templates into buffers of fixed size,  *)
(* then substitute_variables (config_utils.c) calls replace_string         *)
(* (string_utils.c) for one variable after the other until it finds the    *)
(* variable's name no more.  All this runs while the daemon starts, before *)
(* it forks.                                                               *)
(*                                                                         *)
(* Strings are short sequences over a small alphabet, since the question   *)
(* is what names, values and templates do to one another.  A value is its  *)
(* first word and the length of what else is in it: read_variable_list     *)
(* joins name and value with a blank and strtok takes them apart again, so *)
(* that only the first word arrives.                                       *)
(*                                                                         *)
(* Left out: the memmove of config_utils.c:253 moves a whole buffer's      *)
(* length from the middle of `variable' and so reads past its end.  What   *)
(* it reads there lies behind the NUL of the word and is never looked at.  *)
(***************************************************************************)
EXTENDS Naturals, Sequences, FiniteSets, SequencesExt

CONSTANTS Chars,        \* characters
          Dollar,       \* the character before a variable's name in a template
          Templates,    \* the strings of cache.pages
          Variables,    \* the variables of a configuration: the name, the
                        \* first word of the value, <<>> if it has none, and
                        \* the number of its other characters
          Size,         \* MAX_LINE_LENGTH, the size of the buffers
          MaxVariables  \* bound on the variables of a cache

ASSUME SubstitutionAssumption ==
  /\ Size \in Nat \ {0}
  /\ MaxVariables \in Nat
  /\ Dollar \in Chars
  /\ Templates \subseteq Seq(Chars)
  /\ Variables \subseteq [name : Seq(Chars), value : Seq(Chars), others : Nat]

VARIABLES
  template,   \* the string as configured
  variables,  \* the variables as configured
  str,        \* the string worked on
  i,          \* the variable worked on
  pc          \* "copy", "replace" or "done"; "overcopied" or "overrun" when the
              \* copying or replace_string has written past the end of a buffer

vars == <<template, variables, str, i, pc>>

VariableLists == UNION {[1 .. n -> Variables] : n \in 0 .. MaxVariables}

Init ==
  /\ template \in Templates
  /\ variables \in VariableLists
  /\ str = <<>>
  /\ i = 1
  /\ pc = "copy"

-----------------------------------------------------------------------------
(* Mutants.                                                                *)

\* Every result but 0 taken for a replacement.
RetriedForEver == i

\* Only the first occurrence of a name replaced.
OnlyFirst == i + 1

\* The terminating NUL forgotten.
OverrunsByTwo(s) == Len(s) > Size

-----------------------------------------------------------------------------
\* `name' after the first strtok.
Name(v) == <<Dollar>> \o v.name

\* `variable' after the second: without a value it still holds the name.
Replacement(v) == IF v.value = <<>> THEN Name(v) ELSE v.value

\* The length of name and value as read_variable_list joins them.
Joined(v) == Len(Name(v)) + 1 + Len(v.value) + v.others

\* strstr takes the first of these.
Occurrences(n, s) == {p \in 1 .. Len(s) : IsPrefix(n, SubSeq(s, p, Len(s)))}
Found(p, n, s) ==
  p \in Occurrences(n, s) /\ \A x \in Occurrences(n, s) : p <= x

\* The test before the sprintf, which leaves what is before the name out.
Accepted(new, rest) == Len(new) + Len(rest) < Size

\* A string and the NUL behind it need more than the buffer has.
Overruns(s) == Len(s) >= Size

\* The variable substitute_variables goes on with when replace_string has
\* replaced a name, and when it has refused.
AfterReplacement == i
AfterRefusal == i + 1

\* No length is tested before the sprintf of a variable and the strcpy of the
\* template.
Fits == ~Overruns(template) /\ \A k \in DOMAIN variables : Joined(variables[k]) < Size

Copy ==
  /\ pc = "copy"
  /\ \/ Fits /\ str' = template /\ pc' = "replace"
     \/ ~Fits /\ pc' = "overcopied" /\ UNCHANGED str
  /\ UNCHANGED <<template, variables, i>>

Busy == pc = "replace" /\ i <= Len(variables)

Replace ==
  /\ Busy
  /\ LET n == Name(variables[i])
         new == Replacement(variables[i])
     IN  \E p \in DOMAIN str :
           /\ Found(p, n, str)
           /\ LET rest == SubSeq(str, p + Len(n), Len(str))
                  result == SubSeq(str, 1, p - 1) \o new \o rest
              IN  \/ /\ Accepted(new, rest)
                     /\ str' = result
                     /\ pc' = IF Overruns(result) THEN "overrun" ELSE pc
                     /\ i' = AfterReplacement
                  \/ /\ ~Accepted(new, rest)
                     /\ i' = AfterRefusal
                     /\ UNCHANGED <<str, pc>>
  /\ UNCHANGED <<template, variables>>

\* The name does not occur, or no more.
NextVariable ==
  /\ Busy
  /\ Occurrences(Name(variables[i]), str) = {}
  /\ i' = i + 1
  /\ UNCHANGED <<template, variables, str, pc>>

Finish ==
  /\ pc = "replace"
  /\ i > Len(variables)
  /\ pc' = "done"
  /\ UNCHANGED <<template, variables, str, i>>

Next == Copy \/ Replace \/ NextVariable \/ Finish

Spec == Init /\ [][Next]_vars

\* One thread computes and nothing blocks it.
FairSpec == Spec /\ WF_vars(Next)

-----------------------------------------------------------------------------
(* What a substitution is meant to be: read the template once from left to *)
(* right and put the value in place of each name, whatever the order of    *)
(* the variables.                                                          *)
NameAt(v, s, p) == p \in Occurrences(Name(v), s)

\* s with text[k] in place of the name of the k-th of the variables vs.
Expansion(vs, s, text) ==
  LET from[p \in 1 .. Len(s) + 1] ==
        IF p > Len(s) THEN <<>>
        ELSE IF \E k \in DOMAIN vs : NameAt(vs[k], s, p)
        THEN LET k == CHOOSE k \in DOMAIN vs : NameAt(vs[k], s, p)
             IN  text[k] \o from[p + Len(Name(vs[k]))]
        ELSE <<s[p]>> \o from[p + 1]
  IN  from[1]

ValueOf == [k \in DOMAIN variables |-> variables[k].value]
Expanded == Expansion(variables, template, ValueOf)

\* Configurations for which the order cannot matter: no name is the beginning
\* of another or has a dollar in it, every value has a word and no dollar,
\* every dollar of the template begins a name.
WellFormed ==
  /\ \A k, m \in DOMAIN variables :
       k # m => ~IsPrefix(variables[k].name, variables[m].name)
  /\ \A k \in DOMAIN variables :
       /\ Dollar \notin Range(variables[k].name)
       /\ variables[k].value # <<>> /\ Dollar \notin Range(variables[k].value)
  /\ \A p \in DOMAIN template :
       template[p] = Dollar =>
         \E k \in DOMAIN variables : NameAt(variables[k], template, p)

\* The string is never too long on the way: there is room for the longer of
\* name and value wherever a name stands, and for each variable as joined.
Longer ==
  [k \in DOMAIN variables |->
     IF Len(variables[k].value) > Len(Name(variables[k]))
     THEN variables[k].value ELSE Name(variables[k])]
RoomToGrow ==
  /\ Len(Expansion(variables, template, Longer)) < Size
  /\ \A k \in DOMAIN variables : Joined(variables[k]) < Size

\* What is put in place of a name brings the name back.
BringsItselfBack(v) == Occurrences(Name(v), Replacement(v)) # {}

-----------------------------------------------------------------------------
(* Properties.                                                             *)

\* Ranges, for templates and variables of any length; the string fits its buffer
\* with its NUL for as long as nothing has been written past the end of one: the
\* two copies that test no length (config_utils.c:228, 288) and replace_string,
\* whose test is short (string_utils.c:63), are where that happens.
TypeOK ==
  /\ template \in Templates
  /\ variables \in VariableLists
  /\ str \in Seq(Chars)
  /\ i \in 1 .. Len(variables) + 1
  /\ pc \in {"copy", "replace", "done", "overcopied", "overrun"}
  /\ pc \notin {"overcopied", "overrun"} => Len(str) < Size

\* With a well formed configuration that has room, replacing the variables one
\* by one, each until it is found no more, is the same as reading the template
\* once and overruns no buffer: no value is taken for part of a name, whatever
\* stands around it, and the order of the variables makes no difference
\* (config_utils.c:244-260, 288-289, string_utils.c:52-70).
ExpandsTemplate ==
  WellFormed /\ RoomToGrow =>
    /\ pc \notin {"overcopied", "overrun"}
    /\ pc = "done" => str = Expanded

\* The loop ends for every template and every list of variables, well formed or
\* not, none of whose replacements contains the name it replaces: characters
\* around a value may form the name again, but not for ever
\* (config_utils.c:257-259).
Terminates ==
  (\A k \in DOMAIN variables : ~BringsItselfBack(variables[k]))
    ~> pc \notin {"copy", "replace"}

\* "Replace avoiding buffer overflow" (string_utils.c:58).
AvoidsOverflow == pc # "overrun"
=============================================================================
