--------------------------- MODULE MCActionTable ----------------------------
(* Refused files, two files for one name, one with an incomplete entry, one *)
(* with too many pages, one without variables, and one for each kind of     *)
(* text that does not fit; an overlong URL does no harm in a list that is   *)
(* not read.                                                                *)
EXTENDS ActionTable

MCPages == {"p", "q"}
MCNames == {"x", "y", "z", "long"}
File(name, variables, pages) == [name |-> name, variables |-> variables, pages |-> pages]
MCKinds ==
  {Refused, Misquoted,
   File("x", "listed", <<"p">>),
   File("x", "listed", <<Incomplete, "q">>),
   File("y", "listed", <<"p", Overlong, "q">>),
   File("y", "unlisted", <<"p", Overlong>>),
   File("y", "overlong", <<"p">>),
   File("x", "listed", <<"p", Overlong>>),
   File("long", "listed", <<"q">>)}
=============================================================================
