--------------------------- MODULE MCSubstitution ---------------------------
(* Every template of up to four of three characters and some longer ones,  *)
(* the longest of which fit their buffer just and just not; names one of   *)
(* which is the beginning of another; values that are empty, hold a dollar *)
(* or spell a name; two values of several words, the longer of which does  *)
(* not fit.                                                                *)
EXTENDS Substitution

MCChars == {"$", "a", "b"}

LongTemplates ==
  {<<"$", "a", "$", "b", "$", "a">>, <<"b", "b", "b", "$", "a">>,
   <<"b", "b", "b", "b", "$", "a">>, <<"$", "a", "b", "b", "b", "b">>,
   <<"$", "$", "a", "b", "a", "b">>, <<"$", "a", "$", "a", "b", "$", "b">>}
MCTemplates == SeqOf(MCChars, 4) \cup LongTemplates

MCNames == {<<"a">>, <<"b">>, <<"a", "b">>, <<"a", "$", "b">>}
MCValues ==
  {<<>>, <<"a">>, <<"$">>, <<"b", "$">>, <<"$", "a">>, <<"a", "$", "b">>,
   <<"b", "b", "b">>}
MCVariables ==
  [name : MCNames, value : MCValues, others : {0}]
    \cup [name : {<<"a">>}, value : {<<"a">>}, others : {2, 3}]

\* Variables that fit where they are joined.
MCShort == [name : {<<"a">>, <<"b">>}, value : {<<"a">>, <<"b", "b", "b">>}, others : {0}]
\* Templates that fit where they are copied.
MCShortTemplates == {t \in MCTemplates : Len(t) < 7}
=============================================================================
