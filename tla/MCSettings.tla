----------------------------- MODULE MCSettings -----------------------------
(* Numbers below, at and above each limit the readers know, and lists of up *)
(* to three servers with incomplete ones in every place, and with names too *)
(* long for a line or for a message.  What main takes from each setting     *)
(* does not depend on the others, so the prefix and the expiration vary on  *)
(* their own.                                                               *)
EXTENDS Settings

MCServers == {"a", "b", "long"}
MCLongServers == {"long"}
MCLists == UNION {[1 .. n -> {"a", "b", Incomplete}] : n \in 0 .. 3} \union
           {<<"long">>, <<Overlong>>, <<"a", "long">>, <<Incomplete, "long">>,
            <<"long", "b">>, <<"a", Incomplete, Overlong>>, <<Overlong, "long">>}

Config(t, c, s, p, e) ==
  [threads |-> t, contention |-> c, servers |-> s, prefix |-> p, expiration |-> e]

MCConfigs ==
  {Config(t, c, <<"a">>, Absent, Absent) :
     t \in {Absent, -1, 0, 1, MaxWorkers, MaxWorkers + 1},
     c \in {Absent, -9, -1, 0, MaxContention - 1, MaxContention + 2}} \union
  {Config(Absent, Absent, s, Absent, Absent) : s \in MCLists \union {Absent}} \union
  {Config(1, 1, <<"a", "b">>, p, e) :
     p \in {0, MaxPrefix - 1, MaxPrefix}, e \in {-1, 0, 1}}
=============================================================================
