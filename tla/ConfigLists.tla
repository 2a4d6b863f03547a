---------------------------- MODULE ConfigLists -----------------------------
(***************************************************************************)
(* What the readers of memcached.servers and of cache.pages have in common *)
(* (read_memcached_servers and read_url_list, config_utils.c): both go     *)
(* through a list and keep the entries that have every field, in order.    *)
(***************************************************************************)
EXTENDS Naturals, Sequences, FiniteSets

\* The loop over the list: an entry is left out, or stored where the number of
\* complete entries so far says.
Kept(entries, incomplete) ==
  LET complete == {k \in DOMAIN entries : entries[k] # incomplete}
      idx(k) == Cardinality({j \in complete : j <= k})
  IN  [n \in 1 .. Cardinality(complete) |->
         entries[CHOOSE k \in complete : idx(k) = n]]
=============================================================================
