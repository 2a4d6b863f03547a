---------------------------- MODULE MCDispatcher ----------------------------
(* Dispatcher with three kinds of line: one that fetches or caches a page,  *)
(* one that stands for two such lines and one that is not understood.      *)
EXTENDS Dispatcher

MCJobs == {"cache", "update", "garbled"}

MCRefreshList ==
  [j \in MCJobs |-> IF j = "update" THEN <<"cache", "cache">> ELSE <<>>]
=============================================================================
