---------------------------- MODULE MCPageCache -----------------------------
(* A page that is empty after its change, one whose text is the part before *)
(* a NUL and then nothing, one that is too large for the download buffer    *)
(* at first, and one whose key is too long.                                 *)
EXTENDS PageCache, TLC

MCUrls == {"emptied", "binary", "shrunk", "longkey"}
Versions(old, new) == [v \in 0 .. MaxVersion |-> IF v = 0 THEN old ELSE new]
MCChunksOf ==
  [u \in MCUrls |-> CASE u = "emptied" -> Versions(2, 0)
                      [] u = "shrunk"  -> Versions(3, 2)
                      [] OTHER         -> Versions(2, 2)]
MCTextOf ==
  [u \in MCUrls |-> IF u = "binary" THEN Versions(1, 0) ELSE MCChunksOf[u]]
WorkerSymmetry == Permutations(Workers)
MCKeyFits == [u \in MCUrls |-> u # "longkey"]
=============================================================================
