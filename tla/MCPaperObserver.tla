--------------------------- MODULE MCPaperObserver ---------------------------
(* Instances of PaperObserver for TLC.                                      *)
EXTENDS PaperObserver

(* A strategy that has lost something misses the purchase at event 2, or    *)
(* makes it one event late, which the totals do not show.                   *)
Deciding == <<"buy", "buy", "hold">>
Straying == {<<"buy", "hold", "hold">>, <<"buy", "hold", "buy">>}

(* Processes and batch names are interchangeable. *)
Renamings == Permutations(Clients) \cup Permutations(BatchIds)
=============================================================================
