--------------------------- MODULE MCDatasetBuild ---------------------------
(***************************************************************************)
(* Two plans of two chunks; the second chunk may repeat an event of the    *)
(* first, as it was or changed.                                            *)
(***************************************************************************)
EXTENDS DatasetBuild, TLC

CONSTANTS c1, c2

TwoRequests == <<c1, c2>>

First  == {{<<1, "x">>, <<2, "x">>}, {<<1, "x">>}}
Second == {{<<2, "x">>}, {<<2, "y">>}}
TwoAnswers == (c1 :> First) @@ (c2 :> Second)

Renamings == Permutations(Builders) \cup Permutations(Plans)
=============================================================================
