------------------------------ MODULE OnceOnly ------------------------------
(***************************************************************************)
(* What a scheduled job promises however many times, and however           *)
(* concurrently, its scheduler invokes it: its outputs are committed at    *)
(* most once, what was committed is never withdrawn, and a receipt says    *)
(* "complete" only after the commit.                                       *)
(***************************************************************************)
VARIABLES
  committed,   \* have the job's outputs been published?
  receipt      \* "none", "complete" or "frozen"

vars == <<committed, receipt>>

Init == committed = FALSE /\ receipt = "none"

Commit ==
  /\ ~committed
  /\ committed' = TRUE
  /\ UNCHANGED receipt

Complete ==
  /\ committed
  /\ receipt' = "complete"
  /\ UNCHANGED committed

Freeze ==
  /\ receipt' = "frozen"
  /\ UNCHANGED committed

Next == Commit \/ Complete \/ Freeze

Spec == Init /\ [][Next]_vars
=============================================================================
