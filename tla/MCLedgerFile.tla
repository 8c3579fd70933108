---------------------------- MODULE MCLedgerFile ----------------------------
(***************************************************************************)
(* A run and its successor, two processes at the ledger, one registration  *)
(* key, and the two gates between which a decision can go stale. The run   *)
(* passes both gates; its successor fails the first and, were it not for   *)
(* that, would pass the second.                                            *)
(***************************************************************************)
EXTENDS LedgerFile, TLC

CONSTANTS p1, p2, c1, c2

Pair       == {p1, p2}
PairParent == (p1 :> NoPackage) @@ (p2 :> p1)
Symmetry   == Permutations({c1, c2})

Verdicts(research, paper) ==
  [g \in Gates |-> CASE g = "research_gate" -> research
                     [] g = "paper_gate"    -> paper
                     [] OTHER               -> "blocked"]

PairJudgements ==
  {(p1 :> Verdicts("pass", "pass")) @@ (p2 :> Verdicts("revise", "pass"))}
=============================================================================
