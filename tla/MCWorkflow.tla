----------------------------- MODULE MCWorkflow -----------------------------
(***************************************************************************)
(* Instances of Workflow. Two packages in one lineage: a research run and  *)
(* the successor that repairs it and carries all later evidence.           *)
(***************************************************************************)
EXTENDS Workflow, TLC

CONSTANTS p1, p2, owner, critic

Pair        == {p1, p2}
PairParent  == (p1 :> NoPackage) @@ (p2 :> p1)
PairContents == (p1 :> {"findings", "audit_report.paper_gate"} \cup PaperEvidence) @@ (p2 :> Stems)
PairBlocking == {<<p1, "findings">>, <<p1, "audit_report.paper_gate">>}

Verdicts(research, paper, risk) ==
  [g \in Gates |-> CASE g = "research_gate" -> research
                     [] g = "paper_gate"    -> paper
                     [] g = "risk_review"   -> risk]

(* The first package fails research, and its successor meets a risk veto.   *)
Repaired == (p1 :> Verdicts("revise", "blocked", "blocked")) @@ (p2 :> Verdicts("pass", "pass", "blocked"))
(* The first package fails at paper, and its successor passes everything.   *)
Promoted == (p1 :> Verdicts("pass", "blocked", "blocked")) @@ (p2 :> Verdicts("pass", "pass", "pass"))
(* The successor fails the research gate its predecessor passed.            *)
Regressed == (p1 :> Verdicts("pass", "pass", "blocked")) @@ (p2 :> Verdicts("kill", "pass", "pass"))

(* The first package meets a risk veto, and its successor passes everything.*)
Vetoed == (p1 :> Verdicts("pass", "pass", "blocked")) @@ (p2 :> Verdicts("pass", "pass", "pass"))

PairJudgements == {Repaired, Promoted, Regressed, Vetoed}

(* Gates after the target are never consulted, so only the gates up to it   *)
(* are decided; that the ledger can fail verification under a workflow is   *)
(* explored by the run that aims at research_gate.                          *)
GatesUpTo == [g \in Gates |-> CASE g = "research_gate" -> {"research_gate"}
                                [] g = "paper_gate"    -> {"research_gate", "paper_gate"}
                                [] g = "risk_review"   -> Gates]
InScope ==
  /\ \A p \in Packages, g \in Gates :
       decided[p][g] # NoDecision => g \in GatesUpTo[wf.target_gate]
  /\ wf.target_gate # "research_gate" => trusted
ScopedNext == Next /\ InScope'

(* A run aims at the research gate with its whole budget, or beyond it      *)
(* after two commands that stayed at preflight, with what is left.          *)
Aims == {<<Repaired, "research_gate">>, <<Regressed, "research_gate">>,
         <<Promoted, "paper_gate">>, <<Regressed, "paper_gate">>, <<Vetoed, "risk_review">>}

MCInit ==
  /\ RegistryInit
  /\ \E aim \in Aims :
       /\ judgement = aim[1]
       /\ wf = [NewWorkflowState(aim[2]) EXCEPT
                  !.transitions_used = IF aim[2] = "research_gate" THEN 0 ELSE 2]

MCSpec == MCInit /\ [][ScopedNext]_vars
=============================================================================
