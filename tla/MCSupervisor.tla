---------------------------- MODULE MCSupervisor ----------------------------
(***************************************************************************)
(* Instances of Supervisor: one recorded package that passes or fails the  *)
(* research gate the run aims at, a supervisor and at most one caller of   *)
(* `workflow advance`.                                                     *)
(***************************************************************************)
EXTENDS Supervisor, TLC

CONSTANTS p1, critic

OneParent == (p1 :> NoPackage)
AllStems  == (p1 :> Stems)
Findings  == {<<p1, "findings">>}
Verdicts  == {(p1 :> [g \in Gates |-> v]) : v \in {"pass", "blocked"}}

(* The run was recorded, and the first `workflow advance` entered review.   *)
Reviewing == [stage |-> "review_research", status |-> "in_progress", reviewer |-> critic,
              package |-> p1, evidence |-> {}, remediation |-> FALSE, moved_gate |-> FALSE,
              resume |-> FALSE]

MCInit ==
  /\ made = {p1} /\ runs = {p1}
  /\ decided = [p \in Packages |-> [g \in Gates |-> NoDecision]]
  /\ trusted = TRUE
  /\ judgement \in Judgements
  /\ wf = Advanced(NewWorkflowState("research_gate"), Reviewing)
  /\ holder = Nobody
  /\ sup = [s \in Supervisors |-> Idle]
  /\ pending = [c \in Callers |-> NoState]
  /\ attested = {}
  /\ report = "none"

(* Only the gate the run aims at is decided, and only its review signed.    *)
InScope ==
  /\ \A g \in Gates \ {"research_gate"} : decided[p1][g] = NoDecision
  /\ attested \subseteq {"review_research"}

MCNext == SupervisorNext /\ InScope'
MCSpec == MCInit /\ [][MCNext]_allVars
=============================================================================
