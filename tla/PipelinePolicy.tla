--------------------------- MODULE PipelinePolicy ---------------------------
(***************************************************************************)
(* The versioned pipeline policy (policies/skill-pipeline.v1.yaml) and the *)
(* stage tables orchestration.py keeps beside it: the graph of workflow    *)
(* stages, which of them need an independent reviewer, which need a        *)
(* package recorded in the ledger, which gates must already have passed    *)
(* for that exact package, and which evidence each stage must list.        *)
(* The three budgets of the policy are constants of the Workflow module.   *)
(***************************************************************************)
EXTENDS Naturals, FiniteSets

Gates == {"research_gate", "paper_gate", "risk_review"}

(* What a gate can say of a package, and what stands for nothing said yet.  *)
Outcomes   == {"pass", "blocked", "revise", "kill"}
NoDecision == "undecided"

(* The gate whose recorded pass on the same exact package evaluate_gate     *)
(* demands before it lets a later gate pass.                                *)
PriorGate == [g \in {"paper_gate", "risk_review"} |->
                IF g = "paper_gate" THEN "research_gate" ELSE "paper_gate"]

ResearchStages == {"research", "screen", "backtest", "robustness",
                   "review_research", "research_gate"}
PaperStages    == {"paper_prepare", "paper_observe", "review_paper", "paper_gate"}
RiskStages     == {"risk_prepare", "plate", "review_risk", "risk_review"}

Stages == {"preflight", "remediation", "complete"}
            \cup ResearchStages \cup PaperStages \cup RiskStages

Statuses         == {"in_progress", "waiting", "blocked", "killed", "complete"}
TerminalStatuses == {"killed", "complete"}

(* stages.<name>.transitions *)
Transitions ==
  [s \in Stages |->
    CASE s = "preflight"       -> Stages \ {"preflight", "remediation", "complete"}
      [] s = "research"        -> {"screen", "remediation"}
      [] s = "screen"          -> {"backtest", "remediation"}
      [] s = "backtest"        -> {"robustness", "remediation"}
      [] s = "robustness"      -> {"review_research", "remediation"}
      [] s = "review_research" -> {"research_gate", "remediation"}
      [] s = "research_gate"   -> {"paper_prepare", "remediation", "complete"}
      [] s = "paper_prepare"   -> {"paper_observe"}
      [] s = "paper_observe"   -> {"review_paper"}
      [] s = "review_paper"    -> {"paper_gate", "remediation"}
      [] s = "paper_gate"      -> {"risk_prepare", "remediation", "complete"}
      [] s = "risk_prepare"    -> {"plate", "remediation"}
      [] s = "plate"           -> {"review_risk"}
      [] s = "review_risk"     -> {"risk_review", "remediation"}
      [] s = "risk_review"     -> {"remediation", "complete"}
      [] s = "remediation"     -> {"screen", "backtest", "robustness",
                                   "review_research", "paper_prepare",
                                   "paper_observe", "review_paper",
                                   "risk_prepare", "plate", "review_risk"}
      [] OTHER                 -> {}]

(* stages.<name>.reviewer_required *)
ReviewStages == {"review_research", "research_gate", "review_paper",
                 "paper_gate", "review_risk", "risk_review"}

(* STAGE_PREREQUISITE_GATES *)
PrerequisiteGates ==
  [s \in Stages |-> IF s \in PaperStages THEN {"research_gate"}
                    ELSE IF s \in RiskStages THEN {"research_gate", "paper_gate"}
                    ELSE {}]

(* STAGES_REQUIRING_RECORDED_PACKAGE, and "complete" as verify_workflow_evidence adds it *)
RecordedStages == {"robustness", "review_research", "research_gate", "complete"}
                    \cup PaperStages \cup RiskStages

(* STAGE_REQUIRED_PACKAGE_EVIDENCE *)
PaperEvidence == {"paper_plan", "observation_manifest", "divergence_report"}
RiskEvidence  == {"risk_policy", "risk_report"}
RequiredEvidence ==
  [s \in Stages |->
    CASE s = "research_gate" -> {"findings"}
      [] s = "paper_observe" -> {"paper_plan"}
      [] s = "review_paper"  -> PaperEvidence
      [] s = "paper_gate"    -> PaperEvidence \cup {"audit_report.paper_gate"}
      [] s = "plate"         -> RiskEvidence
      [] s = "review_risk"   -> RiskEvidence \cup {"approval_pack", "config_diff"}
      [] s = "risk_review"   -> RiskEvidence \cup {"approval_pack", "config_diff",
                                                   "audit_report.risk_review"}
      [] OTHER               -> {}]

Stems == UNION {RequiredEvidence[s] : s \in Stages}

(* The artifact in which the reviewer of a gate reports its findings. *)
FindingStem ==
  [g \in Gates |-> CASE g = "research_gate" -> "findings"
                     [] g = "paper_gate"    -> "audit_report.paper_gate"
                     [] g = "risk_review"   -> "audit_report.risk_review"]

(* Stages reachable from preflight in at most n transitions. *)
ReachableIn[n \in Nat] ==
  IF n = 0 THEN {"preflight"}
  ELSE ReachableIn[n - 1] \cup UNION {Transitions[s] : s \in ReachableIn[n - 1]}

(* What validate_pipeline_policy demands of the stage graph before any      *)
(* command accepts it: no unknown stage, "complete" terminal, every target  *)
(* a stage, every stage reachable. TLC evaluates it on every run.           *)
PolicyIsValid ==
  /\ \A s \in Stages : Transitions[s] \subseteq Stages
  /\ Transitions["complete"] = {}
  /\ Gates \subseteq Stages
  /\ ReachableIn[Cardinality(Stages)] = Stages

ASSUME PolicyAssumption == PolicyIsValid
=============================================================================
