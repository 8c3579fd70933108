--------------------------- MODULE WorkflowProofs ---------------------------
(***************************************************************************)
(* What the receipt ledger promises and what an operational workflow over  *)
(* it guarantees, for every set of packages, lineage, gate judgement, cast *)
(* of principals and budget. The registry's invariant is the conjunction   *)
(* of its type, of LineageIsRecorded and of PassesAreEarned: an earned     *)
(* pass is preserved because a decision is recorded only where there was   *)
(* none. Then what supervisors guarantee beside callers who take no lock   *)
(* and processes that die, for any number of both: the state on disk stays *)
(* valid and earned, a cycle is one command, a review is left for its gate *)
(* only when it was signed, and the cycles suffice.                        *)
(***************************************************************************)
EXTENDS Supervisor, TLAPS

LEMMA PriorGateType ==
  /\ DOMAIN PriorGate \subseteq Gates
  /\ \A g \in DOMAIN PriorGate : PriorGate[g] \in Gates /\ PriorGate[g] # g
BY DEF PriorGate, Gates

(* What a gate answers is an outcome, and "pass" only over a passed prior gate. *)
LEMMA EvaluationType ==
  ASSUME RegistryTypeOK, NEW p \in Packages, NEW g \in Gates
  PROVE  /\ Evaluation(p, g) \in Outcomes
         /\ g \in DOMAIN PriorGate /\ Evaluation(p, g) = "pass" => Passed(p, PriorGate[g])
BY DEF RegistryTypeOK, Evaluation, Outcomes

(* Type correctness of the registry. *)
LEMMA RegistryInitType == RegistryInit => RegistryTypeOK
BY RegistryAssumption
   DEF RegistryInit, RegistryTypeOK, Judgement, Outcomes, NoDecision

LEMMA RegistryStepType ==
  ASSUME RegistryTypeOK, [RegistryNext]_registryVars
  PROVE  RegistryTypeOK'
<1>1. CASE UNCHANGED registryVars
  BY <1>1 DEF registryVars, RegistryTypeOK
<1>2. ASSUME NEW p \in Packages, Assemble(p)
      PROVE  RegistryTypeOK'
  BY <1>2 DEF Assemble, RegistryTypeOK
<1>3. ASSUME NEW p \in Packages, Rework(p)
      PROVE  RegistryTypeOK'
  BY <1>3 DEF Rework, RegistryTypeOK
<1>4. ASSUME NEW p \in Packages, RecordRun(p)
      PROVE  RegistryTypeOK'
  BY <1>4 DEF RecordRun, RegistryTypeOK
<1>5. ASSUME NEW p \in Packages, NEW g \in Gates, RecordDecision(p, g)
      PROVE  RegistryTypeOK'
  <2>1. Evaluation(p, g) \in Outcomes
    BY EvaluationType
  <2>. QED BY <1>5, <2>1 DEF RecordDecision, RegistryTypeOK
<1>6. CASE LoseTrust
  BY <1>6 DEF LoseTrust, RegistryTypeOK
<1>7. CASE RegainTrust
  BY <1>7 DEF RegainTrust, RegistryTypeOK
<1>. QED BY <1>1, <1>2, <1>3, <1>4, <1>5, <1>6, <1>7 DEF RegistryNext

THEOREM RegistryTypeCorrect == RegistrySpec => []RegistryTypeOK
<1>. QED BY RegistryInitType, RegistryStepType, PTL DEF RegistrySpec
-----------------------------------------------------------------------------
(* What every step of the registry leaves standing: recorded runs and       *)
(* recorded decisions.                                                      *)
LEMMA RegistryStepKeepsRecords ==
  ASSUME RegistryTypeOK, [RegistryNext]_registryVars
  PROVE  /\ runs \subseteq runs'
         /\ \A p \in Packages, g \in Gates :
              decided[p][g] # NoDecision => decided'[p][g] = decided[p][g]
<1>1. CASE UNCHANGED registryVars
  BY <1>1 DEF registryVars
<1>2. ASSUME NEW p \in Packages, Assemble(p) \/ Rework(p) \/ RecordRun(p)
      PROVE  runs \subseteq runs' /\ decided' = decided
  BY <1>2 DEF Assemble, Rework, RecordRun
<1>3. ASSUME NEW p \in Packages, NEW g \in Gates, RecordDecision(p, g)
      PROVE  /\ runs' = runs
             /\ \A q \in Packages, h \in Gates :
                  decided[q][h] # NoDecision => decided'[q][h] = decided[q][h]
  BY <1>3 DEF RecordDecision, RegistryTypeOK
<1>4. CASE LoseTrust \/ RegainTrust
  BY <1>4 DEF LoseTrust, RegainTrust
<1>. QED BY <1>1, <1>2, <1>3, <1>4 DEF RegistryNext

(* The ledger never forgets a run and never revises a decision              *)
(* (append_ledger_entry, append_gate_decision).                             *)
THEOREM RegistryDecisionsAreFinal == RegistrySpec => DecisionsAreFinal
<1>1. RegistryTypeOK /\ [RegistryNext]_registryVars
        => [ /\ runs \subseteq runs'
             /\ \A p \in Packages, g \in Gates :
                  decided[p][g] # NoDecision => decided'[p][g] = decided[p][g] ]_registryVars
  BY RegistryStepKeepsRecords
<1>. QED BY <1>1, RegistryTypeCorrect, PTL DEF RegistrySpec, DecisionsAreFinal
-----------------------------------------------------------------------------
LEMMA RegistryStepLineage ==
  ASSUME RegistryTypeOK, LineageIsRecorded, [RegistryNext]_registryVars
  PROVE  LineageIsRecorded'
<1>1. CASE UNCHANGED registryVars
  BY <1>1 DEF registryVars, LineageIsRecorded
<1>2. ASSUME NEW p \in Packages, Assemble(p)
      PROVE  LineageIsRecorded'
  BY <1>2 DEF Assemble, LineageIsRecorded
<1>3. ASSUME NEW p \in Packages, Rework(p)
      PROVE  LineageIsRecorded'
  BY <1>3 DEF Rework, LineageIsRecorded
<1>4. ASSUME NEW p \in Packages, RecordRun(p)
      PROVE  LineageIsRecorded'
  BY <1>4 DEF RecordRun, LineageIsRecorded
<1>5. ASSUME NEW p \in Packages, NEW g \in Gates, RecordDecision(p, g)
      PROVE  LineageIsRecorded'
  BY <1>5 DEF RecordDecision, LineageIsRecorded, RegistryTypeOK
<1>6. CASE LoseTrust \/ RegainTrust
  BY <1>6 DEF LoseTrust, RegainTrust, LineageIsRecorded
<1>. QED BY <1>1, <1>2, <1>3, <1>4, <1>5, <1>6 DEF RegistryNext

LEMMA RegistryInitLineage == RegistryInit => LineageIsRecorded
BY DEF RegistryInit, LineageIsRecorded

(* Every recorded package's lineage is recorded, and nothing is decided     *)
(* before its run is (run_lineage_issue, append_gate_decision).             *)
THEOREM RegistryLineageIsRecorded == RegistrySpec => []LineageIsRecorded
<1>. QED BY RegistryInitLineage, RegistryStepLineage, RegistryTypeCorrect, PTL
         DEF RegistrySpec
-----------------------------------------------------------------------------
LEMMA RegistryStepEarned ==
  ASSUME RegistryTypeOK, PassesAreEarned, [RegistryNext]_registryVars
  PROVE  PassesAreEarned'
<1>1. CASE UNCHANGED decided
  BY <1>1 DEF PassesAreEarned, Passed
<1>2. ASSUME NEW p \in Packages, NEW g \in Gates, RecordDecision(p, g)
      PROVE  PassesAreEarned'
  <2>. SUFFICES ASSUME NEW q \in Packages, NEW h \in DOMAIN PriorGate, Passed(q, h)'
                PROVE  Passed(q, PriorGate[h])'
    BY DEF PassesAreEarned
  <2>0. h \in Gates /\ PriorGate[h] \in Gates /\ PriorGate[h] # h
    BY PriorGateType
  <2>1. Passed(q, PriorGate[h])
    <3>1. CASE q = p /\ h = g
      BY <1>2, <2>0, <3>1, EvaluationType DEF RecordDecision, RegistryTypeOK, Passed
    <3>2. CASE ~(q = p /\ h = g)
      BY <1>2, <2>0, <3>2 DEF RecordDecision, RegistryTypeOK, Passed, PassesAreEarned
    <3>. QED BY <3>1, <3>2
  <2>2. decided[q][PriorGate[h]] # NoDecision
    BY <2>1 DEF Passed, NoDecision
  <2>3. decided'[q][PriorGate[h]] = decided[q][PriorGate[h]]
    BY <2>0, <2>2, RegistryStepKeepsRecords
  <2>. QED BY <2>1, <2>3 DEF Passed
<1>3. ASSUME NEW p \in Packages, Assemble(p) \/ Rework(p) \/ RecordRun(p)
      PROVE  UNCHANGED decided
  BY <1>3 DEF Assemble, Rework, RecordRun
<1>4. CASE LoseTrust \/ RegainTrust
  BY <1>1, <1>4 DEF LoseTrust, RegainTrust
<1>5. CASE UNCHANGED registryVars
  BY <1>1, <1>5 DEF registryVars
<1>. QED BY <1>1, <1>2, <1>3, <1>4, <1>5 DEF RegistryNext

LEMMA RegistryInitEarned == RegistryInit => PassesAreEarned
BY PriorGateType DEF RegistryInit, PassesAreEarned, Passed, NoDecision

(* A recorded pass rests on a recorded pass of the gate before, of the same *)
(* exact package (evaluate_gate, prior_gate_passes).                        *)
THEOREM RegistryPassesAreEarned == RegistrySpec => []PassesAreEarned
<1>. QED BY RegistryInitEarned, RegistryStepEarned, RegistryTypeCorrect, PTL
         DEF RegistrySpec
-----------------------------------------------------------------------------
(* What the proofs use of the policy's tables. *)
LEMMA PolicyFacts ==
  /\ \A s \in Stages : Transitions[s] \subseteq Stages
  /\ Gates \subseteq Stages /\ ReviewStages \subseteq Stages
  /\ "complete" \notin ReviewStages
  /\ "complete" \notin Transitions["remediation"]
  /\ "complete" \in RecordedStages
  /\ \A s \in Stages : PrerequisiteGates[s] \subseteq Gates
  /\ \A s \in Stages \ RecordedStages : PrerequisiteGates[s] = {}
<1>1. \A s \in Stages : Transitions[s] \subseteq Stages
  BY PolicyAssumption DEF PolicyIsValid
<1>2. "complete" \notin Transitions["remediation"]
  BY DEF Transitions, Stages
<1>3. /\ Gates \subseteq Stages /\ ReviewStages \subseteq Stages
      /\ "complete" \notin ReviewStages /\ "complete" \in RecordedStages
  BY DEF Gates, Stages, ReviewStages, RecordedStages, ResearchStages, PaperStages, RiskStages
<1>4. /\ \A s \in Stages : PrerequisiteGates[s] \subseteq Gates
      /\ \A s \in Stages \ RecordedStages : PrerequisiteGates[s] = {}
  BY DEF PrerequisiteGates, Gates, RecordedStages
<1>. QED BY <1>1, <1>2, <1>3, <1>4

(* Every request a command can make, whatever the stage. *)
Request ==
  [stage : Stages, status : Statuses, reviewer : Principals \cup {NoReviewer},
   package : Packages \cup {NoPackage}, evidence : SUBSET (Packages \X Stems),
   remediation : BOOLEAN, moved_gate : BOOLEAN, resume : BOOLEAN]

LEMMA RequestType ==
  ASSUME RegistryTypeOK, NEW w \in WorkflowState,
         NEW stage \in Transitions[w.stage] \cup {w.stage},
         NEW package \in (made \ {w.package}) \cup {NoPackage},
         NEW a \in Requests(w, stage, package)
  PROVE  a \in Request
<1>1. stage \in Stages
  BY PolicyFacts DEF WorkflowState
<1>2. package \in Packages \cup {NoPackage}
  BY DEF RegistryTypeOK
<1>3. \A q : EvidenceOffers(stage, q) \subseteq SUBSET (Packages \X Stems)
  <2>. SUFFICES ASSUME NEW q, NEW e \in EvidenceOffers(stage, q)
                PROVE  e \subseteq Packages \X Stems
    OBVIOUS
  <2>1. Blocking \subseteq Packages \X Stems
    BY WorkflowAssumption
  <2>2. RequiredEvidence[stage] \subseteq Stems
    BY <1>1 DEF Stems
  <2>3. made \subseteq Packages
    BY DEF RegistryTypeOK
  <2>. QED BY <2>1, <2>2, <2>3 DEF EvidenceOffers
<1>4. (IF stage = "complete" THEN {"complete"} ELSE Statuses \ {"complete"}) \subseteq Statuses
  BY DEF Statuses
<1>5. /\ a = [stage |-> a.stage, status |-> a.status, reviewer |-> a.reviewer,
               package |-> a.package, evidence |-> a.evidence,
               remediation |-> a.remediation, moved_gate |-> a.moved_gate,
               resume |-> a.resume]
      /\ a.stage = stage /\ a.package = package
      /\ a.reviewer \in Principals \cup {NoReviewer}
      /\ a.evidence \in EvidenceOffers(stage, IF package = NoPackage THEN w.package ELSE package)
      /\ a.remediation \in BOOLEAN /\ a.moved_gate \in BOOLEAN /\ a.resume \in BOOLEAN
  BY DEF Requests
<1>6. a.status \in Statuses
  BY <1>4 DEF Requests
<1>. QED BY <1>1, <1>2, <1>3, <1>5, <1>6 DEF Request
-----------------------------------------------------------------------------
(* Type correctness *)

(* A workflow state before anything has checked it against the budgets. *)
CountedState ==
  [target_gate      : Gates,
   stage            : Stages,
   status           : Statuses,
   transitions_used : Nat,
   remediation_laps : Nat,
   no_progress_laps : Nat,
   reviewer         : Principals \cup {NoReviewer},
   package          : Packages \cup {NoPackage},
   evidence         : SUBSET (Packages \X Stems),
   blockers         : Blockers]

LEMMA CountedAndValid ==
  /\ WorkflowState \subseteq CountedState
  /\ \A w \in CountedState : ValidState(w) => w \in WorkflowState
BY WorkflowAssumption DEF WorkflowState, CountedState, ValidState

LEMMA ChargeType ==
  ASSUME NEW w \in CountedState, NEW a \in Request
  PROVE  ChargeTransition(w, a) \in CountedState /\ Charge(w, a) \in CountedState
<1>1. \A v \in CountedState : ChargeTransition(v, a) \in CountedState
  BY DEF ChargeTransition, CountedState
<1>2. ASSUME NEW v \in CountedState
      PROVE  ChargeLap(v, a) \in CountedState
  <2>. DEFINE l == v.remediation_laps + 1
              n == IF a.moved_gate THEN 0 ELSE v.no_progress_laps + 1
  <2>1. l \in Nat /\ n \in Nat
    BY DEF CountedState
  <2>2. ChargeLap(v, a) = IF Attempt(a)
                          THEN [v EXCEPT !.remediation_laps = l, !.no_progress_laps = n]
                          ELSE v
    BY DEF ChargeLap
  <2>. HIDE DEF l, n
  <2>. QED BY <2>1, <2>2 DEF CountedState
<1>. QED BY <1>1, <1>2 DEF Charge

(* Charging a command touches the three counters only. *)
LEMMA ChargeFields ==
  ASSUME NEW w \in CountedState, NEW a \in Request
  PROVE  LET t == ChargeTransition(w, a)
             c == Charge(w, a)
         IN /\ t.target_gate = w.target_gate /\ t.stage = w.stage /\ t.status = w.status
            /\ t.reviewer = w.reviewer /\ t.package = w.package /\ t.evidence = w.evidence
            /\ t.transitions_used = IF ConsumesTransition(w, a)
                                    THEN w.transitions_used + 1 ELSE w.transitions_used
            /\ t.remediation_laps = w.remediation_laps /\ t.no_progress_laps = w.no_progress_laps
            /\ c.target_gate = w.target_gate /\ c.stage = w.stage /\ c.status = w.status
            /\ c.reviewer = w.reviewer /\ c.package = w.package /\ c.evidence = w.evidence
            /\ c.transitions_used = t.transitions_used
            /\ c.remediation_laps = IF Attempt(a) THEN w.remediation_laps + 1
                                    ELSE w.remediation_laps
            /\ c.no_progress_laps = IF ~Attempt(a) THEN w.no_progress_laps
                                    ELSE IF a.moved_gate THEN 0 ELSE w.no_progress_laps + 1
<1>. DEFINE t == ChargeTransition(w, a)
<1>1. /\ t.target_gate = w.target_gate /\ t.stage = w.stage /\ t.status = w.status
      /\ t.reviewer = w.reviewer /\ t.package = w.package /\ t.evidence = w.evidence
      /\ t.transitions_used = IF ConsumesTransition(w, a)
                              THEN w.transitions_used + 1 ELSE w.transitions_used
      /\ t.remediation_laps = w.remediation_laps /\ t.no_progress_laps = w.no_progress_laps
  BY DEF ChargeTransition, CountedState
<1>2. t \in CountedState
  BY ChargeType
<1>3. ASSUME NEW v \in CountedState
      PROVE  LET c == ChargeLap(v, a)
             IN /\ c.target_gate = v.target_gate /\ c.stage = v.stage /\ c.status = v.status
                /\ c.reviewer = v.reviewer /\ c.package = v.package /\ c.evidence = v.evidence
                /\ c.transitions_used = v.transitions_used
                /\ c.remediation_laps = IF Attempt(a) THEN v.remediation_laps + 1
                                        ELSE v.remediation_laps
                /\ c.no_progress_laps = IF ~Attempt(a) THEN v.no_progress_laps
                                        ELSE IF a.moved_gate THEN 0 ELSE v.no_progress_laps + 1
  BY DEF ChargeLap, CountedState
<1>4. Charge(w, a) = ChargeLap(t, a)
  BY DEF Charge
<1>. HIDE DEF t
<1>. QED BY <1>1, <1>2, <1>3, <1>4 DEF t

LEMMA BlockType ==
  ASSUME NEW w \in CountedState, NEW why \in Blockers
  PROVE  Block(w, why) \in CountedState
BY DEF Block, CountedState, Statuses

LEMMA CommittedType ==
  ASSUME NEW w \in CountedState, NEW a \in Request
  PROVE  Committed(w, a) \in CountedState
<1>. DEFINE b == IF a.status \in {"waiting", "blocked", "killed"} THEN "reported" ELSE "none"
            e == w.evidence \cup a.evidence
            p == IF a.package = NoPackage THEN w.package ELSE a.package
            r == EffectiveReviewer(w, a)
            c == Charge(w, a)
<1>1. /\ b \in Blockers
      /\ e \in SUBSET (Packages \X Stems)
      /\ p \in Packages \cup {NoPackage}
      /\ r \in Principals \cup {NoReviewer}
      /\ a.stage \in Stages /\ a.status \in Statuses
  BY DEF Blockers, Request, CountedState, EffectiveReviewer
<1>2. c \in CountedState /\ c.evidence = w.evidence /\ c.package = w.package
  BY ChargeType, ChargeFields
<1>3. Committed(w, a) = [c EXCEPT !.stage = a.stage, !.status = a.status, !.blockers = b,
                                  !.reviewer = r, !.evidence = e, !.package = p]
  BY <1>2 DEF Committed, CountedState
<1>. HIDE DEF b, e, p, r, c
<1>. QED BY <1>1, <1>2, <1>3 DEF CountedState

LEMMA CommandType ==
  ASSUME TypeOK, NEW a \in Request, AdvanceWith(a)
  PROVE  wf' \in WorkflowState
<1>1. /\ wf \in CountedState /\ ValidState(wf')
      /\ ChargeTransition(wf, a) \in CountedState /\ Charge(wf, a) \in CountedState
  BY CountedAndValid, ChargeType DEF TypeOK, AdvanceWith
<1>2. {"transition_budget", "remediation_budget", "no_progress", "reviewer"} \subseteq Blockers
  BY DEF Blockers
<1>3. CASE StopOnTransitions(a)
  BY <1>1, <1>2, <1>3, BlockType, CountedAndValid DEF StopOnTransitions
<1>4. CASE StopOnLaps(a)
  BY <1>1, <1>2, <1>4, BlockType, CountedAndValid DEF StopOnLaps
<1>5. CASE StopOnNoProgress(a)
  BY <1>1, <1>2, <1>5, BlockType, CountedAndValid DEF StopOnNoProgress
<1>6. CASE RefuseReviewer(a)
  <2>1. EffectiveReviewer(wf, a) \in Principals \cup {NoReviewer}
    BY <1>1 DEF EffectiveReviewer, Request, CountedState
  <2>2. Block(Charge(wf, a), "reviewer") \in CountedState
    BY <1>1, <1>2, BlockType
  <2>3. wf' \in CountedState
    BY <1>6, <2>1, <2>2 DEF RefuseReviewer, CountedState
  <2>. QED BY <1>1, <2>3, CountedAndValid
<1>7. CASE Commit(a)
  BY <1>1, <1>7, CommittedType, CountedAndValid DEF Commit
<1>. QED BY <1>3, <1>4, <1>5, <1>6, <1>7 DEF AdvanceWith

(* A step of the workflow is one accepted command, over a still registry.   *)
LEMMA AdvanceIsCommand ==
  ASSUME TypeOK, Advance
  PROVE  \E a \in Request : AdvanceWith(a)
BY RequestType DEF Advance, TypeOK

LEMMA InitType == Init => TypeOK
<1>1. ASSUME NEW target \in Gates
      PROVE  NewWorkflowState(target) \in WorkflowState
  BY WorkflowAssumption, PolicyFacts
     DEF NewWorkflowState, WorkflowState, Statuses, Blockers, Stages
<1>. QED BY <1>1, RegistryInitType DEF Init, TypeOK

LEMMA StepType ==
  ASSUME TypeOK, [Next]_vars
  PROVE  TypeOK'
<1>1. CASE Advance
  <2>1. PICK a \in Request : AdvanceWith(a)
    BY <1>1, AdvanceIsCommand
  <2>. QED BY <2>1, CommandType DEF AdvanceWith, TypeOK, RegistryTypeOK, registryVars
<1>2. CASE [RegistryNext]_registryVars /\ UNCHANGED wf
  BY <1>2, RegistryStepType DEF TypeOK
<1>. QED BY <1>1, <1>2 DEF Next, vars

(* The state file and the ledger it stands on keep their types.             *)
THEOREM TypeCorrect == Spec => []TypeOK
<1>. QED BY InitType, StepType, PTL DEF Spec
-----------------------------------------------------------------------------
(* Earned stages *)

LEMMA GatesStoodOnFacts ==
  ASSUME NEW w \in WorkflowState
  PROVE  /\ GatesStoodOn(w) \subseteq Gates
         /\ w.stage \notin RecordedStages => GatesStoodOn(w) = {}
BY PolicyFacts DEF GatesStoodOn, WorkflowState

LEMMA VerifiedIsEarned ==
  ASSUME NEW w \in WorkflowState, EvidenceVerifies(w)
  PROVE  /\ w.stage \in RecordedStages => w.package \in runs
         /\ \A g \in GatesStoodOn(w) : Passed(w.package, g)
BY GatesStoodOnFacts DEF EvidenceVerifies

(* The evidence check of a write is what makes a stage earned; the ledger   *)
(* then keeps it earned, for it forgets nothing.                            *)
LEMMA WriteIsEarned ==
  ASSUME wf' \in WorkflowState, EvidenceVerifies(wf'), UNCHANGED registryVars
  PROVE  StageIsEarned'
<1>1. /\ wf'.stage \in RecordedStages => wf'.package \in runs
      /\ \A g \in GatesStoodOn(wf') : Passed(wf'.package, g)
  BY VerifiedIsEarned
<1>. QED BY <1>1 DEF StageIsEarned, GatesStoodOn, Passed, registryVars

LEMMA RegistryKeepsEarned ==
  ASSUME TypeOK, StageIsEarned, [RegistryNext]_registryVars, UNCHANGED wf
  PROVE  StageIsEarned'
<1>1. wf \in WorkflowState /\ RegistryTypeOK
  BY DEF TypeOK
<1>2. wf.stage \in RecordedStages => wf.package \in runs /\ wf.package \in Packages
  BY <1>1 DEF StageIsEarned, RegistryTypeOK
<1>3. ASSUME NEW g \in GatesStoodOn(wf)
      PROVE  decided'[wf.package][g] = "pass"
  <2>1. g \in Gates /\ wf.package \in Packages
    BY <1>1, <1>2, GatesStoodOnFacts
  <2>2. decided[wf.package][g] = "pass"
    BY DEF StageIsEarned, Passed
  <2>. QED BY <1>1, <2>1, <2>2, RegistryStepKeepsRecords DEF NoDecision
<1>4. runs \subseteq runs'
  BY <1>1, RegistryStepKeepsRecords
<1>. QED BY <1>2, <1>3, <1>4 DEF StageIsEarned, GatesStoodOn, Passed

LEMMA StepEarned ==
  ASSUME TypeOK, StageIsEarned, [Next]_vars
  PROVE  StageIsEarned'
<1>1. CASE Advance
  <2>1. PICK a \in Request : AdvanceWith(a)
    BY <1>1, AdvanceIsCommand
  <2>. QED BY <2>1, CommandType, WriteIsEarned DEF AdvanceWith
<1>2. CASE [RegistryNext]_registryVars /\ UNCHANGED wf
  BY <1>2, RegistryKeepsEarned
<1>. QED BY <1>1, <1>2 DEF Next, vars

LEMMA InitEarned == Init => StageIsEarned
<1>1. /\ "preflight" \notin RecordedStages /\ "preflight" # "complete"
      /\ PrerequisiteGates["preflight"] = {}
  BY DEF RecordedStages, PaperStages, RiskStages, PrerequisiteGates, Stages
<1>. QED BY <1>1 DEF Init, NewWorkflowState, StageIsEarned, GatesStoodOn

(* A workflow stands only where its exact package's record allows, in every *)
(* state a command can leave it in (verify_workflow_evidence).              *)
THEOREM StagesAreEarned == Spec => []StageIsEarned
<1>. QED BY InitEarned, StepEarned, TypeCorrect, PTL DEF Spec
-----------------------------------------------------------------------------
(* Reviewers and completion *)

(* What validate_workflow_state demands of every written state.             *)
WrittenStateIsValid == ValidState(wf)

LEMMA InitValid == Init => WrittenStateIsValid
<1>1. "preflight" \notin ReviewStages
  BY DEF ReviewStages
<1>. QED BY <1>1, WorkflowAssumption
         DEF Init, NewWorkflowState, WrittenStateIsValid, ValidState

LEMMA StepValid ==
  ASSUME WrittenStateIsValid, [Next]_vars
  PROVE  WrittenStateIsValid'
<1>1. CASE Advance
  BY <1>1 DEF Advance, AdvanceWith, WrittenStateIsValid, ValidState, Independent
<1>2. CASE UNCHANGED wf
  BY <1>2 DEF WrittenStateIsValid, ValidState, Independent
<1>. QED BY <1>1, <1>2 DEF Next, vars

LEMMA AlwaysValid == Spec => []WrittenStateIsValid
<1>. QED BY InitValid, StepValid, PTL DEF Spec

(* Nobody reviews their own run, in no state the command writes.            *)
THEOREM ReviewsAreIndependent == Spec => []ReviewIsIndependent
<1>1. WrittenStateIsValid => ReviewIsIndependent
  BY DEF WrittenStateIsValid, ValidState, Independent, ReviewIsIndependent
<1>. QED BY <1>1, AlwaysValid, PTL

(* The ledger under the workflow is the registry and keeps its promises.    *)
LEMMA RegistryUnderneath == Spec => RegistrySpec
<1>1. Init => RegistryInit
  BY DEF Init
<1>2. [Next]_vars => [RegistryNext]_registryVars
  BY DEF Next, vars, Advance, AdvanceWith
<1>. QED BY <1>1, <1>2, PTL DEF Spec, RegistrySpec

(* The completed stage stands on the target, and the registry's passes      *)
(* stand on each other.                                                     *)
LEMMA EarnedCompletion ==
  ASSUME TypeOK, StageIsEarned, ValidState(wf), PassesAreEarned
  PROVE  CompletionIsEarned
<1>. SUFFICES ASSUME wf.status = "complete"
              PROVE  /\ wf.package \in runs
                     /\ Passed(wf.package, wf.target_gate)
                     /\ wf.target_gate # "research_gate" => Passed(wf.package, "research_gate")
                     /\ wf.target_gate = "risk_review" => Passed(wf.package, "paper_gate")
  BY DEF CompletionIsEarned
<1>1. wf.stage = "complete"
  BY DEF ValidState
<1>2. wf.package \in runs /\ Passed(wf.package, wf.target_gate)
  BY <1>1, PolicyFacts DEF StageIsEarned, GatesStoodOn
<1>3. wf.package \in Packages /\ wf.target_gate \in Gates
  BY <1>2 DEF TypeOK, RegistryTypeOK, WorkflowState
<1>4. wf.target_gate = "risk_review" => Passed(wf.package, "paper_gate")
  BY <1>2, <1>3 DEF PassesAreEarned, PriorGate
<1>5. Passed(wf.package, "paper_gate") => Passed(wf.package, "research_gate")
  BY <1>3 DEF PassesAreEarned, PriorGate
<1>. QED BY <1>2, <1>3, <1>4, <1>5 DEF Gates

(* A complete workflow passed its target and every gate before it, all on   *)
(* the exact package it names (verify_workflow_evidence, evaluate_gate).    *)
THEOREM CompletionsAreEarned == Spec => []CompletionIsEarned
<1>1. TypeOK /\ StageIsEarned /\ WrittenStateIsValid /\ PassesAreEarned => CompletionIsEarned
  BY EarnedCompletion DEF WrittenStateIsValid
<1>. QED BY <1>1, TypeCorrect, StagesAreEarned, AlwaysValid,
            RegistryUnderneath, RegistryPassesAreEarned, PTL
-----------------------------------------------------------------------------
(* Budgets *)

(* The fields of the state each outcome of a command writes that the        *)
(* budgets are about.                                                       *)
LEMMA OutcomeFields ==
  ASSUME TypeOK, NEW a \in Request, AdvanceWith(a)
  PROVE  \/ /\ StopOnTransitions(a)
            /\ wf'.stage = wf.stage /\ wf'.status = "blocked"
            /\ wf'.transitions_used = wf.transitions_used
            /\ wf'.remediation_laps = wf.remediation_laps
            /\ wf'.no_progress_laps = wf.no_progress_laps
         \/ /\ StopOnLaps(a)
            /\ wf'.stage = wf.stage /\ wf'.status = "blocked"
            /\ wf'.transitions_used = ChargeTransition(wf, a).transitions_used
            /\ wf'.remediation_laps = wf.remediation_laps
            /\ wf'.no_progress_laps = wf.no_progress_laps
         \/ /\ StopOnNoProgress(a) \/ RefuseReviewer(a)
            /\ wf'.stage = wf.stage /\ wf'.status = "blocked"
            /\ wf'.transitions_used = Charge(wf, a).transitions_used
            /\ wf'.remediation_laps = Charge(wf, a).remediation_laps
            /\ wf'.no_progress_laps = Charge(wf, a).no_progress_laps
         \/ /\ Commit(a)
            /\ wf'.stage = a.stage /\ wf'.status = a.status
            /\ wf'.transitions_used = Charge(wf, a).transitions_used
            /\ wf'.remediation_laps = Charge(wf, a).remediation_laps
            /\ wf'.no_progress_laps = Charge(wf, a).no_progress_laps
<1>1. /\ wf \in CountedState
      /\ ChargeTransition(wf, a) \in CountedState /\ Charge(wf, a) \in CountedState
  BY CountedAndValid, ChargeType DEF TypeOK
<1>2. \A why : \A w \in CountedState :
        /\ Block(w, why).stage = w.stage /\ Block(w, why).status = "blocked"
        /\ Block(w, why).transitions_used = w.transitions_used
        /\ Block(w, why).remediation_laps = w.remediation_laps
        /\ Block(w, why).no_progress_laps = w.no_progress_laps
  BY DEF Block, CountedState
<1>3. ChargeTransition(wf, a).stage = wf.stage /\ Charge(wf, a).stage = wf.stage
      /\ ChargeTransition(wf, a).remediation_laps = wf.remediation_laps
      /\ ChargeTransition(wf, a).no_progress_laps = wf.no_progress_laps
  BY <1>1, ChargeFields
<1>4. CASE StopOnTransitions(a)
  BY <1>1, <1>2, <1>4 DEF StopOnTransitions
<1>5. CASE StopOnLaps(a)
  BY <1>1, <1>2, <1>3, <1>5 DEF StopOnLaps
<1>6. CASE StopOnNoProgress(a)
  BY <1>1, <1>2, <1>3, <1>6 DEF StopOnNoProgress
<1>7. CASE RefuseReviewer(a)
  <2>1. Block(Charge(wf, a), "reviewer") \in CountedState
    BY <1>1, BlockType DEF Blockers
  <2>2. /\ wf'.stage = Block(Charge(wf, a), "reviewer").stage
        /\ wf'.status = Block(Charge(wf, a), "reviewer").status
        /\ wf'.transitions_used = Block(Charge(wf, a), "reviewer").transitions_used
        /\ wf'.remediation_laps = Block(Charge(wf, a), "reviewer").remediation_laps
        /\ wf'.no_progress_laps = Block(Charge(wf, a), "reviewer").no_progress_laps
    BY <1>7, <2>1 DEF RefuseReviewer, CountedState
  <2>. QED BY <1>1, <1>2, <1>3, <1>7, <2>2
<1>8. CASE Commit(a)
  BY <1>1, <1>8 DEF Commit, Committed, CountedState
<1>. QED BY <1>4, <1>5, <1>6, <1>7, <1>8 DEF AdvanceWith

(* Completing the run is the one step that spends nothing, and no early     *)
(* return is taken on the way to it.                                        *)
LEMMA CompletionIsFree ==
  ASSUME TypeOK, NEW a \in Request, AdvanceWith(a), a.stage = "complete"
  PROVE  Commit(a) /\ wf'.transitions_used = wf.transitions_used
<1>1. wf \in CountedState /\ wf.stage \in Stages
  BY CountedAndValid DEF TypeOK, WorkflowState
<1>2. ~ConsumesTransition(wf, a)
  BY DEF ConsumesTransition
<1>3. ~Attempt(a)
  BY PolicyFacts DEF AdvanceWith, Permitted, RemediationAllowed, TransitionAllowed, Attempt
<1>4. ~ReviewerRefused(wf, a)
  BY PolicyFacts DEF ReviewerRefused
<1>5. Commit(a)
  BY <1>2, <1>3, <1>4
     DEF AdvanceWith, StopOnTransitions, OutOfTransitions, StopOnLaps, OutOfLaps,
         StopOnNoProgress, NoProgress, RefuseReviewer
<1>6. ~StopOnTransitions(a) /\ ~StopOnLaps(a) /\ ~StopOnNoProgress(a) /\ ~RefuseReviewer(a)
  BY <1>2, <1>3, <1>4
     DEF StopOnTransitions, OutOfTransitions, StopOnLaps, OutOfLaps,
         StopOnNoProgress, NoProgress, RefuseReviewer
<1>. QED BY <1>1, <1>2, <1>5, <1>6, OutcomeFields, ChargeFields

LEMMA CommandIsPaid ==
  ASSUME TypeOK, NEW a \in Request, AdvanceWith(a)
  PROVE  \/ wf'.transitions_used = wf.transitions_used + 1
         \/ wf'.stage = "complete"
         \/ wf'.status = "blocked" /\ wf.transitions_used = MaxTransitions
<1>0. wf \in CountedState /\ wf \in WorkflowState
  BY CountedAndValid DEF TypeOK
<1>1. CASE a.stage = "complete"
  <2>1. Commit(a)
    BY <1>1, CompletionIsFree
  <2>. QED BY <1>0, <1>1, <2>1, ChargeType DEF Commit, Committed, CountedState
<1>2. CASE a.stage # "complete"
  <2>1. ConsumesTransition(wf, a)
    BY <1>2 DEF ConsumesTransition
  <2>2. CASE StopOnTransitions(a)
    <3>1. wf.transitions_used = MaxTransitions
      BY <1>0, <2>2, WorkflowAssumption DEF StopOnTransitions, OutOfTransitions, WorkflowState
    <3>2. wf'.status = "blocked"
      BY <1>0, <2>2 DEF StopOnTransitions, Block, CountedState
    <3>. QED BY <3>1, <3>2
  <2>3. CASE ~StopOnTransitions(a)
    <3>1. ChargeTransition(wf, a).transitions_used = wf.transitions_used + 1
      BY <1>0, <2>1, ChargeFields
    <3>2. Charge(wf, a).transitions_used = wf.transitions_used + 1
      BY <1>0, <2>1, ChargeFields
    <3>. QED BY <2>3, <3>1, <3>2, OutcomeFields
  <2>. QED BY <2>2, <2>3
<1>. QED BY <1>1, <1>2

(* No write of a run's state is free except the one that ends it.           *)
THEOREM WritesArePaid == Spec => EveryWriteIsPaid
<1>1. ASSUME TypeOK, [Next]_vars, wf' # wf
      PROVE  \/ wf'.transitions_used = wf.transitions_used + 1
             \/ wf'.stage = "complete"
             \/ wf'.status = "blocked" /\ wf.transitions_used = MaxTransitions
  <2>1. Advance
    BY <1>1 DEF Next, vars
  <2>2. PICK a \in Request : AdvanceWith(a)
    BY <1>1, <2>1, AdvanceIsCommand
  <2>. QED BY <1>1, <2>2, CommandIsPaid
<1>. QED BY <1>1, TypeCorrect, PTL DEF Spec, EveryWriteIsPaid

(* A run blocked with any budget spent is never written again.              *)
THEOREM ExhaustedRunsAreFinal == Spec => ExhaustionIsFinal
<1>1. ASSUME TypeOK, [Next]_vars, wf.status = "blocked",
             \/ wf.transitions_used = MaxTransitions
             \/ wf.remediation_laps = MaxRemediationLaps
             \/ wf.no_progress_laps = MaxNoProgress
      PROVE  wf' = wf
  <2>1. Exhausted(wf)
    BY <1>1, WorkflowAssumption DEF Exhausted
  <2>2. ~Advance
    BY <1>1, <2>1 DEF Advance, AdvanceWith, Permitted, MayAdvance
  <2>. QED BY <1>1, <2>2 DEF Next, vars
<1>. QED BY <1>1, TypeCorrect, PTL DEF Spec, ExhaustionIsFinal

LEMMA StepStalled ==
  ASSUME TypeOK, StalledRunsAreBlocked, [Next]_vars
  PROVE  StalledRunsAreBlocked'
<1>1. CASE Advance
  <2>1. PICK a \in Request : AdvanceWith(a)
    BY <1>1, AdvanceIsCommand
  <2>2. /\ wf \in CountedState /\ a.moved_gate \in BOOLEAN
        /\ wf.no_progress_laps <= wf.remediation_laps
        /\ wf.remediation_laps \in Nat /\ wf.no_progress_laps \in Nat
    BY CountedAndValid DEF TypeOK, Request, StalledRunsAreBlocked, CountedState
  <2>3. Charge(wf, a).no_progress_laps <= Charge(wf, a).remediation_laps
    BY <2>2, ChargeFields
  <2>4. wf'.no_progress_laps <= wf'.remediation_laps
    BY <2>1, <2>2, <2>3, OutcomeFields
  <2>5. wf.status = "blocked" => wf.no_progress_laps < MaxNoProgress
    BY <2>1, <2>2, WorkflowAssumption DEF AdvanceWith, Permitted, MayAdvance, Exhausted
  <2>6. wf'.no_progress_laps = MaxNoProgress => wf'.status = "blocked"
    <3>1. CASE Commit(a) /\ wf'.no_progress_laps = Charge(wf, a).no_progress_laps
      <4>1. CASE Attempt(a)
        <5>1. ~(Charge(wf, a).no_progress_laps >= MaxNoProgress)
          BY <3>1, <4>1 DEF Commit, WithinBudgets, NoProgress
        <5>. QED BY <3>1, <5>1, WorkflowAssumption
      <4>2. CASE ~Attempt(a)
        <5>1. wf'.no_progress_laps = wf.no_progress_laps
          BY <2>2, <3>1, <4>2, ChargeFields
        <5>2. wf.no_progress_laps # MaxNoProgress
          BY <2>2, <2>5, WorkflowAssumption DEF StalledRunsAreBlocked
        <5>. QED BY <5>1, <5>2
      <4>. QED BY <4>1, <4>2
    <3>. QED BY <2>1, <3>1, OutcomeFields
  <2>. QED BY <2>4, <2>6 DEF StalledRunsAreBlocked
<1>2. CASE UNCHANGED wf
  BY <1>2 DEF StalledRunsAreBlocked
<1>. QED BY <1>1, <1>2 DEF Next, vars

LEMMA InitStalled == Init => StalledRunsAreBlocked
BY WorkflowAssumption DEF Init, NewWorkflowState, StalledRunsAreBlocked

(* A run that may go on has laps without progress in hand.                  *)
THEOREM StalledRunsBlock == Spec => []StalledRunsAreBlocked
<1>. QED BY InitStalled, StepStalled, TypeCorrect, PTL DEF Spec
(* A lap counts as progress only on a recorded successor.                   *)
THEOREM ProgressRestsOnSuccessors == Spec => ProgressIsRecorded
<1>1. ASSUME TypeOK, [Next]_vars,
             wf'.remediation_laps > wf.remediation_laps, wf'.no_progress_laps = 0
      PROVE  \E p \in runs : Parent[p] = wf.package /\ p # wf.package
  <2>1. /\ wf \in CountedState
        /\ wf.remediation_laps \in Nat /\ wf.no_progress_laps \in Nat
    BY <1>1, CountedAndValid DEF TypeOK, CountedState
  <2>2. Advance
    BY <1>1, <2>1 DEF Next, vars
  <2>3. PICK a \in Request : AdvanceWith(a)
    BY <1>1, <2>2, AdvanceIsCommand
  <2>4. /\ wf'.remediation_laps = Charge(wf, a).remediation_laps
        /\ wf'.no_progress_laps = Charge(wf, a).no_progress_laps
    BY <1>1, <2>1, <2>3, OutcomeFields
  <2>5. Attempt(a) /\ a.moved_gate
    BY <1>1, <2>1, <2>4, ChargeFields
  <2>6. RecordedSuccessor(wf, a.package)
    BY <2>3, <2>5 DEF AdvanceWith, Permitted, RemediationAllowed
  <2>. QED BY <2>6 DEF RecordedSuccessor
<1>. QED BY <1>1, TypeCorrect, PTL DEF Spec, ProgressIsRecorded
-----------------------------------------------------------------------------
(* The target gate *)

(* At a passed target the only step is completion, which is free.           *)
THEOREM PassedTargetsComplete == Spec => PassedTargetOnlyCompletes
<1>1. ASSUME TypeOK, [Next]_vars, wf' # wf, wf.stage = wf.target_gate,
             wf.package \in runs, Passed(wf.package, wf.target_gate)
      PROVE  wf'.stage = "complete" /\ wf'.transitions_used = wf.transitions_used
  <2>1. Advance
    BY <1>1 DEF Next, vars
  <2>2. PICK a \in Request : AdvanceWith(a)
    BY <1>1, <2>1, AdvanceIsCommand
  <2>3. TargetPasses(wf)
    BY <1>1, <2>1, RegistryAssumption
       DEF Advance, EvidenceVerifies, TargetPasses, TypeOK, RegistryTypeOK
  <2>4. a.stage = "complete"
    BY <1>1, <2>2, <2>3 DEF AdvanceWith, Permitted, TargetAllowed
  <2>5. Commit(a) /\ wf'.transitions_used = wf.transitions_used
    BY <1>1, <2>2, <2>4, CompletionIsFree
  <2>6. wf \in CountedState
    BY <1>1, CountedAndValid DEF TypeOK
  <2>7. wf'.stage = a.stage
    BY <2>5, <2>6, ChargeType DEF Commit, Committed, CountedState
  <2>. QED BY <2>4, <2>5, <2>7
<1>. QED BY <1>1, TypeCorrect, PTL DEF Spec, PassedTargetOnlyCompletes

(* A target gate is left for remediation only over its recorded decision.   *)
THEOREM TargetsAreDecided == Spec => TargetIsDecidedBeforeRemediation
<1>1. ASSUME TypeOK, [Next]_vars, wf.stage = wf.target_gate, wf'.stage = "remediation"
      PROVE  decided[wf.package][wf.target_gate] \in {"blocked", "revise"}
  <2>1. wf.stage # "remediation"
    BY <1>1 DEF TypeOK, WorkflowState, Gates
  <2>2. Advance
    BY <1>1, <2>1 DEF Next, vars
  <2>3. PICK a \in Request : AdvanceWith(a)
    BY <1>1, <2>2, AdvanceIsCommand
  <2>4. a.stage = "remediation"
    BY <1>1, <2>1, <2>3, OutcomeFields
  <2>. QED BY <1>1, <2>1, <2>3, <2>4
           DEF AdvanceWith, Permitted, RemediationAllowed, FindingDecidedAtTarget
<1>. QED BY <1>1, TypeCorrect, PTL DEF Spec, TargetIsDecidedBeforeRemediation
-----------------------------------------------------------------------------
(* The workflow under supervisors                                          *)

(* One more transition than the state had, none for a completion, or none   *)
(* because none was left.                                                   *)
Counted(b, c) ==
  \/ c.transitions_used = b.transitions_used + (IF c.stage = "complete" THEN 0 ELSE 1)
  \/ BudgetStop(b, c)

(* The host drives a review stage itself only when the review was signed.   *)
Signed(m) ==
  m.mode = "deterministic" /\ m.before.stage \in DOMAIN ReviewGateTransitions
    => m.before.stage \in attested

(* An agent's proposal was parked if it needed to be. *)
Unpromoted(m) ==
  AgentRouted(m) /\ m.before.stage \in DOMAIN ReviewGateTransitions
    => m.proposal.stage # ReviewGateTransitions[m.before.stage]

(* What a supervisor at work holds in memory, step by step of its cycle.    *)
AtWork(m) ==
  /\ m.before \in WorkflowState /\ m.proposal \in WorkflowState
  /\ ValidState(m.before) /\ ValidState(m.proposal)
  /\ m.before.status \notin StopStatuses
  /\ m.left >= 1
  /\ ~m.asked => m.left = Remaining(m.before)
  /\ Signed(m)
  /\ m.at \in {"check", "apply", "write"} =>
       Counted(m.before, m.proposal) /\ Unpromoted(m)

(* The state file, what callers of `workflow advance` are about to write,   *)
(* and the supervisors with their lock and their report.                    *)
StateInv == TypeOK /\ ValidState(wf) /\ StageIsEarned

CallersInv ==
  /\ pending \in [Callers -> WorkflowState \cup {NoState}]
  /\ \A c \in Callers : pending[c] # NoState => ValidState(pending[c])

Reports == {"none", "running", "stopped", "failed", "exhausted"}

SupervisorsInv ==
  /\ holder \in Supervisors \cup {Nobody}
  /\ sup \in [Supervisors -> Memory]
  /\ attested \subseteq DOMAIN ReviewGateTransitions
  /\ report \in Reports
  /\ \A s \in Supervisors :
       sup[s].at # "idle" => holder = s /\ report = "running" /\ AtWork(sup[s])

IInv == StateInv /\ CallersInv /\ SupervisorsInv
-----------------------------------------------------------------------------
(* What one command does to a state, whoever holds it *)

LEMMA StageTables ==
  /\ DOMAIN ReviewGateTransitions \subseteq Stages
  /\ DOMAIN ReviewGateTransitions \cap DeterministicStages = {}
  /\ \A s \in DOMAIN ReviewGateTransitions :
       /\ s \in ReviewStages /\ s # "complete"
       /\ ReviewGateTransitions[s] \in Gates /\ ReviewGateTransitions[s] \in ReviewStages
       /\ ReviewGateTransitions[s] # s /\ ReviewGateTransitions[s] # "complete"
BY DEF ReviewGateTransitions, Stages, ResearchStages, PaperStages, RiskStages,
       DeterministicStages, Gates, ReviewStages

LEMMA AdvancedType ==
  ASSUME NEW w \in CountedState, NEW a \in Request
  PROVE  Advanced(w, a) \in CountedState
<1>1. w \in CountedState /\ ChargeTransition(w, a) \in CountedState /\ Charge(w, a) \in CountedState
  BY ChargeType
<1>2. {"transition_budget", "remediation_budget", "no_progress", "reviewer"} \subseteq Blockers
  BY DEF Blockers
<1>3. EffectiveReviewer(w, a) \in Principals \cup {NoReviewer}
  BY DEF EffectiveReviewer, Request, CountedState
<1>4. Block(Charge(w, a), "reviewer") \in CountedState
  BY <1>1, <1>2, BlockType
<1>5. [Block(Charge(w, a), "reviewer") EXCEPT !.reviewer = EffectiveReviewer(w, a)] \in CountedState
  BY <1>3, <1>4 DEF CountedState
<1>6. Committed(w, a) \in CountedState
  BY CommittedType
<1>7. /\ Block(w, "transition_budget") \in CountedState
      /\ Block(ChargeTransition(w, a), "remediation_budget") \in CountedState
      /\ Block(Charge(w, a), "no_progress") \in CountedState
  BY <1>1, <1>2, BlockType
<1>. QED BY <1>5, <1>6, <1>7 DEF Advanced

-----------------------------------------------------------------------------
(* Where proposals and the states callers write come from *)

LEMMA SuccessorFacts ==
  ASSUME RegistryTypeOK, NEW w \in WorkflowState, NEW o \in Successors(w)
  PROVE  o \in WorkflowState /\ ValidState(o)
<1>1. PICK a \in Asked(w) : Permitted(w, a) /\ o = Advanced(w, a)
  BY DEF Successors
<1>2. a \in Request
  BY <1>1, RequestType DEF Asked
<1>3. o \in CountedState
  BY <1>1, <1>2, AdvancedType, CountedAndValid
<1>4. ValidState(o)
  BY DEF Successors
<1>. QED BY <1>3, <1>4, CountedAndValid

LEMMA CommandIsRequest ==
  ASSUME NEW stage \in Stages, NEW status \in Statuses
  PROVE  Command(stage, status) \in Request
BY DEF Command, Request

LEMMA DeterministicFacts ==
  ASSUME NEW w \in WorkflowState, NEW o \in DeterministicOutcome(w), ValidState(o)
  PROVE  o \in WorkflowState
<1>1. /\ w.stage \in Stages
      /\ {"in_progress", "complete", "killed", "blocked"} \subseteq Statuses
      /\ {"research", "complete", "paper_prepare", "risk_prepare"} \subseteq Stages
      /\ \A stage \in DOMAIN ReviewGateTransitions : ReviewGateTransitions[stage] \in Stages
  BY StageTables, PolicyFacts
     DEF WorkflowState, Statuses, Stages, ResearchStages, PaperStages, RiskStages
<1>2. \E stage \in Stages, status \in Statuses : o \in AdvancesTo(w, Command(stage, status))
  <2>1. CASE w.stage = "preflight"
    BY <1>1, <2>1 DEF DeterministicOutcome
  <2>2. CASE w.stage # "preflight" /\ w.stage \in DOMAIN ReviewGateTransitions
    <3>1. o \in AdvancesTo(w, Command(ReviewGateTransitions[w.stage], "in_progress"))
      BY <2>2 DEF DeterministicOutcome
    <3>. QED BY <1>1, <2>2, <3>1
  <2>3. CASE w.stage # "preflight" /\ w.stage \notin DOMAIN ReviewGateTransitions
    <3>1. \/ o \in AdvancesTo(w, Command("complete", "complete"))
          \/ o \in AdvancesTo(w, Command("paper_prepare", "in_progress"))
          \/ o \in AdvancesTo(w, Command("risk_prepare", "in_progress"))
          \/ o \in AdvancesTo(w, Command(w.stage, "killed"))
          \/ o \in AdvancesTo(w, Command(w.stage, "blocked"))
      BY <2>3 DEF DeterministicOutcome
    <3>. QED BY <1>1, <3>1
  <2>. QED BY <2>1, <2>2, <2>3
<1>3. PICK a \in Request : Permitted(w, a) /\ o = Advanced(w, a)
  BY <1>2, CommandIsRequest DEF AdvancesTo
<1>. QED BY <1>3, AdvancedType, CountedAndValid
-----------------------------------------------------------------------------
(* The memory of a supervisor and its lock *)

LEMMA IdleType == Idle \in Memory /\ Idle.at = "idle"
BY WorkflowAssumption DEF Idle, Memory, Steps, Modes

(* A signature is never taken back. *)
LEMMA WorkGoesOn ==
  ASSUME NEW m, AtWork(m), attested \subseteq attested'
  PROVE  AtWork(m)'
<1>1. Signed(m)'
  BY DEF AtWork, Signed
<1>. QED BY <1>1 DEF AtWork

LEMMA SupervisorsStill ==
  ASSUME SupervisorsInv, UNCHANGED <<holder, sup, report>>,
         attested \subseteq attested', attested' \subseteq DOMAIN ReviewGateTransitions
  PROVE  SupervisorsInv'
<1>1. ASSUME NEW s \in Supervisors, sup'[s].at # "idle"
      PROVE  holder' = s /\ report' = "running" /\ AtWork(sup[s])'
  <2>1. PICK m : m = sup[s]
    OBVIOUS
  <2>2. AtWork(m)'
    BY <1>1, <2>1, WorkGoesOn DEF SupervisorsInv
  <2>. QED BY <1>1, <2>1, <2>2 DEF SupervisorsInv
<1>. QED BY <1>1 DEF SupervisorsInv

(* The supervisor that holds the lock takes a step in memory.               *)
LEMMA SupervisorMoves ==
  ASSUME SupervisorsInv, NEW s \in Supervisors, NEW m \in Memory, AtWork(m),
         InMemory(s, m), holder' = s, report' = "running", attested' = attested,
         holder \in {s, Nobody}
  PROVE  SupervisorsInv'
<1>1. ASSUME NEW t \in Supervisors, t # s
      PROVE  sup'[t].at = "idle"
  BY <1>1, SupervisorAssumption DEF SupervisorsInv, InMemory
<1>2. sup'[s] = m /\ sup' \in [Supervisors -> Memory]
  BY DEF SupervisorsInv, InMemory
<1>3. AtWork(m)'
  BY WorkGoesOn
<1>. QED BY <1>1, <1>2, <1>3 DEF SupervisorsInv, Reports

LEMMA SupervisorReleases ==
  ASSUME SupervisorsInv, NEW s \in Supervisors, sup[s].at # "idle",
         NEW status \in Reports, Release(s, status), attested' = attested
  PROVE  SupervisorsInv'
<1>1. ASSUME NEW t \in Supervisors
      PROVE  sup'[t].at = "idle"
  BY <1>1, IdleType DEF SupervisorsInv, Release, InMemory
<1>. QED BY <1>1, IdleType DEF SupervisorsInv, Release, InMemory

(* A cycle begins on a valid state that is not at a stop.                   *)
LEMMA CycleBegins ==
  ASSUME NEW m \in Memory, NEW w \in WorkflowState, ValidState(w), w.status \notin StopStatuses,
         NEW left \in 1..(MaxTransitions + 1), ~m.asked => left = Remaining(w)
  PROVE  Cycle(m, w, left) \in Memory /\ AtWork(Cycle(m, w, left))
<1>. DEFINE n == Cycle(m, w, left)
            mode == ModeOf(m.auto, w)
<1>1. mode \in Modes
  BY DEF ModeOf, Modes
<1>2. mode = "deterministic" => w.stage \in DeterministicStages \cup attested
  BY DEF ModeOf, DrivenByHost
<1>. HIDE DEF mode
<1>3. n = [m EXCEPT !.at = "drive", !.left = left, !.before = w, !.proposal = w,
                    !.mode = mode, !.failed = FALSE]
  BY DEF Cycle, mode
<1>4. /\ n \in Memory /\ n.at = "drive" /\ n.left = left /\ n.before = w /\ n.proposal = w
      /\ n.mode = mode /\ n.asked = m.asked
  <2>1. left \in 0..(MaxTransitions + 1) /\ "drive" \in Steps
    BY WorkflowAssumption DEF Steps
  <2>2. n \in Memory
    BY <1>1, <1>3, <2>1 DEF Memory
  <2>. QED BY <1>3, <2>2 DEF Memory
<1>. HIDE DEF n
<1>5. Signed(n)
  BY <1>2, <1>4, StageTables DEF Signed
<1>6. n.left >= 1
  BY <1>4
<1>7. AtWork(n)
  BY <1>4, <1>5, <1>6 DEF AtWork
<1>. QED BY <1>4, <1>7 DEF n
-----------------------------------------------------------------------------
(* The steps of a cycle *)

LEMMA StartKeeps ==
  ASSUME IInv, NEW s \in Supervisors, Start(s)
  PROVE  SupervisorsInv'
<1>1. PICK auto \in BOOLEAN, asked \in BOOLEAN :
        \E left \in (IF asked THEN 1..(Remaining(wf) - 1) ELSE {Remaining(wf)}) :
          InMemory(s, Cycle([Idle EXCEPT !.auto = auto, !.asked = asked], wf, left))
  BY DEF Start
<1>2. PICK left \in (IF asked THEN 1..(Remaining(wf) - 1) ELSE {Remaining(wf)}) :
        InMemory(s, Cycle([Idle EXCEPT !.auto = auto, !.asked = asked], wf, left))
  BY <1>1
<1>. DEFINE i == [Idle EXCEPT !.auto = auto, !.asked = asked]
<1>3. i \in Memory /\ i.asked = asked
  BY IdleType DEF Memory
<1>4. PICK w \in WorkflowState : w = wf /\ ValidState(w) /\ w.status \notin StopStatuses
  BY DEF IInv, StateInv, TypeOK, Start
<1>5. left \in 1..(MaxTransitions + 1) /\ (~asked => left = Remaining(w))
  <2>1. w.transitions_used \in 0..MaxTransitions /\ MaxTransitions \in Nat
    BY WorkflowAssumption DEF WorkflowState
  <2>2. Remaining(wf) = Remaining(w)
    BY <1>4
  <2>3. (asked => left \in 1..(Remaining(w) - 1)) /\ (~asked => left = Remaining(w))
    BY <2>2
  <2>. QED BY <2>1, <2>3 DEF Remaining
<1>. HIDE DEF i
<1>6. Cycle(i, w, left) \in Memory /\ AtWork(Cycle(i, w, left))
  BY <1>3, <1>4, <1>5, CycleBegins
<1>7. InMemory(s, Cycle(i, w, left))
  BY <1>2, <1>4 DEF i
<1>. QED BY <1>6, <1>7, SupervisorMoves DEF Start, LockFree, IInv

(* Parking changes the stage and the status, and the review keeps its       *)
(* reviewer.                                                                *)
LEMMA ParkedFacts ==
  ASSUME NEW m \in Memory, m.before \in WorkflowState, NEW o \in WorkflowState,
         ValidState(o)
  PROVE  /\ Parked(m, o) \in WorkflowState /\ ValidState(Parked(m, o))
         /\ AgentRouted(m) /\ m.before.stage \in DOMAIN ReviewGateTransitions
              => Parked(m, o).stage # ReviewGateTransitions[m.before.stage]
<1>1. CASE Parked(m, o) = o
            /\ ~(/\ AgentRouted(m)
                 /\ m.before.stage \in DOMAIN ReviewGateTransitions
                 /\ o.stage = ReviewGateTransitions[m.before.stage])
  BY <1>1
<1>2. CASE /\ Parked(m, o) = [o EXCEPT !.stage = m.before.stage, !.status = "waiting",
                                      !.blockers = "reported"]
           /\ m.before.stage \in DOMAIN ReviewGateTransitions
           /\ o.stage = ReviewGateTransitions[m.before.stage]
  <2>1. "waiting" \in Statuses /\ "reported" \in Blockers
    BY DEF Statuses, Blockers
  <2>2. m.before.stage \in Stages
    BY DEF WorkflowState
  <2>3. /\ Parked(m, o) \in WorkflowState
        /\ Parked(m, o).stage = m.before.stage /\ Parked(m, o).status = "waiting"
        /\ Parked(m, o).blockers = "reported"
        /\ Parked(m, o).transitions_used = o.transitions_used
        /\ Parked(m, o).remediation_laps = o.remediation_laps
        /\ Parked(m, o).no_progress_laps = o.no_progress_laps
        /\ Parked(m, o).reviewer = o.reviewer
    BY <1>2, <2>1, <2>2 DEF WorkflowState
  <2>4. m.before.stage # "complete" /\ Independent(o.reviewer)
    BY <1>2, StageTables DEF ValidState
  <2>5. ValidState(Parked(m, o))
    BY <2>3, <2>4 DEF ValidState
  <2>. QED BY <1>2, <2>3, <2>5, StageTables
<1>. QED BY <1>1, <1>2 DEF Parked

(* Whatever state file a driver left, or the host wrote, it is taken on     *)
(* only as it was parked and validated.                                     *)
LEMMA DriveKeeps ==
  ASSUME IInv, NEW s \in Supervisors, DriverExits(s) \/ RunDeterministic(s)
  PROVE  SupervisorsInv'
<1>1. PICK m \in Memory : m = sup[s]
  BY DEF IInv, SupervisorsInv
<1>2. /\ AtWork(m) /\ m.at = "drive" /\ holder = s /\ report = "running"
      /\ holder' = holder /\ report' = report /\ attested' = attested
  BY <1>1 DEF RunDeterministic, DriverExits, IInv, SupervisorsInv
<1>3. m.before \in WorkflowState
  BY <1>2 DEF AtWork
<1>4. \E o \in WorkflowState, failed \in BOOLEAN :
        ValidState(o) /\ Validates(m, o) /\ InMemory(s, Validated(m, o, failed))
  <2>1. CASE DriverExits(s)
    BY <1>1, <2>1 DEF DriverExits, Proposals
  <2>2. CASE RunDeterministic(s)
    BY <1>1, <1>3, <2>2, DeterministicFacts DEF RunDeterministic
  <2>. QED BY <2>1, <2>2
<1>5. PICK o \in WorkflowState, failed \in BOOLEAN :
        ValidState(o) /\ Validates(m, o) /\ InMemory(s, Validated(m, o, failed))
  BY <1>4
<1>. DEFINE p == Parked(m, o)
            n == [m EXCEPT !.at = "check", !.proposal = p, !.failed = failed]
<1>6. /\ p \in WorkflowState /\ ValidState(p)
      /\ AgentRouted(m) /\ m.before.stage \in DOMAIN ReviewGateTransitions
           => p.stage # ReviewGateTransitions[m.before.stage]
      /\ Counted(m.before, p)
  BY <1>3, <1>5, ParkedFacts DEF Validates, SupervisedTransition, Counted
<1>7. InMemory(s, n)
  BY <1>5 DEF Validated
<1>. HIDE DEF p
<1>8. /\ n \in Memory /\ n.at = "check" /\ n.before = m.before /\ n.mode = m.mode
      /\ n.left = m.left /\ n.asked = m.asked /\ n.proposal = p
  BY <1>6 DEF Memory, Steps
<1>. HIDE DEF n
<1>9. AtWork(n)
  BY <1>2, <1>6, <1>8 DEF AtWork, Signed, Unpromoted, AgentRouted
<1>. QED BY <1>2, <1>7, <1>8, <1>9, SupervisorMoves DEF IInv

(* A proposal that was validated stays what it is on the way to its write.  *)
LEMMA AcceptKeeps ==
  ASSUME IInv, NEW s \in Supervisors, Accept(s) \/ ApplyPatch(s)
  PROVE  SupervisorsInv'
<1>1. PICK m \in Memory : m = sup[s]
  BY DEF IInv, SupervisorsInv
<1>2. /\ AtWork(m) /\ m.at \in {"check", "apply"} /\ holder = s /\ report = "running"
      /\ holder' = holder /\ report' = report /\ attested' = attested
  BY <1>1 DEF Accept, ApplyPatch, IInv, SupervisorsInv
<1>3. PICK at \in {"apply", "write"} : InMemory(s, [m EXCEPT !.at = at])
  BY <1>1 DEF Accept, ApplyPatch
<1>. DEFINE n == [m EXCEPT !.at = at]
<1>4. /\ n \in Memory /\ n.at = at /\ n.before = m.before /\ n.mode = m.mode
      /\ n.left = m.left /\ n.asked = m.asked /\ n.proposal = m.proposal
  BY DEF Memory, Steps
<1>5. InMemory(s, n)
  BY <1>3
<1>. HIDE DEF n
<1>6. AtWork(n)
  BY <1>2, <1>4 DEF AtWork, Signed, Unpromoted, AgentRouted
<1>. QED BY <1>2, <1>4, <1>5, <1>6, SupervisorMoves DEF IInv

(* The budget of cycles at a write: unless the write ends the execute, one  *)
(* transition and one cycle were spent.                                     *)
LEMMA CyclesLeft ==
  ASSUME NEW m \in Memory, AtWork(m), m.at = "write",
         m.proposal.status \notin StopStatuses
  PROVE  /\ m.proposal.transitions_used = m.before.transitions_used + 1
         /\ ~m.asked => m.left - 1 = Remaining(m.proposal) /\ m.left > 1
<1>1. /\ m.before.transitions_used \in 0..MaxTransitions
      /\ m.proposal.transitions_used \in 0..MaxTransitions
      /\ MaxTransitions \in Nat
  BY WorkflowAssumption DEF AtWork, WorkflowState
<1>2. m.proposal.stage # "complete"
  BY DEF AtWork, ValidState, StopStatuses
<1>3. ~BudgetStop(m.before, m.proposal)
  BY DEF BudgetStop, StopStatuses
<1>4. m.proposal.transitions_used = m.before.transitions_used + 1
  BY <1>1, <1>2, <1>3 DEF AtWork, Counted
<1>5. ~m.asked => m.left = MaxTransitions - m.before.transitions_used + 1
  BY DEF AtWork, Remaining
<1>. QED BY <1>1, <1>4, <1>5 DEF Remaining

LEMMA WriteKeeps ==
  ASSUME IInv, NEW s \in Supervisors, Write(s)
  PROVE  SupervisorsInv'
<1>1. PICK m \in Memory : m = sup[s]
  BY DEF IInv, SupervisorsInv
<1>2. /\ AtWork(m) /\ m.at = "write" /\ holder = s /\ report = "running"
      /\ wf' = m.proposal /\ attested' = attested
  BY <1>1 DEF Write, IInv, SupervisorsInv
<1>3. CASE \E status \in Reports : Release(s, status)
  BY <1>1, <1>2, <1>3, SupervisorReleases DEF IInv
<1>4. CASE /\ m.proposal.status \notin StopStatuses /\ m.left # 1
           /\ InMemory(s, Cycle(m, m.proposal, m.left - 1))
           /\ UNCHANGED <<holder, report>>
  <2>1. m.left - 1 \in 1..(MaxTransitions + 1)
    BY <1>2, <1>4, WorkflowAssumption DEF AtWork, Memory
  <2>2. ~m.asked => m.left - 1 = Remaining(m.proposal)
    BY <1>2, <1>4, CyclesLeft
  <2>3. m.proposal \in WorkflowState /\ ValidState(m.proposal)
    BY <1>2 DEF AtWork
  <2>. DEFINE n == Cycle(m, m.proposal, m.left - 1)
  <2>4. n \in Memory /\ AtWork(n)
    BY <1>4, <2>1, <2>2, <2>3, CycleBegins
  <2>5. InMemory(s, n)
    BY <1>4
  <2>. HIDE DEF n
  <2>. QED BY <1>2, <1>4, <2>4, <2>5, SupervisorMoves DEF IInv
<1>5. \/ Release(s, "failed") \/ Release(s, "stopped") \/ Release(s, "exhausted")
      \/ /\ m.proposal.status \notin StopStatuses /\ m.left # 1
         /\ InMemory(s, Cycle(m, m.proposal, m.left - 1))
         /\ UNCHANGED <<holder, report>>
  BY <1>1, <1>2 DEF Write
<1>. QED BY <1>3, <1>4, <1>5 DEF Reports

LEMMA EndKeeps ==
  ASSUME IInv, NEW s \in Supervisors, Fail(s) \/ WriteRefused(s) \/ Crash(s)
  PROVE  SupervisorsInv'
<1>1. sup[s].at # "idle" /\ attested' = attested
  BY DEF Fail, WriteRefused, Crash
<1>2. PICK status \in Reports : Release(s, status)
  BY DEF Fail, WriteRefused, Crash, IInv, SupervisorsInv, Reports
<1>. QED BY <1>1, <1>2, SupervisorReleases DEF IInv

LEMMA SupervisorsStep ==
  ASSUME IInv, SupervisorNext
  PROVE  SupervisorsInv'
<1>1. ASSUME NEW s \in Supervisors, StartAtStop(s)
      PROVE  SupervisorsInv'
  <2>1. ASSUME NEW t \in Supervisors
        PROVE  sup'[t].at = "idle"
    BY <1>1, <2>1, SupervisorAssumption
       DEF StartAtStop, LockFree, IInv, SupervisorsInv
  <2>. QED BY <1>1, <2>1 DEF StartAtStop, IInv, SupervisorsInv, Reports
<1>2. ASSUME NEW s \in Supervisors, DecideGate(s)
      PROVE  SupervisorsInv'
  BY <1>2, SupervisorsStill DEF DecideGate, supervisorVars, IInv, SupervisorsInv
<1>3. ASSUME NEW s \in Supervisors, Start(s) \/ Step(s) \/ Crash(s)
      PROVE  SupervisorsInv'
  BY <1>2, <1>3, StartKeeps, DriveKeeps, AcceptKeeps, WriteKeeps, EndKeeps DEF Step
<1>4. ASSUME NEW c \in Callers, BeginAdvance(c) \/ FinishAdvance(c)
      PROVE  SupervisorsInv'
  BY <1>4, SupervisorsStill DEF BeginAdvance, FinishAdvance, IInv, SupervisorsInv
<1>5. ASSUME NEW stage \in DOMAIN ReviewGateTransitions, Attest(stage)
      PROVE  SupervisorsInv'
  BY <1>5, SupervisorsStill DEF Attest, IInv, SupervisorsInv
<1>6. CASE RegistryNext /\ UNCHANGED <<wf, supervisorVars>>
  BY <1>6, SupervisorsStill DEF supervisorVars, IInv, SupervisorsInv
<1>. QED BY <1>1, <1>3, <1>4, <1>5, <1>6 DEF SupervisorNext
-----------------------------------------------------------------------------
(* The state file and its callers *)

LEMMA StateWritten ==
  ASSUME StateInv, UNCHANGED registryVars, wf' \in WorkflowState, ValidState(wf'),
         EvidenceVerifies(wf')
  PROVE  StateInv'
<1>1. RegistryTypeOK'
  BY DEF StateInv, TypeOK, RegistryTypeOK, registryVars
<1>2. StageIsEarned'
  BY WriteIsEarned
<1>. QED BY <1>1, <1>2 DEF StateInv, TypeOK, ValidState, Independent

LEMMA StateUnderRegistry ==
  ASSUME StateInv, [RegistryNext]_registryVars, UNCHANGED wf
  PROVE  StateInv'
<1>1. TypeOK'
  BY RegistryStepType DEF StateInv, TypeOK
<1>2. StageIsEarned'
  BY RegistryKeepsEarned DEF StateInv
<1>. QED BY <1>1, <1>2 DEF StateInv, ValidState, Independent

(* Each step leaves the registry to its own steps, or writes the state.     *)
LEMMA RegistryStep ==
  ASSUME IInv, SupervisorNext
  PROVE  [RegistryNext]_registryVars
<1>1. ASSUME NEW s \in Supervisors, DecideGate(s)
      PROVE  RegistryNext
  <2>1. PICK p, g : RecordDecision(p, g) /\ g \in Gates
    BY <1>1 DEF DecideGate
  <2>2. p \in Packages
    BY <2>1 DEF RecordDecision, IInv, StateInv, TypeOK, RegistryTypeOK
  <2>. QED BY <2>1, <2>2 DEF RegistryNext
<1>2. ASSUME NEW s \in Supervisors,
             Start(s) \/ StartAtStop(s) \/ DriverExits(s) \/ RunDeterministic(s)
               \/ Accept(s) \/ ApplyPatch(s) \/ Fail(s) \/ Write(s) \/ WriteRefused(s) \/ Crash(s)
      PROVE  UNCHANGED registryVars
  BY <1>2 DEF Start, StartAtStop, DriverExits, RunDeterministic, Accept, ApplyPatch,
              Fail, Write, WriteRefused, Crash, vars
<1>3. ASSUME NEW c \in Callers, BeginAdvance(c) \/ FinishAdvance(c)
      PROVE  UNCHANGED registryVars
  BY <1>3 DEF BeginAdvance, FinishAdvance, vars
<1>4. ASSUME NEW stage \in DOMAIN ReviewGateTransitions, Attest(stage)
      PROVE  UNCHANGED registryVars
  BY <1>4 DEF Attest, vars
<1>. QED BY <1>1, <1>2, <1>3, <1>4 DEF SupervisorNext, Step

LEMMA StateStep ==
  ASSUME IInv, SupervisorNext
  PROVE  StateInv'
<1>1. ASSUME NEW s \in Supervisors, Write(s)
      PROVE  StateInv'
  <2>1. PICK m \in Memory : m = sup[s]
    BY DEF IInv, SupervisorsInv
  <2>2. /\ AtWork(m) /\ wf' = m.proposal /\ EvidenceVerifies(m.proposal)
        /\ UNCHANGED registryVars
    BY <1>1, <2>1 DEF Write, IInv, SupervisorsInv
  <2>3. m.proposal \in WorkflowState /\ ValidState(m.proposal)
    BY <2>2 DEF AtWork
  <2>. QED BY <2>2, <2>3, StateWritten DEF IInv
<1>2. ASSUME NEW c \in Callers, FinishAdvance(c)
      PROVE  StateInv'
  <2>1. PICK o : o = pending[c]
    OBVIOUS
  <2>2. o \in WorkflowState /\ ValidState(o) /\ UNCHANGED registryVars
    BY <1>2, <2>1 DEF FinishAdvance, IInv, CallersInv
  <2>3. CASE EvidenceVerifies(o)
    BY <1>2, <2>1, <2>2, <2>3, StateWritten DEF FinishAdvance, IInv
  <2>4. CASE ~EvidenceVerifies(o)
    BY <1>2, <2>1, <2>2, <2>4, StateUnderRegistry DEF FinishAdvance, IInv
  <2>. QED BY <2>3, <2>4
<1>3. CASE UNCHANGED wf
  BY <1>3, RegistryStep, StateUnderRegistry DEF IInv
<1>4. ASSUME NEW s \in Supervisors,
             Start(s) \/ StartAtStop(s) \/ DriverExits(s) \/ DecideGate(s)
               \/ RunDeterministic(s) \/ Accept(s) \/ ApplyPatch(s) \/ Fail(s)
               \/ WriteRefused(s) \/ Crash(s)
      PROVE  UNCHANGED wf
  BY <1>4 DEF Start, StartAtStop, DriverExits, DecideGate, RunDeterministic, Accept,
              ApplyPatch, Fail, WriteRefused, Crash, vars
<1>5. ASSUME NEW c \in Callers, BeginAdvance(c)
      PROVE  UNCHANGED wf
  BY <1>5 DEF BeginAdvance, vars
<1>6. ASSUME NEW stage \in DOMAIN ReviewGateTransitions, Attest(stage)
      PROVE  UNCHANGED wf
  BY <1>6 DEF Attest, vars
<1>. QED BY <1>1, <1>2, <1>3, <1>4, <1>5, <1>6 DEF SupervisorNext, Step

LEMMA CallersStep ==
  ASSUME IInv, SupervisorNext
  PROVE  CallersInv'
<1>1. ASSUME NEW c \in Callers, BeginAdvance(c)
      PROVE  CallersInv'
  <2>1. PICK o \in Successors(wf) : pending' = [pending EXCEPT ![c] = o]
    BY <1>1 DEF BeginAdvance
  <2>2. o \in WorkflowState /\ ValidState(o)
    BY SuccessorFacts DEF IInv, StateInv, TypeOK
  <2>. QED BY <2>1, <2>2 DEF IInv, CallersInv
<1>2. ASSUME NEW c \in Callers, FinishAdvance(c)
      PROVE  CallersInv'
  BY <1>2 DEF FinishAdvance, IInv, CallersInv
<1>3. CASE UNCHANGED pending
  BY <1>3 DEF IInv, CallersInv
<1>4. ASSUME NEW s \in Supervisors, Start(s) \/ StartAtStop(s) \/ Step(s) \/ Crash(s)
      PROVE  UNCHANGED pending
  BY <1>4 DEF Step, Start, StartAtStop, DriverExits, DecideGate, RunDeterministic, Accept,
              ApplyPatch, Fail, Write, WriteRefused, Crash, supervisorVars
<1>5. ASSUME NEW stage \in DOMAIN ReviewGateTransitions, Attest(stage)
      PROVE  UNCHANGED pending
  BY <1>5 DEF Attest
<1>6. CASE RegistryNext /\ UNCHANGED <<wf, supervisorVars>>
  BY <1>3, <1>6 DEF supervisorVars
<1>. QED BY <1>1, <1>2, <1>3, <1>4, <1>5, <1>6 DEF SupervisorNext
-----------------------------------------------------------------------------
(* The theorems *)

LEMMA SupervisorInitInv == SupervisorInit => IInv
<1>. SUFFICES ASSUME SupervisorInit
              PROVE  IInv
  OBVIOUS
<1>1. StateInv
  BY InitType, InitValid, InitEarned DEF SupervisorInit, StateInv, WrittenStateIsValid
<1>2. CallersInv
  BY DEF SupervisorInit, CallersInv
<1>3. SupervisorsInv
  BY IdleType DEF SupervisorInit, SupervisorsInv, Reports
<1>. QED BY <1>1, <1>2, <1>3 DEF IInv

LEMMA SupervisorStepInv ==
  ASSUME IInv, [SupervisorNext]_allVars
  PROVE  IInv'
<1>1. CASE SupervisorNext
  BY <1>1, StateStep, CallersStep, SupervisorsStep DEF IInv
<1>2. CASE UNCHANGED allVars
  <2>1. UNCHANGED <<registryVars, wf, holder, sup, pending, attested, report>>
    BY <1>2 DEF allVars, vars, supervisorVars
  <2>2. StateInv'
    BY <2>1, StateUnderRegistry DEF IInv
  <2>3. CallersInv'
    BY <2>1 DEF IInv, CallersInv
  <2>4. SupervisorsInv'
    BY <2>1, SupervisorsStill DEF IInv, SupervisorsInv
  <2>. QED BY <2>2, <2>3, <2>4 DEF IInv
<1>. QED BY <1>1, <1>2

(* What holds of the state file, of the callers and of every supervisor at  *)
(* work between any two steps of `workflow execute` and `workflow advance`. *)
THEOREM SupervisedInvariant == SupervisorSpec => []IInv
<1>. QED BY SupervisorInitInv, SupervisorStepInv, PTL DEF SupervisorSpec

(* Types, and that only the holder of <state>.lock is in a cycle            *)
(* (supervise_workflow under workflow_lock).                                *)
THEOREM SupervisedTypes == SupervisorSpec => []SupervisorTypeOK
<1>1. IInv => SupervisorTypeOK
  BY DEF IInv, StateInv, CallersInv, SupervisorsInv, Reports, SupervisorTypeOK
<1>. QED BY <1>1, SupervisedInvariant, PTL

LEMMA SupervisedRegistry == SupervisorSpec => RegistrySpec
<1>1. SupervisorInit => RegistryInit
  BY DEF SupervisorInit, Init
<1>2. IInv /\ [SupervisorNext]_allVars => [RegistryNext]_registryVars
  BY RegistryStep DEF allVars, vars
<1>. QED BY <1>1, <1>2, SupervisedInvariant, PTL DEF SupervisorSpec, RegistrySpec

(* However supervisors, callers without the lock and deaths interleave, and *)
(* although one writes over the other, the state on disk stands only where  *)
(* its exact package's record allows (write_workflow_state_atomic).         *)
THEOREM SupervisedStagesAreEarned == SupervisorSpec => []StageIsEarned
<1>1. IInv => StageIsEarned
  BY DEF IInv, StateInv
<1>. QED BY <1>1, SupervisedInvariant, PTL

(* Nor does any of them leave an owner, or nobody, as reviewer.             *)
THEOREM SupervisedReviewsAreIndependent == SupervisorSpec => []ReviewIsIndependent
<1>1. IInv => ReviewIsIndependent
  BY DEF IInv, StateInv, ValidState, Independent, ReviewIsIndependent
<1>. QED BY <1>1, SupervisedInvariant, PTL

(* And what a supervisor or a caller completes has passed its target and    *)
(* every gate before it.                                                    *)
THEOREM SupervisedCompletionsAreEarned == SupervisorSpec => []CompletionIsEarned
<1>1. IInv /\ PassesAreEarned => CompletionIsEarned
  BY EarnedCompletion DEF IInv, StateInv
<1>. QED BY <1>1, SupervisedInvariant, SupervisedRegistry, RegistryPassesAreEarned, PTL

(* While a supervisor is about to write, it alone changes the state together*)
(* with its memory, or reports that the cycles ran out: that is its Write.  *)
LEMMA WritesAreItsOwn ==
  ASSUME IInv, [SupervisorNext]_allVars, NEW s \in Supervisors, sup[s].at = "write",
         (sup'[s] # sup[s] /\ wf' # wf) \/ report' = "exhausted"
  PROVE  Write(s)
<1>0. UNCHANGED allVars => sup' = sup /\ report' = report
  BY DEF allVars, supervisorVars
<1>1. ASSUME NEW t \in Supervisors, t # s
      PROVE  sup[t].at = "idle" /\ holder = s
  BY <1>1 DEF IInv, SupervisorsInv
<1>2. holder = s /\ report = "running"
  BY DEF IInv, SupervisorsInv
<1>3. ASSUME NEW t \in Supervisors, Start(t) \/ StartAtStop(t)
      PROVE  FALSE
  BY <1>2, <1>3, SupervisorAssumption DEF Start, StartAtStop, LockFree
<1>4. ASSUME NEW t \in Supervisors, Step(t) \/ Crash(t)
      PROVE  t = s
  BY <1>1, <1>4 DEF Step, DriverExits, DecideGate, RunDeterministic, Accept, ApplyPatch,
                    Fail, Write, WriteRefused, Crash
<1>5. ~DriverExits(s) /\ ~DecideGate(s) /\ ~RunDeterministic(s) /\ ~Accept(s)
        /\ ~ApplyPatch(s) /\ ~Fail(s)
  BY DEF DriverExits, DecideGate, RunDeterministic, Accept, ApplyPatch, Fail
<1>6. ~WriteRefused(s) /\ ~Crash(s)
  BY <1>2 DEF WriteRefused, Crash, Release, vars
<1>7. ASSUME NEW c \in Callers, BeginAdvance(c) \/ FinishAdvance(c)
      PROVE  FALSE
  BY <1>2, <1>7 DEF BeginAdvance, FinishAdvance
<1>8. ASSUME NEW stage \in DOMAIN ReviewGateTransitions, Attest(stage)
      PROVE  FALSE
  BY <1>2, <1>8 DEF Attest
<1>9. ~(RegistryNext /\ UNCHANGED <<wf, supervisorVars>>)
  BY <1>2 DEF supervisorVars
<1>. QED BY <1>0, <1>2, <1>3, <1>4, <1>5, <1>6, <1>7, <1>8, <1>9 DEF SupervisorNext, Step

(* The cycles an execute grants itself suffice for any policy: each one     *)
(* that does not end at a stop spends a transition, and there is one more   *)
(* cycle than transitions left (workflow_supervisor.py:863).                *)
THEOREM CyclesSuffice == SupervisorSpec => CycleBudgetSuffices
<1>1. ASSUME IInv, [SupervisorNext]_allVars, NEW s \in Supervisors, sup[s].at = "write",
             report' = "exhausted"
      PROVE  sup[s].asked
  <2>1. PICK m \in Memory : m = sup[s]
    BY <1>1 DEF IInv, SupervisorsInv
  <2>2. AtWork(m) /\ m.at = "write" /\ report = "running"
    BY <1>1, <2>1 DEF IInv, SupervisorsInv
  <2>3. Write(s)
    BY <1>1, WritesAreItsOwn
  <2>4. m.proposal.status \notin StopStatuses /\ m.left = 1
    BY <1>1, <2>1, <2>2, <2>3 DEF Write, Release
  <2>5. ~m.asked => m.left > 1
    BY <2>2, <2>4, CyclesLeft
  <2>. QED BY <2>1, <2>4, <2>5
<1>2. IInv /\ [SupervisorNext]_allVars
        => [ \A s \in Supervisors :
               sup[s].at = "write" /\ report' = "exhausted" => sup[s].asked ]_allVars
  BY <1>1
<1>. QED BY <1>2, SupervisedInvariant, PTL DEF SupervisorSpec, CycleBudgetSuffices

(* No driver moves its own review on: a supervisor commits the gate of a    *)
(* review only when that review was signed.                                 *)
THEOREM GatesEnteredAttested == SupervisorSpec => GatesAreEnteredAttested
<1>1. ASSUME IInv, [SupervisorNext]_allVars, NEW s \in Supervisors,
             NEW stage \in DOMAIN ReviewGateTransitions,
             sup[s].at = "write", sup'[s] # sup[s], sup[s].before.stage = stage,
             wf' # wf, wf'.stage = ReviewGateTransitions[stage]
      PROVE  stage \in attested
  <2>1. PICK m \in Memory : m = sup[s]
    BY <1>1 DEF IInv, SupervisorsInv
  <2>2. AtWork(m) /\ m.at = "write" /\ m.before.stage = stage
    BY <1>1, <2>1 DEF IInv, SupervisorsInv
  <2>3. wf' = m.proposal
    BY <1>1, <2>1, WritesAreItsOwn DEF Write
  <2>4. ~AgentRouted(m)
    BY <1>1, <2>2, <2>3 DEF AtWork, Unpromoted
  <2>5. m.mode = "deterministic"
    BY <2>2, <2>4, StageTables DEF AgentRouted, Memory, Modes
  <2>. QED BY <2>2, <2>5 DEF AtWork, Signed
<1>2. IInv /\ [SupervisorNext]_allVars
        => [ \A s \in Supervisors, stage \in DOMAIN ReviewGateTransitions :
               sup[s].at = "write" /\ sup'[s] # sup[s] /\ sup[s].before.stage = stage
                 /\ wf' # wf /\ wf'.stage = ReviewGateTransitions[stage]
               => stage \in attested ]_allVars
  BY <1>1
<1>. QED BY <1>2, SupervisedInvariant, PTL DEF SupervisorSpec, GatesAreEnteredAttested
=============================================================================
