------------------------------ MODULE Workflow ------------------------------
(***************************************************************************)
(* The operational workflow state of one run (orchestration.py): the state *)
(* file `the-pass workflow advance` reads, advances and writes back, over  *)
(* the receipt ledger of GateRegistry. One Advance step is one accepted    *)
(* command: read_workflow_state with its evidence check, every refusal and *)
(* early return of advance_workflow_state in the order of the code, and    *)
(* write_workflow_state_atomic with its own check. A refused command       *)
(* changes nothing and is not a step.                                      *)
(***************************************************************************)
EXTENDS GateRegistry

CONSTANTS Contents,          \* Contents[p]: the evidence artifacts package p holds
          Blocking,          \* artifacts <<p, stem>> with a confirmed blocking finding
          Principals,        \* identities that may be named reviewer
          Owners,            \* the strategy owner and the run owner
          NoReviewer,        \* null
          MaxTransitions,    \* runtime.max_transitions
          MaxRemediationLaps,
          MaxNoProgress      \* runtime.max_consecutive_no_progress

ASSUME WorkflowAssumption ==
  /\ Contents \in [Packages -> SUBSET Stems]
  /\ Blocking \subseteq {e \in Packages \X Stems : e[2] \in Contents[e[1]]}
  /\ Owners \subseteq Principals
  /\ NoReviewer \notin Principals
  /\ MaxTransitions \in Nat \ {0}
  /\ MaxRemediationLaps \in Nat \ {0}
  /\ MaxNoProgress \in Nat \ {0}

VARIABLE wf                  \* the workflow state file

vars == <<wf, registryVars>>

(* Why a state is waiting, blocked or killed: the stop advance_workflow_state *)
(* itself decided on, or whatever the caller reported.                        *)
Blockers == {"none", "reported", "reviewer", "no_progress",
             "remediation_budget", "transition_budget"}

WorkflowState ==
  [target_gate      : Gates,
   stage            : Stages,
   status           : Statuses,
   transitions_used : 0..MaxTransitions,
   remediation_laps : 0..MaxRemediationLaps,
   no_progress_laps : 0..MaxNoProgress,
   reviewer         : Principals \cup {NoReviewer},
   package          : Packages \cup {NoPackage},
   evidence         : SUBSET (Packages \X Stems),
   blockers         : Blockers]

TypeOK == RegistryTypeOK /\ wf \in WorkflowState

(* new_workflow_state *)
NewWorkflowState(target) ==
  [target_gate |-> target, stage |-> "preflight", status |-> "in_progress",
   transitions_used |-> 0, remediation_laps |-> 0, no_progress_laps |-> 0,
   reviewer |-> NoReviewer, package |-> NoPackage, evidence |-> {},
   blockers |-> "none"]

Init == RegistryInit /\ \E target \in Gates : wf = NewWorkflowState(target)
-----------------------------------------------------------------------------
(* What a state must satisfy to be read or written *)

Independent(reviewer) == reviewer \in Principals \ Owners

(* validate_workflow_state: the relations between fields it enforces.       *)
ValidState(w) ==
  /\ w.transitions_used <= MaxTransitions
  /\ w.remediation_laps <= MaxRemediationLaps
  /\ w.no_progress_laps <= MaxNoProgress
  /\ w.status \in {"waiting", "blocked", "killed"} => w.blockers # "none"
  /\ (w.stage = "complete") = (w.status = "complete")
  /\ w.stage \in ReviewStages => Independent(w.reviewer)

(* The target is not asked for again when the run completes. *)
GatesStoodOnWithoutTarget(w) == PrerequisiteGates[w.stage]

(* The gates whose pass on the exact package the stage stands on.           *)
GatesStoodOn(w) ==
  IF w.stage = "complete" THEN {w.target_gate} ELSE PrerequisiteGates[w.stage]

(* The prerequisite gates are not looked up. *)
EvidenceVerifiesWithoutGates(w) ==
  /\ trusted
  /\ IF w.package = NoPackage
     THEN w.stage \notin RecordedStages
     ELSE /\ w.package \in made
          /\ w.stage \in RecordedStages => w.package \in runs

(* verify_workflow_evidence *)
EvidenceVerifies(w) ==
  /\ trusted
  /\ IF w.package = NoPackage
     THEN w.stage \notin RecordedStages
     ELSE /\ w.package \in made
          /\ w.stage \in RecordedStages => w.package \in runs
          /\ \A stem \in RequiredEvidence[w.stage] :
               stem \in Contents[w.package] /\ <<w.package, stem>> \in w.evidence
          /\ \A g \in GatesStoodOn(w) : Passed(w.package, g)

(* workflow_target_passes *)
TargetPasses(w) ==
  /\ w.package # NoPackage
  /\ trusted
  /\ w.package \in runs
  /\ Passed(w.package, w.target_gate)
-----------------------------------------------------------------------------
(* What a command may ask: `a` is the argument list of workflow advance *)

(* Only the first budget looked at. *)
ExhaustedTransitionsOnly(w) == w.transitions_used >= MaxTransitions

Exhausted(w) ==
  \/ w.transitions_used >= MaxTransitions
  \/ w.remediation_laps >= MaxRemediationLaps
  \/ w.no_progress_laps >= MaxNoProgress

MayAdvance(w, a) ==
  /\ w.status \notin TerminalStatuses
  /\ w.status = "blocked" => a.resume /\ ~Exhausted(w)

(* A remediation attempt, the only kind of step that spends a lap.          *)
Attempt(a) ==
  a.remediation \/ (a.stage = "remediation" /\ a.status = "in_progress")

(* A finding suffices, decided or not. *)
FindingAtTarget(w, evidence) ==
  <<w.package, FindingStem[w.target_gate]>> \in evidence \cap Blocking

(* verify_target_remediation_entry *)
FindingDecidedAtTarget(w, evidence) ==
  /\ <<w.package, FindingStem[w.target_gate]>> \in evidence \cap Blocking
  /\ trusted
  /\ w.package \in runs
  /\ decided[w.package][w.target_gate] \in {"blocked", "revise"}

(* Any package other than the current one counts as progress. *)
AnyOtherPackage(w, p) == p \notin {NoPackage, w.package}

(* verify_remediation_progress *)
RecordedSuccessor(w, p) ==
  /\ w.package # NoPackage
  /\ p \notin {NoPackage, w.package}
  /\ trusted
  /\ p \in runs
  /\ Parent[p] = w.package

RemediationAllowed(w, a) ==
  /\ a.remediation => "remediation" \in {w.stage, a.stage}
  /\ w.stage # "remediation" /\ a.stage = "remediation" =>
       /\ a.status = "in_progress"
       /\ IF w.stage = w.target_gate
          THEN FindingDecidedAtTarget(w, a.evidence)
          ELSE a.evidence \cap Blocking # {}
  /\ a.moved_gate => Attempt(a) /\ RecordedSuccessor(w, a.package)

TransitionAllowed(w, a) ==
  /\ a.stage \in Transitions[w.stage] \cup {w.stage}
  /\ (a.status = "complete") = (a.stage = "complete")

(* The check that a passed target completes is left out. *)
TargetAllowedAlsoWhenPassed(w, a) ==
  IF a.stage = "complete"
  THEN w.stage = w.target_gate /\ TargetPasses(w)
  ELSE w.stage = w.target_gate =>
         \/ a.stage = w.stage /\ a.status \in {"blocked", "killed"}
         \/ a.stage = w.stage /\ a.status = "in_progress" /\ a.resume
         \/ a.stage = "remediation" /\ a.status = "in_progress"

(* At the target gate: a passed target must complete, and one that has not  *)
(* passed may only block, be killed, resume in place or enter remediation.  *)
TargetAllowed(w, a) ==
  IF a.stage = "complete"
  THEN w.stage = w.target_gate /\ TargetPasses(w)
  ELSE w.stage = w.target_gate =>
         /\ ~TargetPasses(w)
         /\ \/ a.stage = w.stage /\ a.status \in {"blocked", "killed"}
            \/ a.stage = w.stage /\ a.status = "in_progress" /\ a.resume
            \/ a.stage = "remediation" /\ a.status = "in_progress"

Permitted(w, a) ==
  MayAdvance(w, a) /\ TransitionAllowed(w, a) /\ RemediationAllowed(w, a)
    /\ TargetAllowed(w, a)
-----------------------------------------------------------------------------
(* What the command does to the state, in the order of the early returns *)

(* Staying in a stage is free. *)
ConsumesTransitionOnMove(w, a) == a.stage \notin {w.stage, "complete"}

ConsumesTransition(w, a) == a.stage # "complete"

Block(w, why) == [w EXCEPT !.status = "blocked", !.blockers = why]

ChargeTransition(w, a) ==
  IF ConsumesTransition(w, a)
  THEN [w EXCEPT !.transitions_used = @ + 1]
  ELSE w

ChargeLap(w, a) ==
  IF Attempt(a)
  THEN [w EXCEPT !.remediation_laps = @ + 1,
                 !.no_progress_laps = IF a.moved_gate THEN 0 ELSE @ + 1]
  ELSE w

Charge(w, a) == ChargeLap(ChargeTransition(w, a), a)

(* One lap more than the policy allows. *)
NoProgressOffByOne(w, a) == Attempt(a) /\ Charge(w, a).no_progress_laps > MaxNoProgress

OutOfTransitions(w, a) == ConsumesTransition(w, a) /\ w.transitions_used >= MaxTransitions
OutOfLaps(w, a)        == Attempt(a) /\ w.remediation_laps >= MaxRemediationLaps
NoProgress(w, a)       == Attempt(a) /\ Charge(w, a).no_progress_laps >= MaxNoProgress

EffectiveReviewer(w, a) == IF a.reviewer = NoReviewer THEN w.reviewer ELSE a.reviewer
ReviewerRefused(w, a)   == a.stage \in ReviewStages /\ ~Independent(EffectiveReviewer(w, a))

Committed(w, a) ==
  [Charge(w, a) EXCEPT
     !.stage    = a.stage,
     !.status   = a.status,
     !.blockers = IF a.status \in {"waiting", "blocked", "killed"} THEN "reported" ELSE "none",
     !.reviewer = EffectiveReviewer(w, a),
     !.evidence = @ \cup a.evidence,
     !.package  = IF a.package = NoPackage THEN @ ELSE a.package]

(* Each early return of advance_workflow_state, then the step that commits. *)
StopOnTransitions(a) ==
  /\ OutOfTransitions(wf, a)
  /\ wf' = Block(wf, "transition_budget")

StopOnLaps(a) ==
  /\ ~OutOfTransitions(wf, a) /\ OutOfLaps(wf, a)
  /\ wf' = Block(ChargeTransition(wf, a), "remediation_budget")

StopOnNoProgress(a) ==
  /\ ~OutOfTransitions(wf, a) /\ ~OutOfLaps(wf, a) /\ NoProgress(wf, a)
  /\ wf' = Block(Charge(wf, a), "no_progress")

WithinBudgets(a) ==
  ~OutOfTransitions(wf, a) /\ ~OutOfLaps(wf, a) /\ ~NoProgress(wf, a)

RefuseReviewer(a) ==
  /\ WithinBudgets(a) /\ ReviewerRefused(wf, a)
  /\ wf' = [Block(Charge(wf, a), "reviewer") EXCEPT !.reviewer = EffectiveReviewer(wf, a)]

Commit(a) ==
  /\ WithinBudgets(a) /\ ~ReviewerRefused(wf, a)
  /\ wf' = Committed(wf, a)
-----------------------------------------------------------------------------
(* The arguments offered. They range over every value the guards and the    *)
(* updates tell apart; an argument is offered only where the command reads  *)
(* it and it can make a difference: findings on the way into remediation,   *)
(* the artifacts a stage requires on the way into that stage, --remediation *)
(* and --moved-gate at the remediation stage, --resume in a blocked state   *)
(* or at the target gate, a package or a reviewer not named already.        *)
EvidenceOffers(stage, package) ==
  {{}} \cup {{finding} : finding \in {e \in Blocking : e[1] \in made /\ stage = "remediation"}}
       \cup {{p} \X RequiredEvidence[stage] :
               p \in {q \in made \cap {package} : RequiredEvidence[stage] \subseteq Contents[q]}}

Requests(w, stage, package) ==
  LET laps == "remediation" \in {w.stage, stage}
  IN [stage       : {stage},
      status      : IF stage = "complete" THEN {"complete"} ELSE Statuses \ {"complete"},
      reviewer    : (Principals \ {w.reviewer}) \cup {NoReviewer},
      package     : {package},
      evidence    : EvidenceOffers(stage, IF package = NoPackage THEN w.package ELSE package),
      remediation : IF laps THEN BOOLEAN ELSE {FALSE},
      moved_gate  : IF laps THEN BOOLEAN ELSE {FALSE},
      resume      : IF w.status = "blocked" \/ w.stage = w.target_gate THEN BOOLEAN ELSE {FALSE}]

(* One accepted `workflow advance`: read, advance, write.                   *)
AdvanceWith(a) ==
  /\ Permitted(wf, a)
  /\ \/ StopOnTransitions(a)
     \/ StopOnLaps(a)
     \/ StopOnNoProgress(a)
     \/ RefuseReviewer(a)
     \/ Commit(a)
  /\ ValidState(wf')
  /\ EvidenceVerifies(wf')
  /\ UNCHANGED registryVars

Advance ==
  /\ EvidenceVerifies(wf)
  /\ \E stage \in Transitions[wf.stage] \cup {wf.stage}, package \in (made \ {wf.package}) \cup {NoPackage} :
       \E a \in Requests(wf, stage, package) : AdvanceWith(a)

Next == Advance \/ (RegistryNext /\ UNCHANGED wf)

Spec == Init /\ [][Next]_vars
-----------------------------------------------------------------------------
(* Properties *)

(* Whatever order packages, gate decisions, edits and commands came in, a   *)
(* workflow stands at a stage only with the recorded package and the gate   *)
(* passes that stage rests on, all of the one exact package it names - in   *)
(* every state it can be left in, the blocked ones included                 *)
(* (orchestration.py, verify_workflow_evidence and the early returns).      *)
StageIsEarned ==
  /\ wf.stage \in RecordedStages => wf.package \in runs
  /\ \A g \in GatesStoodOn(wf) : Passed(wf.package, g)

(* A complete workflow passed its target and every gate before it, on the   *)
(* exact package it completed with.                                         *)
CompletionIsEarned ==
  wf.status = "complete" =>
    /\ wf.package \in runs
    /\ Passed(wf.package, wf.target_gate)
    /\ wf.target_gate # "research_gate" => Passed(wf.package, "research_gate")
    /\ wf.target_gate = "risk_review"   => Passed(wf.package, "paper_gate")

(* No state at a review or gate stage names an owner, or nobody, as its     *)
(* reviewer, a state that was blocked for naming one included.              *)
ReviewIsIndependent == wf.stage \in ReviewStages => wf.reviewer \in Principals \ Owners

(* "Exhausted budgets cannot be resumed" (README.md:257): a run blocked     *)
(* with any budget spent is never written again, not even to be killed.     *)
ExhaustionIsFinal ==
  [][ wf.status = "blocked" /\
        (\/ wf.transitions_used = MaxTransitions
         \/ wf.remediation_laps = MaxRemediationLaps
         \/ wf.no_progress_laps = MaxNoProgress)
      => wf' = wf ]_vars

(* "prevents a passed gate from being rewritten as blocked"                 *)
(* (orchestration.py:801): once the exact package has passed the target,    *)
(* the only step left to a workflow standing at the target is completion,   *)
(* and it is free of charge.                                                *)
PassedTargetOnlyCompletes ==
  [][ wf.stage = wf.target_gate /\ wf.package \in runs /\ Passed(wf.package, wf.target_gate)
        /\ wf' # wf
      => /\ wf'.stage = "complete"
         /\ wf'.transitions_used = wf.transitions_used ]_vars

(* Every write spends one transition, completes the run, or blocks it for   *)
(* good; none is free, so no caller can loop through the stages for ever.   *)
EveryWriteIsPaid ==
  [][ wf' # wf =>
        \/ wf'.transitions_used = wf.transitions_used + 1
        \/ wf'.stage = "complete"
        \/ wf'.status = "blocked" /\ wf.transitions_used = MaxTransitions ]_vars

(* "stop after two consecutive no-progress laps" (skills/run/SKILL.md:135): *)
(* a workflow that may still run has laps in hand, and each lap it spent    *)
(* without progress since the last successor shows in the counter.          *)
StalledRunsAreBlocked ==
  /\ wf.no_progress_laps = MaxNoProgress => wf.status = "blocked"
  /\ wf.no_progress_laps <= wf.remediation_laps

(* A lap is charged as progress only on a successor of the current package  *)
(* that is already recorded (README.md:260).                                *)
ProgressIsRecorded ==
  [][ wf'.remediation_laps > wf.remediation_laps /\ wf'.no_progress_laps = 0
      => \E p \in runs : Parent[p] = wf.package /\ p # wf.package ]_vars

(* A workflow leaves its target gate for remediation only after the gate    *)
(* recorded a blocked or revise decision on the exact package               *)
(* (README.md:257-259).                                                     *)
TargetIsDecidedBeforeRemediation ==
  [][ wf.stage = wf.target_gate /\ wf'.stage = "remediation"
      => decided[wf.package][wf.target_gate] \in {"blocked", "revise"} ]_vars
=============================================================================
