----------------------------- MODULE Supervisor -----------------------------
(***************************************************************************)
(* `the-pass workflow execute` (workflow_supervisor.py): a supervisor that *)
(* holds the advisory lock of the state file runs a stage driver on a      *)
(* proposal, validates it, applies the driver's patch to the caller's      *)
(* workspace and commits the proposal, cycle after cycle - beside callers  *)
(* of `workflow advance`, who read and write the state file without the    *)
(* lock, and processes that die.                                           *)
(***************************************************************************)
EXTENDS Workflow, Integers

CONSTANTS Supervisors,       \* processes that may run `workflow execute`
          Callers,           \* processes that may run `workflow advance`
          AskedStages,       \* bounds: the stages and statuses a caller asks for,
          AskedStatuses,
          WrittenStages,     \* and the stages, statuses and blockers a driver
          WrittenStatuses,   \* writes
          WrittenBlockers,
          Nobody, NoState

ASSUME SupervisorAssumption ==
  /\ Nobody \notin Supervisors
  /\ NoState \notin WorkflowState

VARIABLES holder,            \* who holds <state>.lock
          sup,               \* what each supervisor holds in memory
          pending,           \* pending[c]: the state caller c is about to write
          attested,          \* review stages with a signed, trusted attestation
          report             \* the status in the supervisor report

supervisorVars == <<holder, sup, pending, attested, report>>
allVars == <<vars, supervisorVars>>

ReviewGateTransitions ==
  [s \in {"review_research", "review_paper", "review_risk"} |->
     CASE s = "review_research" -> "research_gate"
       [] s = "review_paper"    -> "paper_gate"
       [] s = "review_risk"     -> "risk_review"]

DeterministicStages == {"preflight", "complete"} \cup Gates
StopStatuses        == {"complete", "waiting", "blocked", "killed"}

Steps == {"idle", "drive", "check", "apply", "write"}
Modes == {"agent", "direct", "deterministic"}

Idle == [at |-> "idle", auto |-> FALSE, mode |-> "direct", left |-> 0, asked |-> FALSE,
         before |-> NoState, proposal |-> NoState, failed |-> FALSE]

Memory ==
  [at       : Steps,
   auto     : BOOLEAN,                 \* --driver auto
   mode     : Modes,                   \* how the stage of this cycle is driven
   left     : 0..(MaxTransitions + 1), \* cycles left, this one included
   asked    : BOOLEAN,                 \* --max-cycles was given
   before   : WorkflowState \cup {NoState},
   proposal : WorkflowState \cup {NoState},
   failed   : BOOLEAN]                 \* the driver exited non-zero

SupervisorTypeOK ==
  /\ TypeOK
  /\ holder \in Supervisors \cup {Nobody}
  /\ sup \in [Supervisors -> Memory]
  /\ \A s \in Supervisors : sup[s].at # "idle" => holder = s
  /\ pending \in [Callers -> WorkflowState \cup {NoState}]
  /\ attested \subseteq DOMAIN ReviewGateTransitions
  /\ report \in {"none", "running", "stopped", "failed", "exhausted"}

SupervisorInit ==
  /\ Init
  /\ holder = Nobody
  /\ sup = [s \in Supervisors |-> Idle]
  /\ pending = [c \in Callers |-> NoState]
  /\ attested = {}
  /\ report = "none"
-----------------------------------------------------------------------------
(* advance_workflow_state as a function: the state a permitted command      *)
(* leads to.                                                                *)
Advanced(w, a) ==
  CASE OutOfTransitions(w, a) -> Block(w, "transition_budget")
    [] ~OutOfTransitions(w, a) /\ OutOfLaps(w, a) ->
         Block(ChargeTransition(w, a), "remediation_budget")
    [] ~OutOfTransitions(w, a) /\ ~OutOfLaps(w, a) /\ NoProgress(w, a) ->
         Block(Charge(w, a), "no_progress")
    [] OTHER ->
         IF ReviewerRefused(w, a)
         THEN [Block(Charge(w, a), "reviewer") EXCEPT !.reviewer = EffectiveReviewer(w, a)]
         ELSE Committed(w, a)

(* The commands offered to a caller.                                        *)
Asked(w) ==
  UNION {{a \in Requests(w, stage, package) : a.status \in AskedStatuses} :
           stage \in AskedStages \cap (Transitions[w.stage] \cup {w.stage}),
           package \in (made \ {w.package}) \cup {NoPackage}}

(* The states one `workflow advance` can lead to from w.                    *)
Successors(w) ==
  {o \in {Advanced(w, a) : a \in {b \in Asked(w) : Permitted(w, b)}} :
     ValidState(o) /\ EvidenceVerifies(o)}

(* A command of the deterministic driver. *)
Command(stage, status) ==
  [stage |-> stage, status |-> status, reviewer |-> NoReviewer, package |-> NoPackage,
   evidence |-> {}, remediation |-> FALSE, moved_gate |-> FALSE, resume |-> FALSE]

AdvancesTo(w, a) == IF Permitted(w, a) THEN {Advanced(w, a)} ELSE {}

(* _run_deterministic_stage, once the gate of the stage is decided.         *)
DeterministicOutcome(w) ==
  IF w.stage = "preflight" THEN AdvancesTo(w, Command("research", "in_progress"))
  ELSE IF w.stage \in DOMAIN ReviewGateTransitions
  THEN AdvancesTo(w, Command(ReviewGateTransitions[w.stage], "in_progress"))
  ELSE CASE Passed(w.package, w.stage) /\ TargetPasses(w) ->
              AdvancesTo(w, Command("complete", "complete"))
         [] Passed(w.package, w.stage) /\ ~TargetPasses(w) /\ w.stage = "research_gate" ->
              AdvancesTo(w, Command("paper_prepare", "in_progress"))
         [] Passed(w.package, w.stage) /\ ~TargetPasses(w) /\ w.stage = "paper_gate" ->
              AdvancesTo(w, Command("risk_prepare", "in_progress"))
         [] decided[w.package][w.stage] = "kill" -> AdvancesTo(w, Command(w.stage, "killed"))
         [] decided[w.package][w.stage] \in {"blocked", "revise"} ->
              AdvancesTo(w, Command(w.stage, "blocked"))
         [] OTHER -> {}

(* The stage is not handed to a driver: the supervisor runs it itself.      *)
DrivenByHost(w) ==
  \/ w.stage \in DeterministicStages
  \/ w.stage \in attested /\ w.package # NoPackage /\ w.reviewer # NoReviewer

ModeOf(auto, w) ==
  IF ~auto THEN "direct" ELSE IF DrivenByHost(w) THEN "deterministic" ELSE "agent"

AgentRouted(m) ==
  m.mode = "agent" \/ (m.mode = "direct" /\ m.before.stage \notin DeterministicStages)
-----------------------------------------------------------------------------
(* Validation of what the driver left in the proposal *)

(* The proposal of the driver is taken as it is. *)
ParkedNowhere(m, o) == o

(* An agent that moves its review on to the gate is parked at the review,   *)
(* waiting for a signature.                                                 *)
Parked(m, o) ==
  IF /\ AgentRouted(m)
     /\ m.before.stage \in DOMAIN ReviewGateTransitions
     /\ o.stage = ReviewGateTransitions[m.before.stage]
  THEN [o EXCEPT !.stage = m.before.stage, !.status = "waiting", !.blockers = "reported"]
  ELSE o

BudgetStop(b, c) ==
  /\ c.stage = b.stage /\ c.status = "blocked"
  /\ c.transitions_used = b.transitions_used
  /\ c.blockers \in {"transition_budget", "remediation_budget"}

(* validate_supervised_transition *)
SupervisedTransition(b, c) ==
  /\ c.target_gate = b.target_gate
  /\ c.stage \in Transitions[b.stage] \cup {b.stage}
  /\ \/ c.transitions_used = b.transitions_used + (IF c.stage = "complete" THEN 0 ELSE 1)
     \/ BudgetStop(b, c)
  /\ c.remediation_laps - b.remediation_laps \in {0, 1}
  /\ c.no_progress_laps - b.no_progress_laps \in {-1, 0, 1}
  /\ EvidenceVerifies(c)

(* The state files a driver may leave as its proposal. The file is its own: *)
(* what it writes there need not come from a command. Bounds: a package, a  *)
(* reviewer or evidence is named by it, never struck out, and only the      *)
(* evidence a command is offered too; a counter is left or moved by one.    *)
Proposals(b) ==
  {o \in [target_gate      : Gates,
          stage            : WrittenStages \cup {b.stage},
          status           : WrittenStatuses \cup {b.status},
          transitions_used : {b.transitions_used, b.transitions_used + 1},
          remediation_laps : {b.remediation_laps, b.remediation_laps + 1},
          no_progress_laps : (b.no_progress_laps - 1)..(b.no_progress_laps + 1),
          reviewer         : Principals \cup {b.reviewer},
          package          : made \cup {b.package},
          evidence         : {b.evidence \cup e :
                                e \in UNION {EvidenceOffers(stage, package) :
                                              stage \in WrittenStages, package \in made}},
          blockers         : WrittenBlockers \cup {b.blockers}] :
     /\ o \in WorkflowState /\ ValidState(o) /\ EvidenceVerifies(o)
     /\ o.evidence \in {b.evidence \cup e : e \in EvidenceOffers(o.stage, o.package)}
     /\ o.blockers = "none" <=> o.status \in {"in_progress", "complete"}}

(* The proposal o is read back, parked, compared with the state the cycle   *)
(* began from and validated against it.                                     *)
Validates(m, o) == Parked(m, o) # m.before /\ SupervisedTransition(m.before, Parked(m, o))

Validated(m, o, failed) == [m EXCEPT !.at = "check", !.proposal = Parked(m, o), !.failed = failed]

(* The canonical state is compared with the one the cycle started from.     *)
Unchanged(m) == EvidenceVerifies(wf) /\ wf = m.before
-----------------------------------------------------------------------------
(* One supervisor *)

(* One cycle for every transition left, and no more. *)
CyclesForTransitions(w) == MaxTransitions - w.transitions_used

(* One cycle for every transition left, and one that spends none.           *)
Remaining(w) == MaxTransitions - w.transitions_used + 1

InMemory(s, m) == sup' = [sup EXCEPT ![s] = m]

Cycle(m, w, left) ==
  [m EXCEPT !.at = "drive", !.left = left, !.before = w, !.proposal = w,
            !.mode = ModeOf(m.auto, w), !.failed = FALSE]

Release(s, status) ==
  /\ InMemory(s, Idle)
  /\ holder' = Nobody
  /\ report' = status

LockFree(s) == holder = Nobody

(* supervise_workflow on a state that is not at a stop.                     *)
Start(s) ==
  /\ sup[s].at = "idle" /\ LockFree(s)
  /\ EvidenceVerifies(wf)
  /\ wf.status \notin StopStatuses
  /\ \E auto, asked \in BOOLEAN :
       \E left \in (IF asked THEN 1..(Remaining(wf) - 1) ELSE {Remaining(wf)}) :
         InMemory(s, Cycle([Idle EXCEPT !.auto = auto, !.asked = asked], wf, left))
  /\ holder' = s
  /\ report' = "running"
  /\ UNCHANGED <<vars, pending, attested>>

(* The state is at a stop already: nothing is driven, a waiting state       *)
(* included.                                                                *)
StartAtStop(s) ==
  /\ sup[s].at = "idle" /\ LockFree(s)
  /\ EvidenceVerifies(wf)
  /\ wf.status \in StopStatuses
  /\ report' = "stopped"
  /\ UNCHANGED <<vars, holder, sup, pending, attested>>

(* A driver of the caller, or an agent, exits and leaves its proposal.       *)
DriverExits(s) ==
  /\ sup[s].at = "drive" /\ sup[s].mode # "deterministic"
  /\ \E o \in Proposals(sup[s].before), failed \in BOOLEAN :
       /\ Validates(sup[s], o)
       /\ InMemory(s, Validated(sup[s], o, failed))
  /\ UNCHANGED <<vars, holder, pending, attested, report>>

(* The gate stage records its decision before the state moves.              *)
DecideGate(s) ==
  /\ sup[s].at = "drive" /\ sup[s].mode = "deterministic"
  /\ sup[s].before.stage \in Gates
  /\ RecordDecision(sup[s].before.package, sup[s].before.stage)
  /\ UNCHANGED <<wf, supervisorVars>>

RunDeterministic(s) ==
  /\ sup[s].at = "drive" /\ sup[s].mode = "deterministic"
  /\ \E o \in DeterministicOutcome(sup[s].before) :
       /\ ValidState(o) /\ EvidenceVerifies(o)
       /\ Validates(sup[s], o)
       /\ InMemory(s, Validated(sup[s], o, FALSE))
  /\ UNCHANGED <<vars, holder, pending, attested, report>>

Accept(s) ==
  /\ sup[s].at = "check" /\ Unchanged(sup[s])
  /\ InMemory(s, [sup[s] EXCEPT !.at = IF sup[s].mode = "agent" THEN "apply" ELSE "write"])
  /\ UNCHANGED <<vars, holder, pending, attested, report>>

(* The patch of an agent is applied to the caller's workspace.              *)
ApplyPatch(s) ==
  /\ sup[s].at = "apply" /\ EvidenceVerifies(sup[s].proposal)
  /\ InMemory(s, [sup[s] EXCEPT !.at = "write"])
  /\ UNCHANGED <<vars, holder, pending, attested, report>>

(* A driver that times out, a proposal that is unreadable or does not       *)
(* validate, a canonical state that changed, a patch that is rejected.      *)
Fail(s) ==
  /\ \/ sup[s].at \in {"drive", "apply"}
     \/ sup[s].at = "check" /\ ~Unchanged(sup[s])
  /\ Release(s, "failed")
  /\ UNCHANGED <<vars, pending, attested>>

(* write_workflow_state_atomic, then what the cycle ends with.              *)
Write(s) ==
  /\ sup[s].at = "write"
  /\ ValidState(sup[s].proposal) /\ EvidenceVerifies(sup[s].proposal)
  /\ wf' = sup[s].proposal
  /\ IF sup[s].failed /\ wf'.status \notin {"waiting", "blocked", "killed"}
     THEN Release(s, "failed")
     ELSE IF wf'.status \in StopStatuses
     THEN Release(s, "stopped")
     ELSE IF sup[s].left = 1
     THEN Release(s, "exhausted")
     ELSE /\ InMemory(s, Cycle(sup[s], wf', sup[s].left - 1))
          /\ UNCHANGED <<holder, report>>
  /\ UNCHANGED <<registryVars, pending, attested>>

(* The state no longer verifies: the exception leaves the report behind.    *)
WriteRefused(s) ==
  /\ sup[s].at = "write"
  /\ ~EvidenceVerifies(sup[s].proposal)
  /\ Release(s, report)
  /\ UNCHANGED <<vars, pending, attested>>

(* The process dies, and the kernel drops its lock.                         *)
Crash(s) ==
  /\ sup[s].at # "idle"
  /\ Release(s, report)
  /\ UNCHANGED <<vars, pending, attested>>
-----------------------------------------------------------------------------
(* Callers beside the supervisor *)

(* handle_workflow (advance): read and advance, without the lock, then      *)
(* write.                                                                   *)
BeginAdvance(c) ==
  /\ pending[c] = NoState
  /\ EvidenceVerifies(wf)
  /\ \E o \in Successors(wf) : pending' = [pending EXCEPT ![c] = o]
  /\ UNCHANGED <<vars, holder, sup, attested, report>>

FinishAdvance(c) ==
  /\ pending[c] # NoState
  /\ wf' = IF EvidenceVerifies(pending[c]) THEN pending[c] ELSE wf
  /\ pending' = [pending EXCEPT ![c] = NoState]
  /\ UNCHANGED <<registryVars, holder, sup, attested, report>>

(* `gate attest`: the designated reviewer signs.                            *)
Attest(stage) ==
  /\ stage \notin attested
  /\ attested' = attested \cup {stage}
  /\ UNCHANGED <<vars, holder, sup, pending, report>>

Step(s) ==
  \/ DriverExits(s) \/ DecideGate(s) \/ RunDeterministic(s)
  \/ Accept(s) \/ ApplyPatch(s) \/ Fail(s) \/ Write(s) \/ WriteRefused(s)

SupervisorNext ==
  \/ \E s \in Supervisors : Start(s) \/ StartAtStop(s) \/ Step(s) \/ Crash(s)
  \/ \E c \in Callers : BeginAdvance(c) \/ FinishAdvance(c)
  \/ \E stage \in DOMAIN ReviewGateTransitions : Attest(stage)
  \/ RegistryNext /\ UNCHANGED <<wf, supervisorVars>>

SupervisorSpec == SupervisorInit /\ [][SupervisorNext]_allVars
-----------------------------------------------------------------------------
(* Properties *)

(* An execute that was not given --max-cycles never runs out of cycles: it  *)
(* ends at a stop or reports why it failed, on the last transition too      *)
(* (docs/implementation/SUPERVISED_WORKFLOW_EXECUTION_PLAN.md:88).          *)
CycleBudgetSuffices ==
  [][ \A s \in Supervisors :
        sup[s].at = "write" /\ report' = "exhausted" => sup[s].asked ]_allVars

(* "never lets an agent approve its own gate" (README.md): whatever driver  *)
(* a supervisor runs at a review stage, and however often it advances, the  *)
(* state is committed at the gate of that review only when the review has   *)
(* been signed.                                                             *)
GatesAreEnteredAttested ==
  [][ \A s \in Supervisors, stage \in DOMAIN ReviewGateTransitions :
        sup[s].at = "write" /\ sup'[s] # sup[s] /\ sup[s].before.stage = stage
          /\ wf' # wf /\ wf'.stage = ReviewGateTransitions[stage]
        => stage \in attested ]_allVars

(* "failed drivers cannot consume canonical workflow state"                 *)
(* (docs/public/RELEASE_NOTES_v0.12.0.md:11): an execute that reports       *)
(* failure leaves the state as it found it.                                 *)
FailedCyclesChangeNothing ==
  [][ report = "running" /\ report' = "failed" => wf' = wf ]_allVars

(* "Workflow commits use a per-state advisory lock and an optimistic source *)
(* fingerprint" (docs/implementation/POST_AUDIT_HARDENING_PLAN.md:25): what *)
(* a supervisor commits replaces the state its cycle began from, never a    *)
(* transition somebody made in between.                                     *)
CommitsReplaceTheirSource ==
  [][ \A s \in Supervisors :
        sup[s].at = "write" /\ sup'[s] # sup[s] /\ wf' # wf => wf = sup[s].before ]_allVars
=============================================================================
