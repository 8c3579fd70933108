----------------------------- MODULE Automation -----------------------------
(***************************************************************************)
(* One scheduled job: the invocations of the automation runner that share  *)
(* its idempotency key, the worker process each of them spawns, and the    *)
(* files they share (automation/runner.py, automation/worker.py).          *)
(*                                                                         *)
(* Nothing locks the key.  A runner that finds no receipt writes the       *)
(* inputs, and for each attempt recreates the attempt's staging directory, *)
(* spawns a worker that writes into it, and renames it to the commit       *)
(* directory.  A runner may die anywhere; its worker lives on.             *)
(***************************************************************************)
EXTENDS Naturals, Sequences, FiniteSets, SequencesExt

CONSTANTS
  Runners,     \* the invocations of the runner for this key
  Specs,       \* the automation specifications it may be invoked with
  MaxAttempts, \* as many attempts as any of them asks for
  Absent,      \* no file, or no directory
  Worlds       \* what the workspace may hold when a worker looks at it

ASSUME RunnersAssumption == Runners # {} /\ IsFiniteSet(Runners)

VARIABLES
  spec,        \* the specification behind the key
  world,       \* the evidence a handler reads
  receipt,     \* automation-<key>.json
  inputs,      \* does automation-<key>.inputs.json exist?
  staging,     \* .staging/<key>-<attempt>, by attempt
  commit,      \* committed/<key>
  incident,    \* does incident-<key>.json exist?
  pc,          \* where each runner is
  attempt,     \* the attempt each runner is at
  published,   \* did the runner's rename succeed?
  worker,      \* each runner's worker process
  overlapped   \* did two invocations, or a runner and an orphaned worker, coexist?

files   == <<receipt, inputs, staging, commit, incident>>
local   == <<attempt, published>>
vars    == <<spec, world, files, pc, local, worker, overlapped>>
context == <<spec, world, overlapped>>

Attempts == 1..MaxAttempts

(* The schema of a specification asks for at least one attempt. *)
ASSUME AttemptsAssumption ==
  /\ MaxAttempts \in Nat \ {0}
  /\ \A s \in Specs : s.valid => s.max_attempts \in Attempts

Commands == { "data_health", "corpus_refresh", "nightly_baselines",
              "gate_checker", "paper_observer", "risk_monitor",
              "drift_report", "tca_report", "weekly_research_summary" }

Retryable == Commands \ {"nightly_baselines", "gate_checker", "paper_observer"}

RequiredForbidden == {"gate_decision", "live_transaction", "credential_access"}

(* A directory holds the snapshot, possibly opened and not yet written,    *)
(* and the worker's manifest of outputs.                                   *)
Directory == [snapshot : {"none", "empty", "whole"}, manifest : BOOLEAN]
Empty     == [snapshot |-> "none", manifest |-> FALSE]
Whole     == [snapshot |-> "whole", manifest |-> TRUE]

Idle == [at |-> "none", attempt |-> 1, handle |-> "none"]

Receipt == [status : {"complete", "frozen"}, attempts : Attempts, by : Runners]

ASSUME AbsentAssumption == Absent \notin Directory \cup Receipt

RunnerSteps == { "inputs", "clear", "rmdir", "mkdir", "wait", "promote",
                 "rename", "sweep", "sweep_rmdir", "settle", "incident",
                 "receipt" }
Ended       == {"returned", "raised", "dead"}
WorkerSteps == {"read", "open", "write", "manifest"}

TypeOK ==
  /\ spec \in Specs
  /\ world \in Worlds
  /\ receipt \in Receipt \cup {Absent}
  /\ inputs \in BOOLEAN
  /\ staging \in [Attempts -> Directory \cup {Absent}]
  /\ commit \in Directory \cup {Absent}
  /\ incident \in BOOLEAN
  /\ pc \in [Runners -> {"new"} \cup RunnerSteps \cup Ended]
  /\ attempt \in [Runners -> Attempts]
  /\ published \in [Runners -> BOOLEAN]
  /\ worker \in [Runners -> [at      : {"none", "succeeded", "failed"} \cup WorkerSteps,
                             attempt : Attempts,
                             handle  : {"none", "staging", "commit", "gone"}]]
  /\ overlapped \in BOOLEAN

Init ==
  /\ spec \in Specs
  /\ world \in Worlds
  /\ receipt = Absent /\ inputs = FALSE /\ incident = FALSE
  /\ staging = [a \in Attempts |-> Absent]
  /\ commit = Absent
  /\ pc = [r \in Runners |-> "new"]
  /\ attempt = [r \in Runners |-> 1]
  /\ published = [r \in Runners |-> FALSE]
  /\ worker = [r \in Runners |-> Idle]
  /\ overlapped = FALSE

Working(r) == worker[r].at \in WorkerSteps
Live(r)    == pc[r] \in RunnerSteps \/ Working(r)

(***************************************************************************)
(* Admission.  The specification is refused before anything is written.    *)
(***************************************************************************)
WithinAllowed(s) == \E allowed \in s.allowed_writes : IsPrefix(allowed, s.output)

Admissible(s) ==
  /\ s.valid /\ s.enabled
  /\ s.command \in Commands
  /\ RequiredForbidden \subseteq s.forbidden_actions
  /\ s.alert_sink = "local_incident_artifact"
  /\ ~s.sensitive_inputs
  /\ s.schedule_parses
  /\ s.max_attempts > 1 => s.command \in Retryable
  /\ WithinAllowed(s)

Goto(r, step) == pc' = [pc EXCEPT ![r] = step]

(* The receipt that is already there is overlooked. *)
AdmitIgnoringReceipt(r) ==
  /\ pc[r] = "new"
  /\ Goto(r, IF Admissible(spec) THEN "inputs" ELSE "raised")
  /\ overlapped' = (overlapped \/ \E q \in Runners \ {r} : Live(q))
  /\ UNCHANGED <<spec, world, files, local, worker>>

(* A receipt already there is returned as it is. *)
Admit(r) ==
  /\ pc[r] = "new"
  /\ Goto(r, CASE ~Admissible(spec)                     -> "raised"
               [] Admissible(spec) /\ receipt # Absent  -> "returned"
               [] OTHER                                 -> "inputs")
  /\ overlapped' = (overlapped \/ \E q \in Runners \ {r} : Live(q))
  /\ UNCHANGED <<spec, world, files, local, worker>>

WriteInputs(r) ==
  /\ pc[r] = "inputs"
  /\ inputs' = TRUE
  /\ Goto(r, "clear")
  /\ UNCHANGED <<context, receipt, staging, commit, incident, local, worker>>

(***************************************************************************)
(* Removing a directory tree takes two steps: its files go first, then the *)
(* directory, by its path.  A worker that has the snapshot open keeps an   *)
(* unlinked file.                                                          *)
(***************************************************************************)
Unlinked(a) ==
  [q \in Runners |->
     IF worker[q].handle = "staging" /\ worker[q].attempt = a
     THEN [worker[q] EXCEPT !.handle = "gone"] ELSE worker[q]]

Emptied(r) ==
  /\ staging' = [staging EXCEPT ![attempt[r]] = Empty]
  /\ worker' = Unlinked(attempt[r])


ClearStaging(r) ==
  /\ pc[r] = "clear"
  /\ IF staging[attempt[r]] = Absent
     THEN Goto(r, "mkdir") /\ UNCHANGED <<staging, worker>>
     ELSE Goto(r, "rmdir") /\ Emptied(r)
  /\ UNCHANGED <<context, receipt, inputs, commit, incident, local>>

(* Outside the try: a directory another invocation renamed, removed or     *)
(* refilled meanwhile makes the runner raise.                              *)
RemoveStaging(r) ==
  /\ pc[r] = "rmdir"
  /\ IF staging[attempt[r]] = Empty
     THEN staging' = [staging EXCEPT ![attempt[r]] = Absent] /\ Goto(r, "mkdir")
     ELSE Goto(r, "raised") /\ UNCHANGED staging
  /\ UNCHANGED <<context, receipt, inputs, commit, incident, local, worker>>

(* The worker is spawned as soon as its staging directory is there. *)
Spawn(r) ==
  /\ pc[r] = "mkdir"
  /\ IF staging[attempt[r]] = Absent
     THEN /\ staging' = [staging EXCEPT ![attempt[r]] = Empty]
          /\ worker' = [worker EXCEPT ![r] =
                          [at |-> "read", attempt |-> attempt[r], handle |-> "none"]]
          /\ Goto(r, "wait")
     ELSE Goto(r, "raised") /\ UNCHANGED <<staging, worker>>
  /\ UNCHANGED <<context, receipt, inputs, commit, incident, local>>

WorkerEnded(r) ==
  /\ pc[r] = "wait" /\ ~Working(r)
  /\ Goto(r, IF worker[r].at = "succeeded" THEN "promote" ELSE "sweep")
  /\ UNCHANGED <<context, files, local, worker>>

(* subprocess.run kills a worker that outlives its time. *)
TimeOut(r) ==
  /\ pc[r] = "wait" /\ Working(r)
  /\ worker' = [worker EXCEPT ![r] = [@ EXCEPT !.at = "failed", !.handle = "none"]]
  /\ Goto(r, "sweep")
  /\ UNCHANGED <<context, files, local>>

(***************************************************************************)
(* Promotion: the outputs the manifest names must be files, and the commit *)
(* directory must not exist; then one rename publishes the directory.      *)
(***************************************************************************)
WorkerOutputs(d) == d # Absent /\ d.manifest /\ d.snapshot # "none"

Promote(r) ==
  /\ pc[r] = "promote"
  /\ Goto(r, IF WorkerOutputs(staging[attempt[r]]) /\ commit = Absent
             THEN "rename" ELSE "sweep")
  /\ UNCHANGED <<context, files, local, worker>>

(* A rename that fails is taken for done. *)
RenameUnverified(r) ==
  /\ pc[r] = "rename"
  /\ commit' = IF commit = Absent THEN staging[attempt[r]] ELSE commit
  /\ staging' = [staging EXCEPT ![attempt[r]] = Absent]
  /\ published' = [published EXCEPT ![r] = TRUE]
  /\ Goto(r, "sweep")
  /\ UNCHANGED <<context, receipt, inputs, incident, attempt, worker>>

(* The path may be gone, or another invocation's by now; an empty commit   *)
(* directory is replaced, a full one makes the rename fail.                *)
Rename(r) ==
  /\ pc[r] = "rename"
  /\ IF staging[attempt[r]] # Absent /\ commit \in {Absent, Empty}
     THEN /\ commit' = staging[attempt[r]]
          /\ staging' = [staging EXCEPT ![attempt[r]] = Absent]
          /\ worker' = [q \in Runners |->
                          IF worker[q].handle = "staging" /\ worker[q].attempt = attempt[r]
                          THEN [worker[q] EXCEPT !.handle = "commit"] ELSE worker[q]]
          /\ published' = [published EXCEPT ![r] = TRUE]
     ELSE UNCHANGED <<commit, staging, worker, published>>
  /\ Goto(r, "sweep")
  /\ UNCHANGED <<context, receipt, inputs, incident, attempt>>

(* The finally clause removes the attempt's directory, ignoring errors. *)
Sweep(r) ==
  /\ pc[r] = "sweep"
  /\ IF staging[attempt[r]] = Absent
     THEN Goto(r, "settle") /\ UNCHANGED <<staging, worker>>
     ELSE Goto(r, "sweep_rmdir") /\ Emptied(r)
  /\ UNCHANGED <<context, receipt, inputs, commit, incident, local>>

SweepDirectory(r) ==
  /\ pc[r] = "sweep_rmdir"
  /\ staging' = IF staging[attempt[r]] = Empty
                THEN [staging EXCEPT ![attempt[r]] = Absent] ELSE staging
  /\ Goto(r, "settle")
  /\ UNCHANGED <<context, receipt, inputs, commit, incident, local, worker>>

(***************************************************************************)
(* The next attempt, or the end of the run: the inputs are removed, an     *)
(* incident is filed if there are no outputs, and the receipt is written   *)
(* over whatever the path holds.                                           *)
(***************************************************************************)
MayRetry(r) ==
  /\ ~published[r]
  /\ attempt[r] < spec.max_attempts
  /\ spec.command \in Retryable

Retry(r) ==
  /\ pc[r] = "settle" /\ MayRetry(r)
  /\ attempt' = [attempt EXCEPT ![r] = @ + 1]
  /\ Goto(r, "clear")
  /\ UNCHANGED <<context, files, published, worker>>

Settle(r) ==
  /\ pc[r] = "settle" /\ ~MayRetry(r)
  /\ inputs' = FALSE
  /\ Goto(r, IF published[r] THEN "receipt" ELSE "incident")
  /\ UNCHANGED <<context, receipt, staging, commit, incident, local, worker>>

FileIncident(r) ==
  /\ pc[r] = "incident"
  /\ incident' = TRUE
  /\ Goto(r, "receipt")
  /\ UNCHANGED <<context, receipt, inputs, staging, commit, local, worker>>

(* The status tells that the run got here, not that it has outputs. *)
WriteReceiptUnconditionally(r) ==
  /\ pc[r] = "receipt"
  /\ receipt' = [status |-> "complete", attempts |-> attempt[r], by |-> r]
  /\ Goto(r, "returned")
  /\ UNCHANGED <<context, inputs, staging, commit, incident, local, worker>>

WriteReceipt(r) ==
  /\ pc[r] = "receipt"
  /\ receipt' = [status   |-> IF published[r] THEN "complete" ELSE "frozen",
                 attempts |-> attempt[r], by |-> r]
  /\ Goto(r, "returned")
  /\ UNCHANGED <<context, inputs, staging, commit, incident, local, worker>>

Die(r) ==
  /\ pc[r] \in RunnerSteps
  /\ Goto(r, "dead")
  /\ UNCHANGED <<context, files, local, worker>>

(***************************************************************************)
(* The worker: one handler per whitelisted command, each a condition on    *)
(* what the workspace holds, then two files.                               *)
(***************************************************************************)
DataHealthy(w) == w.quality_reports # {} /\ "blocked" \notin w.quality_reports

CorpusSound(w) == w.sources # {} /\ w.sources \subseteq w.notes

BaselinesValid(w) == /\ w.suite = "b2-public-baselines"
                     /\ w.baselines # {} /\ "invalid" \notin w.baselines

PaperEvidence(command, w) ==
  /\ w.paper # {}
  /\ command = "paper_observer" =>
       /\ w.paper \cap {"observation", "frozen_observation"} # {}
       /\ "frozen_observation" \notin w.paper
  /\ command = "drift_report" => w.paper \cap {"signals_fills"} # {}
  /\ command = "tca_report"   => w.paper \cap {"costs_fills"} # {}

HandlerAccepts(command, w) ==
  CASE command = "data_health"       -> DataHealthy(w)
    [] command = "corpus_refresh"    -> CorpusSound(w)
    [] command = "nightly_baselines" -> BaselinesValid(w)
    [] command = "gate_checker"      -> w.roadmap_valid
    [] command = "risk_monitor"      -> w.risk_classes # {}
    [] command = "weekly_research_summary" -> CorpusSound(w) /\ w.experiments # {}
    [] OTHER                         -> PaperEvidence(command, w)

WorkerGoes(r, step, handle) ==
  worker' = [worker EXCEPT ![r] = [@ EXCEPT !.at = step, !.handle = handle]]

WorkerFiles(r) ==
  UNCHANGED <<context, receipt, inputs, incident, pc, local>>

WorkerReads(r) ==
  /\ worker[r].at = "read"
  /\ WorkerGoes(r, IF inputs /\ HandlerAccepts(spec.command, world)
                   THEN "open" ELSE "failed", "none")
  /\ WorkerFiles(r) /\ UNCHANGED <<staging, commit>>

(* mkdir with exist_ok, then the snapshot is opened, which truncates it. *)
WorkerOpens(r) ==
  /\ worker[r].at = "open"
  /\ LET a == worker[r].attempt
     IN staging' = [staging EXCEPT ![a] = IF @ = Absent
                                          THEN [Empty EXCEPT !.snapshot = "empty"]
                                          ELSE [@ EXCEPT !.snapshot = "empty"]]
  /\ WorkerGoes(r, "write", "staging")
  /\ WorkerFiles(r) /\ UNCHANGED commit

(* The file written is the one that was opened, wherever it is now. *)
WorkerWrites(r) ==
  /\ worker[r].at = "write"
  /\ staging' = IF worker[r].handle = "staging"
                THEN [staging EXCEPT ![worker[r].attempt].snapshot = "whole"] ELSE staging
  /\ commit' = IF worker[r].handle = "commit"
               THEN [commit EXCEPT !.snapshot = "whole"] ELSE commit
  /\ WorkerGoes(r, "manifest", "none")
  /\ WorkerFiles(r)

WorkerReports(r) ==
  /\ worker[r].at = "manifest"
  /\ LET a == worker[r].attempt
     IN IF staging[a] = Absent
        THEN WorkerGoes(r, "failed", "none") /\ UNCHANGED staging
        ELSE /\ staging' = [staging EXCEPT ![a] = [@ EXCEPT !.manifest = TRUE]]
             /\ WorkerGoes(r, "succeeded", "none")
  /\ WorkerFiles(r) /\ UNCHANGED commit

(* The workspace moves on under the runners. *)
WorldChanges ==
  /\ world' \in Worlds \ {world}
  /\ UNCHANGED <<spec, files, pc, local, worker, overlapped>>

(***************************************************************************)
(* The next-state relation.  Once started, a runner goes on and its wait   *)
(* for the worker ends, by the worker's exit or by the timeout; workers    *)
(* and the scheduler owe nothing.                                          *)
(***************************************************************************)
RunnerStep(r) ==
  \/ WriteInputs(r) \/ ClearStaging(r) \/ RemoveStaging(r) \/ Spawn(r)
  \/ WorkerEnded(r) \/ TimeOut(r) \/ Promote(r) \/ Rename(r)
  \/ Sweep(r) \/ SweepDirectory(r) \/ Retry(r) \/ Settle(r)
  \/ FileIncident(r) \/ WriteReceipt(r)

WorkerStep(r) ==
  WorkerReads(r) \/ WorkerOpens(r) \/ WorkerWrites(r) \/ WorkerReports(r)

Next ==
  \/ \E r \in Runners : Admit(r) \/ RunnerStep(r) \/ WorkerStep(r) \/ Die(r)
  \/ WorldChanges

Fairness == \A r \in Runners : WF_vars(RunnerStep(r))

Spec == Init /\ [][Next]_vars /\ Fairness

(***************************************************************************)
(* Properties.                                                             *)
(***************************************************************************)

(* README.md says the jobs are idempotent: as long as the scheduler does   *)
(* not start an invocation while another one, or a worker a dead one left  *)
(* behind, is still at work, a receipt never changes once it is written,   *)
(* whatever was killed in between and however often the job is repeated.   *)
ReceiptsAreFinal ==
  [][(receipt # Absent /\ ~overlapped') => receipt' = receipt]_vars

(* Under the same assumption a "complete" receipt stands for a whole       *)
(* commit: the snapshot the worker finished and the manifest that names    *)
(* it, never a directory a dead invocation left half written.              *)
CompleteIsBacked ==
  (receipt # Absent /\ ~overlapped /\ receipt.status = "complete") => commit = Whole


Job == INSTANCE OnceOnly WITH
  committed <- commit # Absent,
  receipt   <- IF receipt = Absent THEN "none" ELSE receipt.status

(* Even with overlapping invocations the job's outputs are published once, *)
(* and no receipt says "complete" before that.                             *)
ImplementsOnceOnly == Job!Spec
=============================================================================
