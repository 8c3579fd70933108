------------------------------- MODULE Sweep --------------------------------
(***************************************************************************)
(* Robustness sweeps and the candidates assembled from their reports: the  *)
(* processes running "robustness sweep" (cli_commands/analysis.py and      *)
(* robustness/workflow.py), those running "candidate assemble"             *)
(* (candidate.py), and what they share: the operator's ledger, the work    *)
(* directory with the registrations, the reports and a reproduction        *)
(* report, the source package, and the candidate packages.                 *)
(*                                                                         *)
(* A sweep burns its holdout in public: it creates its registration file,  *)
(* appends a receipt under the ledger's lock, and counts the trials ever   *)
(* made at its key before it runs a cell.  Any process may die anywhere.   *)
(***************************************************************************)
EXTENDS RobustnessAudit

CONSTANTS
  Unwritten,      \* a file created and not yet written
  Sweeps,         \* invocations of robustness sweep
  Outputs,        \* the paths they report to
  OutputOf,       \* [Sweeps -> Outputs]
  KeyOf,          \* [Sweeps -> the events and descriptor fingerprints]
  Plans,          \* what they may be invoked with
  FoldOutcomes,   \* what the cells of one fold may come to, by execution mode
  Sources,        \* contents the strategy file may have
  Assemblers,     \* invocations of candidate assemble
  Targets,        \* the package directories they are to create
  TargetOf        \* [Assemblers -> Targets]

ASSUME SweepAssumption == OutputOf \in [Sweeps -> Outputs] /\ TargetOf \in [Assemblers -> Targets]

(* What a sweep registers.  The folds are not part of it.                  *)
RegistrationOf(s, plan, content) ==
  [ key |-> KeyOf[s], source |-> content, null |-> plan.null,
    reference |-> plan.reference, null_kind |-> plan.null_kind,
    execution_version |-> plan.execution_version ]

(* A cell is what RunCell makes of two processes: its returns are the steps*)
(* between its levels, so that they lead to its net return unless it came  *)
(* back from nothing.                                                      *)
Cell ==
  {cell \in [ status : {"complete"}, net : Int, periodic : Seq(Int) \ {<<>>}, eligible : BOOLEAN ] :
     cell.net = Compounded(cell.periodic) \/ CameBack(cell)}
  \cup {FailedCell}

FoldCells == [ train : [Variants -> Cell], test : [Variants -> Cell] ]

ASSUME PlansAssumption ==
  /\ \A mode \in DOMAIN FoldOutcomes : FoldOutcomes[mode] \subseteq FoldCells
  /\ \A plan \in Plans :
       /\ plan.mode \in {"purged_walk_forward", "diagnostic_splits"}
       /\ plan.mode_of_execution \in DOMAIN FoldOutcomes
       /\ {plan.observations, plan.train_size, plan.test_size, plan.purge, plan.embargo} \subseteq Int
       /\ plan.splits \in Seq([start : Int, end : Int])
       /\ plan.package \in {"apart", "beside", "astray"}

(* No file is neither an empty one nor a registration, and no winner none  *)
(* of the variants.                                                        *)
ASSUME NothingAssumption ==
  /\ Nothing \notin Variants
  /\ Unwritten # Nothing
  /\ \A s \in Sweeps, plan \in Plans, content \in Sources :
       RegistrationOf(s, plan, content) # Nothing

VARIABLES
  source,         \* the strategy file
  ledger,         \* the registration receipts, in order
  registration,   \* <output>.registration.json: Nothing, Unwritten or what was registered
  report,         \* the report at each output, or Nothing
  reproduction,   \* reproduction_report.json in the work directory and in the source package
  job,            \* where each sweep is
  candidate,      \* the package at each target, or Nothing
  assembly        \* where each assembler is

evidence == <<source, ledger, registration, report, reproduction, job>>
packages == <<candidate, assembly>>
vars     == <<evidence, packages>>

SweepSteps == {"planned", "created", "registered", "recorded", "running", "written"}
SweepEnds  == {"refused", "raised", "rejected", "blocked", "complete", "dead"}

AssemblySteps == {"read", "copied", "filled"}
AssemblyEnds  == {"refused", "assembled", "dead"}

Registered == [ key : Range(KeyOf), source : Sources, null : Variants, reference : Variants,
                null_kind : {"flat", "seeded_random"}, execution_version : {1, 2} ]

TypeOK ==
  /\ source \in Sources
  /\ \A i \in DOMAIN ledger :
       ledger[i].registration \in Registered /\ ledger[i].attempt \in 1..i
  /\ registration \in [Outputs -> Registered \cup {Nothing, Unwritten}]
  /\ DOMAIN report = Outputs
  /\ DOMAIN reproduction = {"work", "package"}
  /\ \A s \in Sweeps : job[s].at \in {"new"} \cup SweepSteps \cup SweepEnds
  /\ DOMAIN candidate = Targets
  /\ \A a \in Assemblers : assembly[a].at \in {"new"} \cup AssemblySteps \cup AssemblyEnds

Init ==
  /\ source \in Sources
  /\ ledger = <<>>
  /\ registration = [o \in Outputs |-> Nothing]
  /\ report = [o \in Outputs |-> Nothing]
  /\ reproduction = [d \in {"work", "package"} |-> Nothing]
  /\ job = [s \in Sweeps |-> [ at |-> "new", plan |-> Nothing, registered |-> Nothing,
                               receipt |-> Nothing, trials |-> 0, cells |-> <<>> ]]
  /\ candidate = [t \in Targets |-> Nothing]
  /\ assembly = [a \in Assemblers |-> [at |-> "new", report |-> Nothing]]

(***************************************************************************)
(* The sweep                                                               *)
(***************************************************************************)

Go(s, to) == job' = [job EXCEPT ![s].at = to]

(* Inputs are checked before anything is written, and the strategy file is *)
(* read for the registration.                                              *)
Begin(s) ==
  /\ job[s].at = "new"
  /\ \E plan \in Plans :
       job' = [job EXCEPT ![s].at = IF InputsAreLegal(plan) THEN "planned" ELSE "refused",
                          ![s].plan = plan,
                          ![s].registered = RegistrationOf(s, plan, source)]
  /\ UNCHANGED <<source, ledger, registration, report, reproduction, packages>>

(* Taking an existing registration over.                                   *)
TakeRegistration(s) ==
  /\ job[s].at = "planned"
  /\ registration' = [registration EXCEPT ![OutputOf[s]] = Unwritten]
  /\ Go(s, "created")
  /\ UNCHANGED <<source, ledger, report, reproduction, packages>>

(* The registration file is create-only, and then written.                 *)
CreateRegistration(s) ==
  /\ job[s].at = "planned"
  /\ IF registration[OutputOf[s]] = Nothing
       THEN /\ registration' = [registration EXCEPT ![OutputOf[s]] = Unwritten]
            /\ Go(s, "created")
       ELSE /\ Go(s, "refused")
            /\ UNCHANGED registration
  /\ UNCHANGED <<source, ledger, report, reproduction, packages>>

WriteRegistration(s) ==
  /\ job[s].at = "created"
  /\ registration' = [registration EXCEPT ![OutputOf[s]] = job[s].registered]
  /\ Go(s, "registered")
  /\ UNCHANGED <<source, ledger, report, reproduction, packages>>

(* Under the ledger's lock: the attempt is the next one at the key.        *)
AppendReceipt(s) ==
  LET attempt == Len(SameKey(ledger, job[s].registered)) + 1 IN
  /\ job[s].at = "registered"
  /\ job[s].plan.ledgered
  /\ ledger' = Append(ledger, [ registration |-> job[s].registered,
                                variants |-> Cardinality(Variants), attempt |-> attempt ])
  /\ job' = [job EXCEPT ![s].at = "recorded", ![s].receipt = attempt]
  /\ UNCHANGED <<source, registration, report, reproduction, packages>>

(* Only the trials of this very experiment count.                          *)
CountTrialsOfSource(s) ==
  /\ job[s].at = "recorded"
  /\ job' = [job EXCEPT ![s].at = "running",
               ![s].trials = TrialsOf(SelectSeq(ledger, LAMBDA e : e.registration = job[s].registered))]
  /\ UNCHANGED <<source, ledger, registration, report, reproduction, packages>>

(* The ledger is read again, the lock released in between: every trial at  *)
(* the key counts, this sweep's and any other's.                           *)
CountTrials(s) ==
  /\ job[s].at = "recorded"
  /\ job' = [job EXCEPT ![s].at = "running",
                        ![s].trials = TrialsOf(SameKey(ledger, job[s].registered))]
  /\ UNCHANGED <<source, ledger, registration, report, reproduction, packages>>

(* A sweep without a ledger counts its own variants; the command always    *)
(* has one, other callers of run_strategy_sweep need not.                  *)
CountOwnVariants(s) ==
  /\ job[s].at = "registered"
  /\ ~job[s].plan.ledgered
  /\ job' = [job EXCEPT ![s].at = "running", ![s].trials = Cardinality(Variants)]
  /\ UNCHANGED <<source, ledger, registration, report, reproduction, packages>>

(* All train and all test cells of the next fold.                          *)
RunFold(s) ==
  /\ job[s].at = "running"
  /\ Len(job[s].cells) < Len(NormalizedFolds(job[s].plan))
  /\ \E outcome \in FoldOutcomes[job[s].plan.mode_of_execution] :
       job' = [job EXCEPT ![s].cells = Append(@, outcome)]
  /\ UNCHANGED <<source, ledger, registration, report, reproduction, packages>>

(* The report replaces whatever stands at the output.                      *)
WriteReport(s) ==
  /\ job[s].at = "running"
  /\ Len(job[s].cells) = Len(NormalizedFolds(job[s].plan))
  /\ IF StressIsDerivable(job[s].cells, job[s].plan)
       THEN /\ report' = [report EXCEPT ![OutputOf[s]] =
                            ReportOf(job[s].cells, job[s].plan, job[s].registered,
                                     job[s].receipt, job[s].trials)]
            /\ Go(s, "written")
       ELSE /\ Go(s, "raised")
            /\ UNCHANGED report
  /\ UNCHANGED <<source, ledger, registration, reproduction, packages>>

(* The command validates what it wrote, and exits 1, 2 or 0.               *)
ValidateReport(s) ==
  LET written == report[OutputOf[s]] IN
  /\ job[s].at = "written"
  /\ Go(s, IF IssuesOf(written, ledger, reproduction["work"]) # {} THEN "rejected"
           ELSE written.status)
  /\ UNCHANGED <<source, ledger, registration, report, reproduction, packages>>

Die(s) ==
  /\ job[s].at \in SweepSteps
  /\ Go(s, "dead")
  /\ UNCHANGED <<source, ledger, registration, report, reproduction, packages>>

(* The strategy file may be edited at any time.                            *)
EditSource ==
  /\ source' \in Sources \ {source}
  /\ UNCHANGED <<ledger, registration, report, reproduction, job, packages>>

(* A package is reproduced and the outcome bound to a report, beside it or *)
(* inside the source package.                                              *)
BindReproduction(d, o) ==
  /\ report[o] # Nothing
  /\ \E status \in {"pass", "blocked"} :
       reproduction' = [reproduction EXCEPT ![d] = [status |-> status, bound |-> BindingOf(report[o])]]
  /\ UNCHANGED <<source, ledger, registration, report, job, packages>>

(***************************************************************************)
(* The assembler                                                           *)
(***************************************************************************)

(* The report must validate against the ledger, be about the source        *)
(* package and claim promotion.                                            *)
ReadEvidence(a, o) ==
  /\ assembly[a].at = "new"
  /\ report[o] # Nothing
  /\ IF /\ report[o].plan.costs # Nothing
        /\ report[o].promotion_eligible
        /\ IssuesOf(report[o], ledger, reproduction["work"]) = {}
       THEN assembly' = [assembly EXCEPT ![a] = [at |-> "read", report |-> report[o]]]
       ELSE assembly' = [assembly EXCEPT ![a].at = "refused"]
  /\ UNCHANGED <<evidence, candidate>>

(* From here on an error removes the target directory, whoever made it.    *)
Abandon(a) ==
  /\ candidate' = [candidate EXCEPT ![TargetOf[a]] = Nothing]
  /\ assembly' = [assembly EXCEPT ![a].at = "refused"]

(* The source package is copied, its reproduction report with it, unless   *)
(* the target exists: that is an error.                                    *)
Supersede(a) ==
  /\ assembly[a].at = "read"
  /\ IF candidate[TargetOf[a]] = Nothing
       THEN /\ candidate' = [candidate EXCEPT ![TargetOf[a]] =
                               [by |-> a, report |-> Nothing, reproduction |-> reproduction["package"]]]
            /\ assembly' = [assembly EXCEPT ![a].at = "copied"]
       ELSE Abandon(a)
  /\ UNCHANGED evidence

(* The evidence is copied in, and the fields derived from it.              *)
Fill(a) ==
  /\ assembly[a].at = "copied"
  /\ IF candidate[TargetOf[a]] # Nothing
       THEN /\ candidate' = [candidate EXCEPT ![TargetOf[a]].report = assembly[a].report]
            /\ assembly' = [assembly EXCEPT ![a].at = "filled"]
       ELSE Abandon(a)
  /\ UNCHANGED evidence

(* Trusting the validation of the evidence it was assembled from.          *)
FinishOnFirstReading(a) ==
  /\ assembly[a].at = "filled"
  /\ IF candidate[TargetOf[a]] # Nothing
       THEN /\ assembly' = [assembly EXCEPT ![a].at = "assembled"]
            /\ UNCHANGED candidate
       ELSE Abandon(a)
  /\ UNCHANGED evidence

(* The package is validated as a whole, against the ledger as it is now.   *)
Finish(a) ==
  LET package == candidate[TargetOf[a]] IN
  /\ assembly[a].at = "filled"
  /\ IF /\ package # Nothing
        /\ package.report # Nothing
        /\ IssuesOf(package.report, ledger, package.reproduction) = {}
       THEN /\ assembly' = [assembly EXCEPT ![a].at = "assembled"]
            /\ UNCHANGED candidate
       ELSE Abandon(a)
  /\ UNCHANGED evidence

DieAssembling(a) ==
  /\ assembly[a].at \in AssemblySteps
  /\ assembly' = [assembly EXCEPT ![a].at = "dead"]
  /\ UNCHANGED <<evidence, candidate>>

(***************************************************************************)
(* The specification                                                       *)
(***************************************************************************)

SweepStep(s) ==
  \/ Begin(s)
  \/ CreateRegistration(s)
  \/ WriteRegistration(s)
  \/ AppendReceipt(s)
  \/ CountTrials(s)
  \/ CountOwnVariants(s)
  \/ RunFold(s)
  \/ WriteReport(s)
  \/ ValidateReport(s)

AssemblyStep(a) ==
  \/ Supersede(a)
  \/ Fill(a)
  \/ Finish(a)

Next ==
  \/ \E s \in Sweeps : SweepStep(s) \/ Die(s)
  \/ EditSource
  \/ \E d \in {"work", "package"}, o \in Outputs : BindReproduction(d, o)
  \/ \E a \in Assemblers, o \in Outputs : ReadEvidence(a, o)
  \/ \E a \in Assemblers : AssemblyStep(a) \/ DieAssembling(a)

Spec == Init /\ [][Next]_vars

(***************************************************************************)
(* Properties                                                              *)
(***************************************************************************)

Reported == {o \in Outputs : report[o] # Nothing}

(* A recorded report deflates its statistics by every trial registered at  *)
(* its key up to its own, whatever source they ran: "winner without the    *)
(* number and results of all trials" is what                               *)
(* docs/implementation/ROBUSTNESS_RISK_AUDIT.md:4 rules out.  The count is *)
(* a second reading of the ledger, not the one its receipt was made from.  *)
TrialsAreCounted ==
  \A o \in Reported : report[o].receipt # Nothing =>
    report[o].trials >=
      TrialsOf(SubSeq(SameKey(ledger, report[o].registration), 1, report[o].receipt))

(* The report at an output is of the registration beside it, and is held   *)
(* by one sweep: a retry, or another sweep with the same output, registers *)
(* nothing over a burnt one, even if the first died before it finished     *)
(* (_persist_registration; CLI_CONTRACT.md:156 "create-only writes").      *)
ReportsAreOfTheirRegistration ==
  /\ \A o \in Reported : registration[o] = report[o].registration
  /\ \A s, t \in Sweeps :
       /\ s # t /\ OutputOf[s] = OutputOf[t]
       /\ {job[s].at, job[t].at} \cap (SweepSteps \ {"planned"}) # {}
       => {job[s].at, job[t].at} \cap {"new", "planned", "refused", "dead"} # {}

(* What a report may claim promotion on (SCIENTIFIC_ENGINE_UPGRADE_V0.15.md*)
(* 45-59): in every fold the best of the train cells is what was tested,   *)
(* on events neither trained on nor within the purge; no event is tested   *)
(* twice; a null that never moved is beaten; and what was selected was not *)
(* chosen by its test returns.                                             *)
PromotionIsOutOfSample ==
  \A o \in Reported : report[o].promotion_eligible =>
    LET r == report[o]
        contenders == Variants \ {r.plan.null}
        tested(k)  == Window(r.folds[k].test_start, r.folds[k].test_end)
        trained(k) == Window(r.folds[k].train_start, r.folds[k].train_end + r.plan.purge)
    IN /\ Total(r.selected) > 0
       /\ \A k \in DOMAIN r.folds :
            /\ tested(k) \cap trained(k) = {}
            /\ \A j \in 1..(k - 1) : tested(j) \cap tested(k) = {}
            /\ \A v \in contenders :
                 r.cells[k].train[v].net <= r.cells[k].train[r.picks[k].winner].net
            /\ \A phase \in {"train", "test"} :
                 Range(r.cells[k][phase][r.plan.null].periodic) \subseteq {0}

(* What a report shows that validation does not accept, of all that a      *)
(* sweep may be invoked with and come to.                                  *)
SplitsKeepWhatWasAskedFor(plan) ==
  plan.mode = "diagnostic_splits" => plan.embargo = 0 /\ plan.purge >= 0

SomeCellCameBack(r) == \E c \in CellsOf(r.cells) : CameBack(r.cells[c[1]][c[2]][c[3]])

StressCanBeTraced(plan) ==
  IF plan.costs # Nothing
    THEN plan.package = "apart"
    ELSE RowsFitSchema(plan.caller_stress) /\ ScenariosAreUnique(plan.caller_stress)

(* Producer and validator derive a report's figures separately, folds,     *)
(* selection, returns, statistics, null, neighbors and stresses, and agree *)
(* on every report that is complete, claims nothing and is the first at    *)
(* its key: the command calls such a report "generated robustness report   *)
(* is invalid" (cli_commands/analysis.py) only when splits cut by hand     *)
(* were asked to keep an embargo they do not keep, a strategy came back    *)
(* from an equity of 0, the package its costs are from is not to be found, *)
(* or the caller's own rows or date are not in order.                      *)
HonestReportsValidate ==
  \A s \in Sweeps : job[s].at = "rejected" =>
    LET r == report[OutputOf[s]] IN
    \/ r.status = "blocked"
    \/ r.promotion_eligible
    \/ r.trials # Cardinality(Variants)
    \/ ~SplitsKeepWhatWasAskedFor(r.plan)
    \/ SomeCellCameBack(r)
    \/ ~StressCanBeTraced(r.plan)
    \/ ~r.plan.dated

(* At the moment a candidate is assembled, its report has counted every    *)
(* trial then in the ledger: a sweep registered while it was being put     *)
(* together voids it (candidate.py validates the final package again).     *)
CandidatesCountAllTrials ==
  [][\A a \in Assemblers :
       assembly'[a].at = "assembled" /\ assembly[a].at # "assembled" =>
         LET r == candidate'[TargetOf[a]].report IN
         r.trials = TrialsOf(SameKey(ledger', r.registration))]_vars
=============================================================================
