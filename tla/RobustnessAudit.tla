-------------------------- MODULE RobustnessAudit ---------------------------
(***************************************************************************)
(* How artifact validation recomputes a robustness report from its cells   *)
(* (validators/robustness.py, robustness_registration.py and               *)
(* robustness_evidence.py).  It is a second implementation: what it        *)
(* derives from a fold, it derives its own way.                            *)
(*                                                                         *)
(* ledger is the operator's ledger as read now; binding the                *)
(* reproduction report beside the artifact, or Nothing.                    *)
(***************************************************************************)
EXTENDS Robustness

Flag(holds, issue) == IF holds THEN {} ELSE {issue}

(***************************************************************************)
(* Registration and ledger                                                 *)
(***************************************************************************)

RegistrationIssues(report) ==
  Flag(report.plan.null \in Variants, "null_variant_index")
  \cup Flag(report.plan.reference \in Variants \ {report.plan.null}, "reference_variant_index")
  \cup Flag(NullIsValid(report.plan), "variants")

(* The receipts at the key of a registration, in order.                    *)
SameKey(ledger, registration) ==
  LET upTo[i \in 0..Len(ledger)] ==
        IF i = 0 THEN <<>>
        ELSE IF ledger[i].registration.key = registration.key
          THEN Append(upTo[i - 1], ledger[i])
          ELSE upTo[i - 1]
  IN upTo[Len(ledger)]

TrialsOf(entries) == Total([i \in DOMAIN entries |-> entries[i].variants])

(* Only a report that claims promotion is held against the ledger.         *)
RequiresLedger(report) == report.promotion_eligible

(* The receipt must be the latest attempt at its key, and the report must  *)
(* have counted every variant ever registered there.                       *)
LedgerIsCurrent(report, ledger) ==
  RequiresLedger(report) =>
    LET matching == SameKey(ledger, report.registration) IN
    /\ matching # <<>>
    /\ report.receipt = Len(matching)
    /\ matching[report.receipt].registration = report.registration
    /\ matching[report.receipt].attempt = report.receipt
    /\ report.trials = TrialsOf(matching)

(* A report that claims nothing is not confirmed by the ledger either.     *)
LedgerConfirms(report, ledger) ==
  RequiresLedger(report) /\ LedgerIsCurrent(report, ledger)

(* Otherwise the trials are taken to be the report's own variants.         *)
RecomputedTrials(report, ledger) ==
  IF RequiresLedger(report) /\ SameKey(ledger, report.registration) # <<>>
    THEN TrialsOf(SameKey(ledger, report.registration))
    ELSE Cardinality(Variants)

(***************************************************************************)
(* Cells and folds                                                         *)
(***************************************************************************)

CellIsSound(cell) ==
  IF cell.status = "complete"
    THEN cell.periodic # <<>> /\ cell.net = Compounded(cell.periodic)
    ELSE cell.net = Nothing /\ cell.periodic = <<>> /\ ~cell.eligible

CellIssues(report) ==
  Flag(\A c \in CellsOf(report.cells) : CellIsSound(report.cells[c[1]][c[2]][c[3]]), "cells")
  \cup Flag(DOMAIN report.cells = DOMAIN report.folds, "cells")

(* A fold counts only when all its test cells are complete and aligned and *)
(* it has a winner; any other fold breaks the alignment of the report.     *)
Counts(fold, null) == IsAligned(fold.test) /\ Winner(fold, null) # Nothing

RecomputedAlignmentFailed(report) ==
  \E k \in DOMAIN report.cells : ~Counts(report.cells[k], report.plan.null)

RecomputedSelected(report) ==
  Stitch(report.cells, LAMBDA f : Counts(f, report.plan.null),
         LAMBDA f : f.test[Winner(f, report.plan.null)].periodic)

RecomputedNull(report) ==
  Stitch(report.cells, LAMBDA f : Counts(f, report.plan.null),
         LAMBDA f : f.test[report.plan.null].periodic)

RecomputedNeighborReturns(report) ==
  LET null == report.plan.null
      WorstOf(f) ==
        LET nets == {f.test[v].net : v \in NeighborsOf(Winner(f, null), null)}
        IN IF nets = {} THEN <<>> ELSE <<Min(nets)>>
  IN Stitch(report.cells, LAMBDA f : Counts(f, null), WorstOf)

RecomputedNeighbors(report) ==
  UNION {IF Counts(report.cells[k], report.plan.null)
           THEN NeighborsOf(Winner(report.cells[k], report.plan.null), report.plan.null) ELSE {}
           : k \in DOMAIN report.cells}

RecomputedComplete(report) ==
  /\ ~RecomputedAlignmentFailed(report)
  /\ FailedCells(report.cells) = {}
  /\ Len(RecomputedSelected(report)) >= 4

SelectionIssues(report) ==
  LET bad    == RecomputedAlignmentFailed(report)
      failed == Cardinality(FailedCells(report.cells))
      null   == report.plan.null
      matrix == [v \in Variants |-> VariantReturns(report.cells, v)]
  IN Flag(report.picks = [k \in DOMAIN report.cells |-> Pick(report.cells[k], null)], "fold_results")
     \cup Flag(report.failed_cells = failed + (IF bad THEN 1 ELSE 0), "failed_cells")
     \cup Flag(report.status = (IF bad \/ failed > 0 THEN "blocked" ELSE "complete"), "status")
     \cup Flag(report.matrix = (IF bad THEN Nothing ELSE matrix), "oos_matrix")
     \cup Flag(report.selected = RecomputedSelected(report), "selected_oos_returns")

(***************************************************************************)
(* Statistics, null, stability and stress                                  *)
(***************************************************************************)

RecomputedStatistics(report, ledger) ==
  [ trials |-> RecomputedTrials(report, ledger),
    passes |-> /\ RecomputedComplete(report)
               /\ PassesThresholds(RecomputedSelected(report), RecomputedTrials(report, ledger)) ]

(* Statistics of an incomplete report are taken as they stand.             *)
ExpectedStatistics(report, ledger) ==
  IF RecomputedComplete(report) THEN RecomputedStatistics(report, ledger) ELSE report.statistics

StatisticsIssues(report, ledger) ==
  Flag(report.statistics = ExpectedStatistics(report, ledger), "statistics")

RecomputedNullStatus(report) ==
  IF /\ RecomputedComplete(report)
     /\ NullStructurePasses(report.cells, report.plan)
     /\ Total(RecomputedSelected(report)) > Total(RecomputedNull(report))
    THEN "pass" ELSE "blocked"

RecomputedStability(report) ==
  LET worst == RecomputedNeighborReturns(report) IN
  [ status    |-> IF /\ RecomputedComplete(report)
                     /\ Len(worst) = Len(report.folds)
                     /\ WorstNeighbor(worst) > 0
                    THEN "pass" ELSE "blocked",
    neighbors |-> RecomputedNeighbors(report),
    worst     |-> WorstNeighbor(worst) ]

(* Stresses said to come from a package's costs must come out of them, and *)
(* the package must be found, unchanged and whole, where the report says:  *)
(* its path is taken from the root of the repository the report lies in.   *)
(* It may not be the report's own directory.                               *)
SourceIsBound(stress) == stress.package = "apart"

StressIsRecomputed(report) ==
  /\ report.stress.source = "cost_waterfall"
  /\ report.plan.costs # Nothing
  /\ SourceIsBound(report.stress)
  /\ report.stress.rows = RunStressSuite(report.plan.costs, RecomputedSelected(report))

ScenariosAreUnique(rows) ==
  \A i, j \in DOMAIN rows : rows[i].scenario = rows[j].scenario => i = j

StressIssues(report) ==
  Flag(ScenariosAreUnique(report.stress.rows), "stress_results")
  \cup IF report.stress.source = "cost_waterfall"
         THEN Flag(StressIsRecomputed(report), "stress_results")
         ELSE Flag(~report.promotion_eligible, "stress_results")

(***************************************************************************)
(* Reproduction binding and the verdict                                    *)
(***************************************************************************)

BindingOf(report) ==
  [ registration |-> report.registration,
    statistics   |-> report.statistics,
    cells        |-> report.cells,
    selected     |-> report.selected ]

(* A reproduction that passed, bound to exactly what validation recomputed.*)
EvidenceIsBound(report, ledger, binding) ==
  /\ binding # Nothing
  /\ binding.status = "pass"
  /\ binding.bound = [ registration |-> report.registration,
                       statistics   |-> ExpectedStatistics(report, ledger),
                       cells        |-> report.cells,
                       selected     |-> RecomputedSelected(report) ]

PromotionConditions(report, ledger, binding) ==
  /\ report.status = "complete"
  /\ report.plan.mode = "purged_walk_forward"
  /\ RecomputedComplete(report)
  /\ Len(RecomputedSelected(report)) >= MinObservations
  /\ ExpectedStatistics(report, ledger).passes
  /\ report.plan.null_kind = "flat"
  /\ RecomputedNullStatus(report) = "pass"
  /\ RecomputedStability(report).status = "pass"
  /\ StressPasses(report.stress)
  /\ StressIsRecomputed(report)
  /\ RuntimeIsPromotional(report.cells)
  /\ report.plan.execution_version = 2
  /\ LedgerConfirms(report, ledger)
  /\ EvidenceIsBound(report, ledger, binding)

PromotionIssues(report, ledger, binding) ==
  Flag(report.promotion_eligible => EvidenceIsBound(report, ledger, binding), "evidence_binding")
  \cup Flag(report.promotion_eligible = PromotionConditions(report, ledger, binding),
            "promotion_eligible")

(***************************************************************************)
(* Schema                                                                  *)
(***************************************************************************)

(* What of an invocation is copied into its report unchecked.              *)
RowsFitSchema(rows) == \A i \in DOMAIN rows : rows[i].status \in {"pass", "blocked"}

SchemaIssues(report) ==
  Flag(report.plan.purge >= 0 /\ report.plan.embargo >= 0, "validation")
  \cup Flag(report.plan.dated, "created_at")
  \cup Flag(RowsFitSchema(report.stress.rows), "stress_results")

ContractIssues(report, ledger, binding) ==
  RegistrationIssues(report)
  \cup Flag(LedgerIsCurrent(report, ledger), "ledger_registration")
  \cup FoldIssues(report.folds, report.plan)
  \cup CellIssues(report)
  \cup SelectionIssues(report)
  \cup StatisticsIssues(report, ledger)
  \cup Flag(report.null_status = RecomputedNullStatus(report), "null_baseline")
  \cup Flag(report.stability = RecomputedStability(report), "parameter_stability")
  \cup StressIssues(report)
  \cup PromotionIssues(report, ledger, binding)

(* Nothing is recomputed of a report that does not fit its schema.         *)
IssuesOf(report, ledger, binding) ==
  IF SchemaIssues(report) # {} THEN SchemaIssues(report)
                               ELSE ContractIssues(report, ledger, binding)
=============================================================================
