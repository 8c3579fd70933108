---------------------------- MODULE WalkForward -----------------------------
(***************************************************************************)
(* The folds of a robustness sweep: how they are generated                 *)
(* (robustness/statistics.py, robustness/workflow.py) and how validation   *)
(* judges those it finds in a report (validators/robustness.py).  Windows  *)
(* are half-open, as Python's are: a fold trains on the events             *)
(* train_start .. train_end - 1.                                           *)
(***************************************************************************)
EXTENDS Integers, Sequences, FiniteSets, FiniteSetsExt

MinFolds == 4

Window(start, end) == start..(end - 1)

(***************************************************************************)
(* Generation                                                              *)
(***************************************************************************)

(* Forgetting that the embargo is to be skipped.                           *)
StrideWithoutEmbargo(plan) == plan.purge + plan.test_size

(* What one fold takes of the sample, its embargo included.                *)
Stride(plan) == plan.purge + plan.test_size + plan.embargo

Cursor(plan, k) == plan.train_size + (k - 1) * Stride(plan)

FoldFits(plan, k) ==
  Cursor(plan, k) + plan.purge + plan.test_size <= plan.observations

FoldCount(plan) ==
  Cardinality({k \in 1..plan.observations : FoldFits(plan, k)})

WalkForwardFold(plan, k) ==
  LET train_end  == Cursor(plan, k)
      test_start == train_end + plan.purge
      test_end   == test_start + plan.test_size
  IN [ train_start |-> 0, train_end |-> train_end,
       test_start  |-> test_start, test_end |-> test_end,
       purged      |-> Window(train_end, test_start),
       embargoed   |-> Window(test_end, Min({plan.observations, test_end + plan.embargo})) ]

(* Splits the caller cuts by hand: the test is all that is said of a fold, *)
(* and everything before it is training.                                   *)
SplitsAreLegal(plan) ==
  \A k \in DOMAIN plan.splits :
    LET split == plan.splits[k] IN
    /\ split.start >= 2
    /\ split.end > split.start
    /\ split.end <= plan.observations
    /\ k > 1 => split.start >= plan.splits[k - 1].end

DiagnosticFold(split) ==
  [ train_start |-> 0, train_end |-> split.start,
    test_start  |-> split.start, test_end |-> split.end,
    purged      |-> {}, embargoed |-> {} ]

NormalizedFolds(plan) ==
  IF plan.mode = "purged_walk_forward"
    THEN [k \in 1..FoldCount(plan) |-> WalkForwardFold(plan, k)]
    ELSE [k \in DOMAIN plan.splits |-> DiagnosticFold(plan.splits[k])]

SizesAreLegal(plan) ==
  /\ plan.observations > 0 /\ plan.train_size > 0 /\ plan.test_size > 0
  /\ plan.purge >= 0 /\ plan.embargo >= 0

PlanIsLegal(plan) ==
  /\ plan.mode = "purged_walk_forward" => SizesAreLegal(plan)
  /\ plan.mode = "diagnostic_splits" => SplitsAreLegal(plan)
  /\ Len(NormalizedFolds(plan)) >= MinFolds

(***************************************************************************)
(* Selection                                                               *)
(***************************************************************************)

(* The best train score; among equals the lowest index.                    *)
SelectTrainWinner(scores, eligible) ==
  Min({v \in eligible : \A w \in eligible : scores[w] <= scores[v]})

(***************************************************************************)
(* Validation                                                              *)
(***************************************************************************)

IsOrdered(fold) ==
  /\ fold.train_start < fold.train_end
  /\ fold.train_end <= fold.test_start
  /\ fold.test_start < fold.test_end

PurgeIsKept(fold, purge) ==
  fold.purged = Window(Max({fold.train_end, fold.test_start - purge}), fold.test_start)

(* Only the last fold's embargo may be cut short by the end of the sample. *)
EmbargoIsKept(fold, embargo, is_last) ==
  LET expected == Window(fold.test_end, fold.test_end + embargo)
      observed == Cardinality(fold.embargoed)
  IN IF is_last
       THEN observed <= embargo /\ fold.embargoed = Window(fold.test_end, fold.test_end + observed)
       ELSE fold.embargoed = expected

FoldIssues(folds, plan) ==
  UNION { (IF IsOrdered(folds[k]) THEN {} ELSE {"fold_order"})
          \cup (IF PurgeIsKept(folds[k], plan.purge) THEN {} ELSE {"purged"})
          \cup (IF EmbargoIsKept(folds[k], plan.embargo, k = Len(folds)) THEN {} ELSE {"embargoed"})
          \cup (IF k > 1 /\ folds[k].test_start <
                     folds[k - 1].test_end + Cardinality(folds[k - 1].embargoed)
                  THEN {"test_start"} ELSE {})
        : k \in DOMAIN folds }
=============================================================================
