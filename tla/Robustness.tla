----------------------------- MODULE Robustness -----------------------------
(***************************************************************************)
(* The robustness report: what a sweep derives from its cells              *)
(* (robustness/workflow.py, robustness/stress.py).                         *)
(*                                                                         *)
(* Returns are those of StrategyRuntime.  PBO, DSR and Reality Check are   *)
(* one verdict on the selected returns and the number of trials.           *)
(***************************************************************************)
EXTENDS StrategyRuntime, WalkForward, SequencesExt

CONSTANTS
  Variants,                \* the indices of the registered variants, 0 .. n - 1
  MinObservations,         \* effective observations a promotion needs; 30 in the code
  PassesThresholds(_, _)   \* do these returns survive the thresholds after so many trials?

ASSUME VariantsAssumption == IsFiniteSet(Variants) /\ Variants = 0..(Cardinality(Variants) - 1)

AbsoluteOf(n)  == IF n < 0 THEN -n ELSE n

(***************************************************************************)
(* Registration                                                            *)
(***************************************************************************)

(* A flat null, or a seeded random one that shares no strategy key with    *)
(* the reference variant.                                                  *)
NullIsValid(plan) ==
  /\ plan.null_kind \in {"flat", "seeded_random"}
  /\ plan.null_kind = "seeded_random" => plan.seeded /\ ~plan.keys_shared

InputsAreLegal(plan) ==
  /\ Cardinality(Variants) >= 2
  /\ plan.reference \in Variants
  /\ plan.null \in Variants \ {plan.reference}
  /\ NullIsValid(plan)
  /\ PlanIsLegal(plan)

(***************************************************************************)
(* Folds                                                                   *)
(***************************************************************************)

Complete(cells) == \A v \in Variants : cells[v].status = "complete"

NetReturns(cells) == [v \in Variants |-> cells[v].net]

(* Selecting in hindsight, from the test cells.                            *)
WinnerInHindsight(fold, null) ==
  IF Complete(fold.train) /\ Complete(fold.test)
    THEN SelectTrainWinner(NetReturns(fold.test), Variants \ {null})
    ELSE Nothing

(* The winner of a fold is chosen from its train cells, all of them        *)
(* complete, and the null cannot win.                                      *)
Winner(fold, null) ==
  IF Complete(fold.train)
    THEN SelectTrainWinner(NetReturns(fold.train), Variants \ {null})
    ELSE Nothing

(* A fold contributes its winner's test returns when that one cell is      *)
(* complete, whatever became of the other cells.                           *)
IsScored(fold, null) ==
  /\ Winner(fold, null) # Nothing
  /\ fold.test[Winner(fold, null)].status = "complete"

IsAligned(cells) ==
  /\ Complete(cells)
  /\ \A v, w \in Variants : Len(cells[v].periodic) = Len(cells[w].periodic)

NeighborsOf(v, null) == {v - 1, v + 1} \cap (Variants \ {null})

Pick(fold, null) ==
  LET winner == Winner(fold, null) IN
  [ winner |-> winner,
    score  |-> IF winner = Nothing THEN Nothing ELSE fold.train[winner].net,
    test   |-> IF IsScored(fold, null) THEN fold.test[winner].net ELSE Nothing ]

(* The returns of the folds for which Counts holds, end to end.            *)
Stitch(cells, Counts(_), Returns(_)) ==
  FlattenSeq([k \in DOMAIN cells |-> IF Counts(cells[k]) THEN Returns(cells[k]) ELSE <<>>])

SelectedReturns(cells, null) ==
  Stitch(cells, LAMBDA f : IsScored(f, null), LAMBDA f : f.test[Winner(f, null)].periodic)

NullReturns(cells, null) ==
  Stitch(cells, LAMBDA f : IsScored(f, null), LAMBDA f : f.test[null].periodic)

VariantReturns(cells, v) ==
  Stitch(cells, LAMBDA f : IsAligned(f.test), LAMBDA f : f.test[v].periodic)

(* The worst complete neighbor of the winner, fold by fold.                *)
NeighborReturns(cells, null) ==
  LET WorstOf(f) ==
        LET nets == {f.test[v].net :
                       v \in {w \in NeighborsOf(Winner(f, null), null) : f.test[w].status = "complete"}}
        IN IF nets = {} THEN <<>> ELSE <<Min(nets)>>
  IN Stitch(cells, LAMBDA f : IsScored(f, null), WorstOf)

NeighborIndices(cells, null) ==
  UNION {IF Winner(cells[k], null) = Nothing THEN {} ELSE NeighborsOf(Winner(cells[k], null), null)
           : k \in DOMAIN cells}

AlignmentFailed(cells) == \E k \in DOMAIN cells : ~IsAligned(cells[k].test)

CellsOf(cells) ==
  {<<k, phase, v>> : k \in DOMAIN cells, phase \in {"train", "test"}, v \in Variants}

FailedCells(cells) ==
  {c \in CellsOf(cells) : cells[c[1]][c[2]][c[3]].status = "failed"}

StatisticsAreComplete(cells, null) ==
  /\ FailedCells(cells) = {}
  /\ ~AlignmentFailed(cells)
  /\ Len(SelectedReturns(cells, null)) >= 4
  /\ \A v, w \in Variants : Len(VariantReturns(cells, v)) = Len(VariantReturns(cells, w))

Statistics(cells, null, trials) ==
  [ trials |-> trials,
    passes |-> /\ StatisticsAreComplete(cells, null)
               /\ PassesThresholds(SelectedReturns(cells, null), trials) ]

MatrixOf(cells, null) ==
  IF StatisticsAreComplete(cells, null)
    THEN [v \in Variants |-> VariantReturns(cells, v)]
    ELSE Nothing

(***************************************************************************)
(* Null, stability and stress                                              *)
(***************************************************************************)

(* Only a flat null can support promotion, and it must never have moved.   *)
NullStructurePasses(cells, plan) ==
  /\ plan.null_kind = "flat"
  /\ \A c \in CellsOf(cells) : c[3] = plan.null =>
       LET cell == cells[c[1]][c[2]][c[3]] IN
       cell.status = "complete" /\ \A i \in DOMAIN cell.periodic : cell.periodic[i] = 0

NullStatus(cells, plan) ==
  IF /\ StatisticsAreComplete(cells, plan.null)
     /\ NullStructurePasses(cells, plan)
     /\ Total(SelectedReturns(cells, plan.null)) > Total(NullReturns(cells, plan.null))
    THEN "pass" ELSE "blocked"

WorstNeighbor(worst) == IF worst = <<>> THEN Nothing ELSE Min(Range(worst))

StabilityStatus(cells, plan) ==
  LET worst == NeighborReturns(cells, plan.null) IN
  IF /\ StatisticsAreComplete(cells, plan.null)
     /\ Len(worst) = Len(cells)
     /\ WorstNeighbor(worst) > 0
    THEN "pass" ELSE "blocked"

(* Multiples are in halves: fees, slippage, funding, and how often the     *)
(* cost of missed fills is added once more.                                *)
CostScenarios ==
  [ fees_x1_5                   |-> <<3, 2, 2, 0>>,
    slippage_x2                 |-> <<2, 4, 2, 0>>,
    latency_x2                  |-> <<2, 3, 2, 1>>,
    depth_x0_5                  |-> <<2, 4, 2, 1>>,
    depth_x0_25                 |-> <<2, 8, 2, 2>>,
    maker_fill_probability_x0_5 |-> <<2, 2, 2, 2>>,
    funding_worst_decile        |-> <<2, 2, 4, 0>> ]

LossScenarios == {"exchange_outage", "missing_interval", "correlated_gap", "forced_deleverage"}

MandatoryStress ==
  << "fees_x1_5", "slippage_x2", "latency_x2", "depth_x0_5", "depth_x0_25",
     "maker_fill_probability_x0_5", "funding_worst_decile",
     "exchange_outage", "missing_interval", "correlated_gap", "forced_deleverage" >>

(* Money per unit of return, so that the selected returns earn the gross.  *)
Scale(costs, selected) ==
  IF Total(selected) # 0
    THEN AbsoluteOf(costs.gross) \div AbsoluteOf(Total(selected))
    ELSE Max({AbsoluteOf(costs.gross), 1})

WorstPeriod(costs, selected) ==
  Max({0} \cup {-selected[i] : i \in DOMAIN selected}) * Scale(costs, selected)

MaximumDrawdown(costs, selected) ==
  Max({0} \cup {-Total(SubSeq(selected, i, j)) : i, j \in DOMAIN selected}) * Scale(costs, selected)

LossOf(scenario, costs, selected) ==
  CASE scenario \in {"exchange_outage", "missing_interval"} -> WorstPeriod(costs, selected)
    [] scenario = "correlated_gap"    -> 2 * WorstPeriod(costs, selected)
    [] scenario = "forced_deleverage" -> MaximumDrawdown(costs, selected)

(* Twice the profit left under a scenario.                                 *)
TwiceNet(scenario, costs, selected) ==
  LET m == IF scenario \in DOMAIN CostScenarios THEN CostScenarios[scenario] ELSE <<2, 2, 2, 0>>
      l == IF scenario \in LossScenarios THEN LossOf(scenario, costs, selected) ELSE 0
  IN 2 * (costs.gross - costs.fixed - l) - m[1] * costs.fees - m[2] * costs.slippage
       - m[3] * costs.funding - 2 * (1 + m[4]) * costs.missed

RunStressSuite(costs, selected) ==
  [i \in DOMAIN MandatoryStress |->
    [ scenario |-> MandatoryStress[i],
      status   |-> IF TwiceNet(MandatoryStress[i], costs, selected) > 0
                     THEN "pass" ELSE "blocked" ]]

(* Deriving the stresses needs selected returns, or the sweep fails.       *)
StressIsDerivable(cells, plan) ==
  plan.costs # Nothing => SelectedReturns(cells, plan.null) # <<>>

(* Rows of the caller are taken as they are.  What is derived names the    *)
(* package it was derived from, by a path relative to the directory the    *)
(* sweep runs in.                                                          *)
Stress(cells, plan) ==
  IF plan.costs # Nothing
    THEN [ source  |-> "cost_waterfall",
           package |-> plan.package,
           rows    |-> RunStressSuite(plan.costs, SelectedReturns(cells, plan.null)) ]
    ELSE [ source |-> "caller", package |-> Nothing, rows |-> plan.caller_stress ]

StressPasses(stress) ==
  /\ Range(MandatoryStress) \subseteq {row.scenario : row \in Range(stress.rows)}
  /\ stress.source = "cost_waterfall"
  /\ \A row \in Range(stress.rows) : row.status = "pass"

(***************************************************************************)
(* The report                                                              *)
(***************************************************************************)

(* Every cell ran hardened, and none failed.                               *)
RuntimeIsPromotional(cells) ==
  \A c \in CellsOf(cells) : cells[c[1]][c[2]][c[3]].eligible

PromotionEligible(cells, plan, receipt, trials) ==
  /\ plan.mode = "purged_walk_forward"
  /\ StatisticsAreComplete(cells, plan.null)
  /\ Len(SelectedReturns(cells, plan.null)) >= MinObservations
  /\ plan.execution_version = 2
  /\ Statistics(cells, plan.null, trials).passes
  /\ plan.null_kind = "flat"
  /\ NullStatus(cells, plan) = "pass"
  /\ StabilityStatus(cells, plan) = "pass"
  /\ StressPasses(Stress(cells, plan))
  /\ receipt # Nothing
  /\ RuntimeIsPromotional(cells)

(* registration is what was registered before the first cell ran, receipt  *)
(* the ledger's word for it, or Nothing.                                   *)
ReportOf(cells, plan, registration, receipt, trials) ==
  LET worst == NeighborReturns(cells, plan.null)
      bad   == AlignmentFailed(cells)
  IN
  [ registration |-> registration,
    receipt      |-> receipt,
    trials       |-> trials,
    plan         |-> plan,
    folds        |-> NormalizedFolds(plan),
    cells        |-> cells,
    picks        |-> [k \in DOMAIN cells |-> Pick(cells[k], plan.null)],
    failed_cells |-> Cardinality(FailedCells(cells)) + (IF bad THEN 1 ELSE 0),
    status       |-> IF FailedCells(cells) # {} \/ bad THEN "blocked" ELSE "complete",
    selected     |-> SelectedReturns(cells, plan.null),
    matrix       |-> MatrixOf(cells, plan.null),
    statistics   |-> Statistics(cells, plan.null, trials),
    null_status  |-> NullStatus(cells, plan),
    stability    |-> [ status    |-> StabilityStatus(cells, plan),
                       neighbors |-> NeighborIndices(cells, plan.null),
                       worst     |-> WorstNeighbor(worst) ],
    stress       |-> Stress(cells, plan),
    promotion_eligible |-> PromotionEligible(cells, plan, receipt, trials) ]
=============================================================================
