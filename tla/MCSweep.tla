------------------------------ MODULE MCSweep -------------------------------
(***************************************************************************)
(* Three sweeps of one experiment: a first one that may be invoked with    *)
(* anything and meet one bad fold, a second that retries its output, and a *)
(* third that reports elsewhere, each burning the same holdout.  Three     *)
(* variants, of which the last is the null; four folds of two returns.     *)
(***************************************************************************)
EXTENDS Sweep, TLC

CONSTANTS first, retry, other, out1, out2, v1, v2, a1, a2, target

Outs    == (first :> out1) @@ (retry :> out1) @@ (other :> out2)
OneKey  == [s \in Sweeps |-> "experiment"]
OneTarget == [a \in Assemblers |-> target]

(* The threshold on the deflated Sharpe ratio rises with the trials.       *)
Deflated(selected, trials) == Total(selected) >= trials

(***************************************************************************)
(* Processes, cells and folds                                              *)
(***************************************************************************)
Hardened == [mode |-> "hardened", launcher |-> TRUE, policy |-> TRUE, authorised |-> TRUE]
Local    == [mode |-> "trusted_local", launcher |-> FALSE, policy |-> FALSE, authorised |-> FALSE]

Clean(returns) ==
  [ exit |-> "exited", output |-> "whole", crossed_boundary |-> FALSE, attested |-> TRUE,
    probe_exit |-> "exited", probe_attested |-> TRUE, probe_denied |-> TRUE,
    promotion_eligible |-> TRUE, source |-> v1,
    equity |-> [i \in DOMAIN returns |-> Total(SubSeq(returns, 1, i))], final |-> Total(returns) ]

(* The equity a process is given, in place of one made of returns.         *)
Through(equity, final) == [Clean(<<>>) EXCEPT !.equity = equity, !.final = final]

Twice(request, process) == RunCell(request, process, process)

Cells(request, r0, r1, rn) ==
  0 :> Twice(request, Clean(r0)) @@ 1 :> Twice(request, Clean(r1)) @@ 2 :> Twice(request, Clean(rn))

Flat == <<0, 0>>
GoodTrain(request) == Cells(request, <<1, 0>>, <<1, 1>>, Flat)
GoodTest(request)  == Cells(request, <<1, 0>>, <<1, 1>>, Flat)
Good(request)      == [train |-> GoodTrain(request), test |-> GoodTest(request)]

Bad(request) ==
  { \* a tie, won by the lower index
    [Good(request) EXCEPT !.train = Cells(request, <<1, 1>>, <<2, 0>>, Flat)],
    \* a train winner that loses out of sample, with a better neighbor
    [train |-> Cells(request, <<2, 1>>, <<1, 1>>, Flat), test |-> Cells(request, <<1, 0>>, <<2, 1>>, Flat)],
    \* a null that wins in training
    [Good(request) EXCEPT !.train[2] = Twice(request, Clean(<<3, 0>>))],
    \* a null that moves, and nets to nothing
    [Good(request) EXCEPT !.test[2] = Twice(request, Clean(<<1, -1>>))],
    \* a worker that times out in training
    [Good(request) EXCEPT !.train[0] = Twice(request, [Clean(Flat) EXCEPT !.exit = "timed_out"])],
    \* two workers that disagree, out of sample, on a variant that was not selected
    [Good(request) EXCEPT !.test[0] = RunCell(request, Clean(<<1, 0>>), Clean(<<0, 1>>))],
    \* the selected variant's result is not about the inputs requested
    [Good(request) EXCEPT !.test[1] = Twice(request, [Clean(Flat) EXCEPT !.output = "other_inputs"])],
    \* a variant that yields fewer returns than the others
    [Good(request) EXCEPT !.test[0] = Twice(request, Clean(<<1>>))],
    \* a variant that lost everything and came back, not selected, and one that did not
    [Good(request) EXCEPT !.test[0] = Twice(request, Through(<<TotalLoss, -2, -1>>, -1))],
    [Good(request) EXCEPT !.test[0] = Twice(request, Through(<<1, TotalLoss>>, TotalLoss))],
    \* a final equity that is in no row
    [Good(request) EXCEPT !.test[1] = Twice(request, Through(<<1>>, 2))],
    \* a launcher whose probe got through
    [Good(request) EXCEPT !.test[1] = Twice(request, [Clean(<<1, 1>>) EXCEPT !.probe_denied = FALSE])],
    \* a launcher the policy does not authorise
    [Good(request) EXCEPT !.train[1] = Twice([request EXCEPT !.authorised = FALSE], Clean(<<1, 1>>))] }

Folds == ("hardened" :> {Good(Hardened)} \cup Bad(Hardened)) @@ ("trusted_local" :> {Good(Local)})

(***************************************************************************)
(* Plans                                                                   *)
(***************************************************************************)
Costs == [gross |-> 16, fees |-> 1, fixed |-> 1, slippage |-> 1, funding |-> 1, missed |-> 1]

Best ==
  [ mode |-> "purged_walk_forward", observations |-> 16, train_size |-> 2, test_size |-> 1,
    purge |-> 1, embargo |-> 2, splits |-> <<>>, reference |-> 0, null |-> 2,
    null_kind |-> "flat", seeded |-> FALSE, keys_shared |-> FALSE, execution_version |-> 2,
    ledgered |-> TRUE, costs |-> Costs, package |-> "apart", caller_stress |-> <<>>,
    dated |-> TRUE, mode_of_execution |-> "hardened" ]

Older == [Best EXCEPT !.execution_version = 1]

Rows(status) == [i \in DOMAIN MandatoryStress |-> [scenario |-> MandatoryStress[i], status |-> status]]

ByHand == << [start |-> 2, end |-> 3], [start |-> 3, end |-> 5],
             [start |-> 6, end |-> 7], [start |-> 7, end |-> 9] >>

Others ==
  { [Best EXCEPT !.mode_of_execution = "trusted_local"],
    [Best EXCEPT !.observations = 17, !.null_kind = "seeded_random", !.seeded = TRUE],
    [Best EXCEPT !.mode = "diagnostic_splits", !.splits = ByHand, !.embargo = 0],
    [Best EXCEPT !.ledgered = FALSE, !.execution_version = 1],
    [Best EXCEPT !.costs = Nothing, !.caller_stress = Rows("pass")],
    [Best EXCEPT !.costs = Nothing, !.caller_stress = Rows("pass") \o Rows("blocked")],
    [Older EXCEPT !.costs = Nothing, !.caller_stress = Rows("unclear")],
    [Best EXCEPT !.costs.gross = 6],
    [Best EXCEPT !.package = "beside", !.ledgered = FALSE],
    [Best EXCEPT !.package = "astray", !.mode = "diagnostic_splits", !.splits = ByHand, !.embargo = 0],
    [Best EXCEPT !.dated = FALSE, !.costs.gross = 6],
    [Best EXCEPT !.mode = "diagnostic_splits", !.splits = ByHand],
    [Best EXCEPT !.mode = "diagnostic_splits", !.splits = ByHand, !.embargo = 0, !.purge = -1],
    [Best EXCEPT !.observations = 15],
    [Best EXCEPT !.purge = -1],
    [Best EXCEPT !.null = 0] }

AllPlans == {Best, Older} \cup Others

(***************************************************************************)
(* Scope                                                                   *)
(***************************************************************************)
GoodFolds == {Good(Hardened), Good(Local)}

IsRunningCells(s) == job[s].at = "running" /\ job[s].cells # <<>>

(* What a fold comes to depends on no one else: a sweep runs its folds     *)
(* without an interruption.                                                *)
RunsFoldsAlone ==
  \A s \in Sweeps : IsRunningCells(s) => job'[s] # job[s] /\ job'[s].at # "dead"

(* Only the first sweep meets bad folds: its first, its last, or all.      *)
BadFoldsAreFew ==
  \A s \in Sweeps : job'[s].at = "running" /\ job'[s].cells # job[s].cells =>
    LET cells == job'[s].cells
        k     == Len(cells)
    IN
    \/ cells[k] \in GoodFolds /\ (k = 3 => cells[2] \in GoodFolds)
    \/ /\ s = first /\ job[s].plan = Best
       /\ \/ k = 1
          \/ k = 4 /\ cells[1] \in GoodFolds
          \/ Range(cells) = {cells[1]}

(* A first sweep in trouble, by its plan or by a fold, meets no other: what*)
(* becomes of it depends on the ledger alone, and the ledger only grows.   *)
IsInTrouble ==
  \/ job'[first].plan \notin {Nothing, Best}
  \/ \E k \in DOMAIN job'[first].cells : job'[first].cells[k] \notin GoodFolds

(* The retry, with an older execution, comes after the first sweep, and is *)
(* not run beside the other.                                               *)
InScope ==
  /\ \A s \in {retry, other} :
       /\ job'[s].plan \in {Nothing, IF s = retry THEN Older ELSE Best}
       /\ job'[s].at # "dead"
       /\ job'[s].at # "new" => ~IsInTrouble
  /\ job'[retry].at # "new" => job'[first].at \in SweepEnds /\ job'[other].at \in {"new"} \cup SweepEnds
  /\ RunsFoldsAlone
  /\ BadFoldsAreFew

(* What is reproduced passes, and the package's report is the work's.      *)
OneReproduction ==
  /\ reproduction'["work"] # Nothing => reproduction'["work"].status = "pass"
  /\ reproduction'["package"] \in {Nothing, reproduction'["work"], reproduction["package"]}

OnceEdited == source' = source \/ (source = v1 /\ job[first].at # "new" /\ job[other].at = "new")

ScopedInit == Init /\ source = v1
ScopedNext == Next /\ InScope /\ OneReproduction /\ OnceEdited
ScopedSpec == ScopedInit /\ [][ScopedNext]_vars
=============================================================================
