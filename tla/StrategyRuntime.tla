-------------------------- MODULE StrategyRuntime ---------------------------
(***************************************************************************)
(* What the supervisor of a strategy process makes of it                   *)
(* (strategy_runtime/runtime.py).  A request says how the worker is to be  *)
(* launched; a process says what the launched worker did, and for a        *)
(* hardened launch what the sandbox proved of itself before and after.  A  *)
(* process exits, fails or times out, and leaves no output, or one that is *)
(* oversized, malformed, forged, about other inputs, or whole.             *)
(*                                                                         *)
(* A whole output holds the equity after each event, and the final one.    *)
(* Equity is measured as a level above the initial cash, in units in which *)
(* returns add up where the code compounds them (a logarithm); equity of 0 *)
(* is TotalLoss, which is also the return of a fall to 0.                  *)
(***************************************************************************)
EXTENDS Integers, Sequences, Functions

CONSTANT Nothing         \* null

InitialCash == 0

(* Below every other level and every other return.                         *)
TotalLoss == -1000

(* A request to run: launcher and policy are given or not, and the policy  *)
(* authorises the launcher once, or not.                                   *)
RequestIsLegal(request) ==
  \/ /\ request.mode = "trusted_local"
     /\ ~request.launcher
     /\ ~request.policy
  \/ /\ request.mode = "hardened"
     /\ request.launcher
     /\ request.policy
     /\ request.authorised

(* The probe's own process must end well, attest its request, and have     *)
(* been denied everything it tried.                                        *)
ProbeHolds(process) ==
  /\ process.probe_exit = "exited"
  /\ process.probe_attested
  /\ process.probe_denied

(* The result file is read only after a clean exit, within the output      *)
(* limit, and must fingerprint itself and name the inputs requested.       *)
OutputIsSound(process) ==
  /\ process.exit = "exited"
  /\ process.output = "whole"
  /\ ~process.crossed_boundary

IsHardened(request) == request.mode = "hardened"

RunSucceeds(request, process) ==
  /\ RequestIsLegal(request)
  /\ IsHardened(request) => ProbeHolds(process) /\ process.attested
  /\ OutputIsSound(process)

RunStrategy(request, process) ==
  [ equity   |-> process.equity,
    final    |-> process.final,
    source   |-> process.source,
    eligible |-> IsHardened(request) /\ process.promotion_eligible ]

(* Two fresh workers must agree on everything they return.                 *)
RunVerified(request, first, second) ==
  /\ RunSucceeds(request, first)
  /\ RunSucceeds(request, second)
  /\ RunStrategy(request, first) = RunStrategy(request, second)

(***************************************************************************)
(* Returns                                                                 *)
(***************************************************************************)

Total(returns) ==
  LET upTo[i \in 0..Len(returns)] == IF i = 0 THEN 0 ELSE upTo[i - 1] + returns[i]
  IN upTo[Len(returns)]

(* What compounding makes of returns: nothing recovers from a total loss.  *)
Compounded(returns) ==
  IF TotalLoss \in Range(returns) THEN TotalLoss ELSE Total(returns)

(* The levels a result goes through; a final one not among the rows counts.*)
Levels(result) ==
  LET levels == <<InitialCash>> \o result.equity
  IN IF levels[Len(levels)] = result.final THEN levels ELSE Append(levels, result.final)

ReturnOf(from, to) == IF to = TotalLoss THEN TotalLoss ELSE to - from

(* One return for each two levels that follow one another, none for those  *)
(* that start from nothing, though a strategy may come back from there.    *)
PeriodicReturns(result) ==
  LET levels  == Levels(result)
      periods == SelectSeq([i \in 1..(Len(levels) - 1) |-> i], LAMBDA i : levels[i] # TotalLoss)
  IN IF periods = <<>>
       THEN <<ReturnOf(InitialCash, result.final)>>
       ELSE [j \in DOMAIN periods |-> ReturnOf(levels[periods[j]], levels[periods[j] + 1])]

NetReturn(result) == ReturnOf(InitialCash, result.final)

(***************************************************************************)
(* Cells                                                                   *)
(***************************************************************************)

FailedCell == [status |-> "failed", net |-> Nothing, periodic |-> <<>>, eligible |-> FALSE]

(* One cell of a sweep: any exception of the run is a failed cell.         *)
RunCell(request, first, second) ==
  LET result == RunStrategy(request, first) IN
  IF RunVerified(request, first, second)
    THEN [ status   |-> "complete",
           net      |-> NetReturn(result),
           periodic |-> PeriodicReturns(result),
           eligible |-> result.eligible ]
    ELSE FailedCell

(* A strategy that lost everything and was not left with nothing: only of  *)
(* such a cell the net return is not its periodic returns compounded.      *)
CameBack(cell) == TotalLoss \in Range(cell.periodic) /\ cell.net # TotalLoss
=============================================================================
