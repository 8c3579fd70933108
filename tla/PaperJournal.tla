---------------------------- MODULE PaperJournal ----------------------------
(***************************************************************************)
(* What `the-pass paper observe` promises of one observation directory,    *)
(* whatever the process does on the way: batches are accepted one at a     *)
(* time and never rewritten, each accepted batch adds one cumulative       *)
(* result that continues the one before, and a frozen observation stays    *)
(* frozen (paper/observer.py, observe_strategy and _freeze). An event is   *)
(* its sort key; a result is what the strategy did at each event, every    *)
(* signal filled at once and at one price.                                 *)
(***************************************************************************)
EXTENDS Integers, FiniteSets, SequencesExt

CONSTANTS BatchIds,          \* batch identifiers a caller may use
          Contents,          \* event sets a batch may hold
          Decided,           \* Decided[e]: what the strategy does at event e
          Interval           \* full_replay_interval_batches

VARIABLES batches,           \* the accepted batches, in order
          runs,              \* runs[n]: the result after the n-th batch
          frozen             \* sticky stop

journalVars == <<batches, runs, frozen>>

Batch == [id : BatchIds, events : Contents]

Ids(rows) == {rows[n].id : n \in DOMAIN rows}

Events(rows) == UNION {rows[n].events : n \in DOMAIN rows}

(* CanonicalEvent.sort_key orders the events of a batch totally.            *)
Sorted(events) ==
  CHOOSE seq \in [1..Cardinality(events) -> events] :
    \A m, n \in DOMAIN seq : m < n => seq[m] < seq[n]

Decisions == {"buy", "sell", "hold"}
Act       == [event : UNION Contents, does : Decisions]
Results   == Seq(Act)

(* A strategy taken through the events in sort order. *)
Acts(events, does) ==
  LET order == Sorted(events)
  IN [n \in DOMAIN order |-> [event |-> order[n], does |-> does[order[n]]]]

(* A clean replay acts on every event of the batches once.                  *)
Replay(rows) == Acts(Events(rows), Decided)

Number(result, decision) == Cardinality({n \in DOMAIN result : result[n].does = decision})

(* All that parity compares: how many signals there were (each filled, and  *)
(* charged, alike) and the final portfolio.                                 *)
Totals(result) ==
  [signals   |-> Number(result, "buy") + Number(result, "sell"),
   portfolio |-> Number(result, "buy") - Number(result, "sell")]

(* The sequence numbers at which a clean replay is compared.                *)
AuditDue(n) == n % Interval = 0

JournalInit == batches = <<>> /\ runs = <<>> /\ frozen = FALSE

LastResult(results) == IF results = <<>> THEN <<>> ELSE Last(results)

(* A batch of events not seen before, with the result it leads to: what was *)
(* done before stays as it was, and an audited result agrees with the clean *)
(* replay in its totals.                                                    *)
Observe(row) ==
  /\ ~frozen
  /\ row.id \notin Ids(batches)
  /\ row.events \cap Events(batches) = {}
  /\ batches' = Append(batches, row)
  /\ Len(runs') = Len(runs) + 1
  /\ runs' = Append(runs, Last(runs'))
  /\ Last(runs') \in Results
  /\ IsPrefix(LastResult(runs), Last(runs'))
  /\ AuditDue(Len(runs')) => Totals(Last(runs')) = Totals(Replay(batches'))
  /\ UNCHANGED frozen

(* The freeze may keep the batch it was decided on as evidence.             *)
Freeze(evidence) ==
  /\ ~frozen
  /\ Ids(evidence) \cap Ids(batches) = {}
  /\ batches' = batches \o evidence
  /\ frozen'  = TRUE
  /\ UNCHANGED runs

JournalNext ==
  \/ \E row \in Batch : Observe(row)
  \/ \E evidence \in {<<>>} \cup {<<row>> : row \in Batch} : Freeze(evidence)

JournalSpec == JournalInit /\ [][JournalNext]_journalVars
=============================================================================
