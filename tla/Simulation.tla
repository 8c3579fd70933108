----------------------------- MODULE Simulation -----------------------------
(***************************************************************************)
(* EventSimulator.run_ordered (engine/simulator.py) over the fill models   *)
(* (engine/fills.py), the costs and the risk policy (risk/engine.py): one  *)
(* ordered stream of events, given in one replay or batch by batch with a  *)
(* checkpoint between, drives a strategy that may propose anything. The    *)
(* whole handling of an event is one step; an exception ends the worker.   *)
(***************************************************************************)
EXTENDS Accounting, SequencesExt

CONSTANTS Events,            \* by fill model, the events a stream may hold
          Proposals,         \* and the sequences of intents a strategy may return
          Models,            \* fill models of the execution configurations
          MinimumLatency, FeeRate, ImpactRate,
          MaxPosition, MaxNotional, MaxDailyLoss,
          DayLength,         \* receive times in one UTC day
          SamplingInterval,  \* equity_sampling_interval
          MaxEvents,         \* bound: events in the stream
          Tolerance          \* units conservation may be off by rounding

ASSUME SimulationAssumption ==
  /\ Models \subseteq {"bar", "market", "limit", "midpoint"}
  /\ MinimumLatency \in Nat /\ DayLength \in Nat \ {0} /\ SamplingInterval \in Nat \ {0}
  /\ FeeRate \in Nat /\ ImpactRate \in Nat /\ Tolerance \in Nat
  /\ MaxDailyLoss \in Nat /\ Rounded(MaxDailyLoss) = MaxDailyLoss  \* no more digits than are kept
  /\ MaxEvents \in Nat \ {0}

(* What a fill model reads of an event: the price for either side (0: none  *)
(* is offered), the mark (0: none) and the size on offer.                   *)
CanonicalEvent ==
  [kind : {"definition", "funding", "settlement", "bar", "trade", "book"},
   instrument : Instruments, buy : Nat, sell : Nat, mark : Nat, size : Nat,
   rate : Int, cost : Int, metadata : Metadata]

Proposal ==
  [instrument : Instruments, side : {"buy", "sell"}, quantity : Nat \ {0}, limit : Nat]

SimulatedIntent ==
  [id : Nat, decided : Nat, instrument : Instruments, side : {"buy", "sell"},
   quantity : Nat \ {0}, limit : Nat]

ASSUME InputsAssumption ==
  \A model \in Models :
    Events[model] \subseteq CanonicalEvent /\ Proposals[model] \subseteq Seq(Proposal)

VARIABLES config,            \* fill model, and whether batches end in a checkpoint
          status,            \* "idle" between two calls, "running", "done", "failed"
          batch,             \* what the call was given and has not processed
          book,              \* what the call holds in memory
          saved,             \* the checkpoint
          accepted, filled, dropped,  \* by intent: units allowed, filled, rejected or missed
          taken, offered,    \* units filled at the last event, and its participation limit
          opened,            \* the equity the day of the last event began with
          redefined          \* an instrument was defined after its position was opened

outcomes == <<accepted, filled, dropped, taken, offered, opened, redefined>>
simulationVars == <<config, status, batch, book, saved, outcomes>>

NewBook ==
  [portfolio |-> NewPortfolio, pending |-> <<>>, signals |-> 0,
   offset |-> 0, time |-> 0, sampled |-> {}]

NoBatch == [instruments |-> {}, unseen |-> {}, left |-> 0]

Ids == DOMAIN accepted

BookState ==
  [portfolio : Portfolio, pending : Seq(SimulatedIntent), signals : Nat,
   offset : 0..MaxEvents, time : Nat, sampled : SUBSET Nat]

TypeOK ==
  /\ config \in [model : Models, checkpointed : BOOLEAN]
  /\ status \in {"idle", "running", "done", "failed"}
  /\ batch \in [instruments : SUBSET Instruments, unseen : SUBSET Instruments, left : 0..MaxEvents]
  /\ book \in BookState /\ saved \in BookState
  /\ \A b \in {book, saved} : b.sampled \subseteq 0..(b.offset - 1)
  /\ status = "running" => book.offset + batch.left <= MaxEvents
  /\ Ids \subseteq 1..book.signals
  /\ accepted \in [Ids -> Nat] /\ filled \in [Ids -> Nat] /\ dropped \in [Ids -> Nat]
  /\ taken \in Int /\ offered \in Nat /\ opened \in Int /\ redefined \in BOOLEAN

Init ==
  /\ config \in [model : Models, checkpointed : BOOLEAN]
  /\ status = "idle"
  /\ batch = NoBatch
  /\ book = NewBook /\ saved = NewBook
  /\ accepted = <<>> /\ filled = <<>> /\ dropped = <<>>
  /\ taken = 0 /\ offered = 0 /\ opened = InitialCash /\ redefined = FALSE
-----------------------------------------------------------------------------
(* Fills: how many units of an intent an event fills, at which price, and   *)
(* whether the rest stays pending                                           *)

Waits == [units |-> 0, price |-> 0, rest |-> "pending"]

(* The price a side trades at in an event, 0 when nothing is offered.       *)
PriceFor(intent, e) == IF intent.side = "buy" THEN e.buy ELSE e.sell

Smaller(a, b) == IF a < b THEN a ELSE b

(* Every bar intent may take the whole participation limit. *)
BarOutcomeUnshared(intent, e, budget) ==
  IF e.kind # "bar" THEN Waits
  ELSE [units |-> Smaller(intent.quantity, e.size), price |-> PriceFor(intent, e),
        rest |-> "pending"]

BarOutcome(intent, e, budget) ==
  IF e.kind # "bar" THEN Waits
  ELSE [units |-> Smaller(intent.quantity, budget), price |-> PriceFor(intent, e),
        rest |-> "pending"]

MarketOutcome(intent, e) ==
  IF e.kind # "book" THEN Waits
  ELSE [units |-> IF PriceFor(intent, e) = 0 THEN 0 ELSE Smaller(intent.quantity, e.size),
        price |-> PriceFor(intent, e), rest |-> "rejected"]

Crossed(intent, e) ==
  /\ e.kind \in {"trade", "book"} /\ PriceFor(intent, e) # 0
  /\ IF intent.side = "buy" THEN e.buy <= intent.limit ELSE e.sell >= intent.limit

LimitOutcome(intent, e) ==
  IF ~Crossed(intent, e) THEN Waits
  ELSE [units |-> Smaller(intent.quantity, e.size), price |-> intent.limit,
        rest |-> IF e.size = 0 THEN "missed" ELSE "pending"]

MidpointOutcome(intent, e) ==
  IF e.kind # "book" \/ e.mark = 0 THEN Waits
  ELSE [units |-> intent.quantity, price |-> e.mark, rest |-> "pending"]

(* Evidence must come later than the decision, by more than the latency.    *)
Evidence(intent, e, time) ==
  /\ e.instrument = intent.instrument
  /\ time > intent.decided + (IF config.model = "midpoint" THEN 0 ELSE MinimumLatency)

Outcome(intent, e, time, budget) ==
  CASE ~Evidence(intent, e, time)  -> Waits
    [] config.model = "bar"        -> BarOutcome(intent, e, budget)
    [] config.model = "market"     -> MarketOutcome(intent, e)
    [] config.model = "limit"      -> LimitOutcome(intent, e)
    [] OTHER                       -> MidpointOutcome(intent, e)

Signed(intent, units) == IF intent.side = "buy" THEN units ELSE -units

(* LinearCostModel *)
Cost(units, price, rate) == (units \odot price) \otimes rate

Filled(p, intent, o) ==
  IF o.units = 0 THEN p
  ELSE ApplyFill(p, intent.instrument, Signed(intent, o.units), o.price,
                 Cost(o.units, o.price, FeeRate),
                 IF config.model = "midpoint" THEN 0 ELSE Cost(o.units, o.price, ImpactRate))

(* The intent stays pending as it was proposed. *)
RestUnreduced(intent, o) == intent

Rest(intent, o) == [intent EXCEPT !.quantity = @ - o.units]

(* One more entry in the units by intent. *)
With(units, id, n) == [k \in DOMAIN units \cup {id} |-> IF k = id THEN n ELSE units[k]]

(* One pending intent meets the event. *)
Meet(done, intent, e, time) ==
  LET o    == Outcome(intent, e, time, done.budget)
      rest == intent.quantity - o.units
  IN [portfolio |-> Filled(done.portfolio, intent, o),
      budget    |-> done.budget - o.units,
      taken     |-> done.taken + o.units,
      pending   |-> IF rest > 0 /\ o.rest = "pending"
                    THEN Append(done.pending, Rest(intent, o)) ELSE done.pending,
      filled    |-> With(done.filled, intent.id, o.units),
      dropped   |-> With(done.dropped, intent.id, IF o.rest = "pending" THEN 0 ELSE rest)]

Unmet(p, e) ==
  [portfolio |-> p, budget |-> e.size, taken |-> 0, pending |-> <<>>,
   filled |-> <<>>, dropped |-> <<>>]

(* The pending intents one after the other. *)
Evaluate(p, pending, e, time) ==
  LET met[n \in 0..Len(pending)] ==
        IF n = 0 THEN Unmet(p, e) ELSE Meet(met[n - 1], pending[n], e, time)
  IN met[Len(pending)]
-----------------------------------------------------------------------------
(* Lifecycle events, marks, risk *)

Malformed(p, e) ==
  \/ e.kind = "definition" /\ Redefines(p, e.instrument, e.metadata)
  \/ e.kind = "funding" /\ FundingPrice(p, e.instrument, e.mark) = 0

(* Borrow and roll costs come with funding and settlement. *)
Charged(p, component, cost) == IF cost = 0 THEN p ELSE ApplyCarryCost(p, component, cost)

Lifecycle(p, e) ==
  LET i == e.instrument
  IN CASE e.kind = "definition" -> RegisterInstrument(p, i, e.metadata)
       [] e.kind = "funding"    ->
            Charged(ApplyCarryCost(p, "funding", FundingAmount(p, i, e.rate, e.mark)), "borrow", e.cost)
       [] e.kind = "settlement" -> Charged(SettlePosition(p, i, e.mark), "roll", e.cost)
       [] OTHER                 -> p

Marks(e) == e.kind \in {"bar", "trade", "book"} /\ e.mark # 0

Marked(p, e) == IF Marks(e) THEN Mark(p, e.instrument, e.mark) ELSE p

(* VersionedRiskPolicy.allow: one intent against what is filled so far.     *)
Allowed(p, intent) ==
  LET resulting == p.quantity[intent.instrument] + Signed(intent, intent.quantity)
      mark == IF p.marks[intent.instrument] # 0 THEN p.marks[intent.instrument] ELSE intent.limit
  IN /\ Magnitude(resulting) <= MaxPosition
     /\ mark # 0
     /\ Magnitude(resulting \odot mark) <= MaxNotional
     /\ (p.dayStart -- Equity(p)) < MaxDailyLoss

(* The proposed intents, numbered and dated. *)
Numbered(b, proposed, time) ==
  [n \in DOMAIN proposed |->
     [id |-> b.signals + n, decided |-> time, instrument |-> proposed[n].instrument,
      side |-> proposed[n].side, quantity |-> proposed[n].quantity, limit |-> proposed[n].limit]]

(* Those of them the risk policy allows. *)
Entered(p, numbered) ==
  LET upTo[n \in 0..Len(numbered)] ==
        IF n = 0 THEN <<>>
        ELSE IF Allowed(p, numbered[n]) THEN Append(upTo[n - 1], numbered[n]) ELSE upTo[n - 1]
  IN upTo[Len(numbered)]

(* What one event does to what the call holds, and to the intents.          *)
Handled(b, e, time, proposed) ==
  LET begun   == Lifecycle(BeginEvent(b.portfolio, time \div DayLength), e)
      met     == Evaluate(begun, b.pending, e, time)
      p       == Marked(met.portfolio, e)
      entered == Entered(p, Numbered(b, proposed, time))
      samples == Marks(e) \/ e.kind \in {"funding", "settlement"}
  IN [book    |-> [portfolio |-> p,
                   pending   |-> met.pending \o entered,
                   signals   |-> b.signals + Len(proposed),
                   offset    |-> b.offset + 1,
                   time      |-> time,
                   sampled   |-> IF samples /\ b.offset % SamplingInterval = 0
                                 THEN b.sampled \cup {b.offset} ELSE b.sampled],
      filled  |-> met.filled,
      dropped |-> met.dropped,
      taken   |-> met.taken,
      entered |-> entered]
-----------------------------------------------------------------------------
(* Checkpoints *)

(* The day is left out: Portfolio.from_state reads it with a default.       *)
ExportWithoutDay(b) == [b EXCEPT !.portfolio.day = -1]

(* What a checkpoint holds: numbers are written in full, none is rounded.   *)
Export(b) ==
  [portfolio |-> b.portfolio, pending |-> b.pending, signals |-> b.signals,
   offset |-> b.offset, time |-> b.time, sampled |-> b.sampled]

(* from_state asserts conservation once more. *)
Import(document) == [document EXCEPT !.portfolio = Asserted(@)]

(* Units of an intent in what is pending, or entered. *)
Outstanding(pending, id) ==
  MapThenSumSet(LAMBDA n : pending[n].quantity, {n \in DOMAIN pending : pending[n].id = id})

BeginBatch ==
  /\ status = "idle"
  /\ ~config.checkpointed => book.offset = 0
  /\ \E given \in (SUBSET Instruments) \ {{}}, n \in 1..(MaxEvents - saved.offset) :
       /\ Cardinality(given) <= n
       /\ batch' = [instruments |-> given, unseen |-> given, left |-> n]
  /\ book' = Import(saved)
  /\ status' = IF book'.portfolio.conserved THEN "running" ELSE "failed"
  /\ UNCHANGED <<config, saved, outcomes>>

(* The totals of each intent, with those that were entered now.             *)
Record(done) ==
  LET names == Ids \cup {done.entered[n].id : n \in DOMAIN done.entered}
      Added(totals, units) ==
        [id \in names |-> IF id \notin Ids THEN 0
                          ELSE totals[id] + IF id \in DOMAIN units THEN units[id] ELSE 0]
  IN /\ accepted' = [id \in names |-> IF id \in Ids THEN accepted[id]
                                     ELSE Outstanding(done.entered, id)]
     /\ filled'   = Added(filled, done.filled)
     /\ dropped'  = Added(dropped, done.dropped)
     /\ taken'    = done.taken

(* An event whose AssertionError ends the worker reaches no strategy.       *)
Observe(e, time, proposed) ==
  /\ status = "running" /\ batch.left > 0
  /\ e.instrument \in batch.instruments
  /\ Cardinality(batch.unseen \ {e.instrument}) < batch.left
  /\ ~Malformed(book.portfolio, e)
  /\ \A n \in DOMAIN proposed : proposed[n].instrument \in batch.instruments
  /\ batch' = [batch EXCEPT !.left = @ - 1, !.unseen = @ \ {e.instrument}]
  /\ LET done == Handled(book, e, time, proposed)
     IN /\ book' = done.book /\ Record(done)
        /\ ~done.book.portfolio.conserved => proposed = <<>>
  /\ opened' = IF book.offset = 0 \/ time \div DayLength # book.time \div DayLength
               THEN Equity(book.portfolio) ELSE opened
  /\ offered' = e.size
  /\ redefined' = (redefined \/ (e.kind = "definition" /\ book.portfolio.quantity[e.instrument] # 0
                                 /\ e.metadata # Accounted(book.portfolio, e.instrument)))
  /\ status' = IF book'.portfolio.conserved THEN "running" ELSE "failed"
  /\ UNCHANGED <<config, saved>>

(* The worker raises: the strategy does, or breaks the protocol (an intent  *)
(* of an instrument the batch does not hold, a used id), or the event does  *)
(* not follow the one before.                                               *)
Raise ==
  /\ status = "running" /\ batch.left > 0
  /\ status' = "failed"
  /\ UNCHANGED <<config, batch, book, saved, outcomes>>

SaveCheckpoint ==
  /\ status = "running" /\ batch.left = 0 /\ config.checkpointed
  /\ saved' = Export(book)
  /\ status' = "idle"
  /\ UNCHANGED <<config, batch, book, outcomes>>

(* Without a checkpoint what is pending is missed, and the equity curve     *)
(* ends with the last event.                                                *)
EndReplay ==
  /\ status = "running" /\ batch.left = 0 /\ ~config.checkpointed
  /\ dropped' = [id \in Ids |-> dropped[id] + Outstanding(book.pending, id)]
  /\ book' = [book EXCEPT !.pending = <<>>, !.sampled = @ \cup {book.offset - 1}]
  /\ status' = "done"
  /\ UNCHANGED <<config, batch, saved, accepted, filled, taken, offered, opened, redefined>>

Next ==
  \/ BeginBatch
  \/ \E e \in Events[config.model], time \in {book.time, book.time + 1}, proposed \in Proposals[config.model] :
       Observe(e, time, proposed)
  \/ Raise \/ SaveCheckpoint \/ EndReplay

Spec == Init /\ [][Next]_simulationVars
-----------------------------------------------------------------------------
(* Properties *)

(* Over partial fills, misses, rejections and checkpoints no unit of an     *)
(* accepted intent is lost or filled twice.                                 *)
IntentsAreAccounted ==
  \A id \in Ids :
    accepted[id] = filled[id] + dropped[id] + Outstanding(book.pending, id)

(* "at most 10% of reported bar volume [...] across all intents evaluated   *)
(* on that bar" (docs/implementation/BACKTEST_HARNESS.md:44-46).            *)
BarVolumeIsShared == config.model = "bar" => taken <= offered

(* The daily loss limit holds over the whole UTC day, however many batches  *)
(* and checkpoints it is cut into: an intent is only allowed while equity   *)
(* is less than max_daily_loss below what the day began with.               *)
LossLimitSpansTheDay ==
  [][DOMAIN accepted' # DOMAIN accepted =>
       opened' - Equity(book'.portfolio) < MaxDailyLoss]_simulationVars

(* As long as no instrument is defined after its position was opened, the   *)
(* accounts of a worker that has not failed an assertion balance exactly,   *)
(* also after the events that change them without one.                      *)
BooksBalance ==
  ~redefined /\ book.portfolio.conserved => Equity(book.portfolio) = Expected(book.portfolio)

(* And where an assertion failed, equity is initial cash plus profit minus  *)
(* costs up to the rounding of the average prices, through partial closes,  *)
(* flips, carry and settlement.                                             *)
ConservedUpToRounding ==
  /\ BooksBalance
  /\ ~redefined => Magnitude(Equity(book.portfolio) - Expected(book.portfolio)) <= Tolerance
=============================================================================
