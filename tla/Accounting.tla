----------------------------- MODULE Accounting -----------------------------
(***************************************************************************)
(* AccountingPortfolio (engine/portfolio.py): cash, positions with average *)
(* prices, marks and cost totals, in decimal arithmetic that rounds every  *)
(* result to a number of significant digits. Quantities and multipliers    *)
(* are integers; money is counted in units of which One make 1.0.          *)
(***************************************************************************)
EXTENDS Integers, FiniteSetsExt, Folds

CONSTANTS Instruments,
          Precision,         \* 10 to the digits of the decimal context
          One,               \* units of 1.0
          InitialCash        \* units

ASSUME AccountingAssumption ==
  /\ IsFiniteSet(Instruments)
  /\ Precision \in Nat \ {0} /\ Precision % 10 = 0
  /\ One \in Nat \ {0}
-----------------------------------------------------------------------------
(* Decimal arithmetic, ROUND_HALF_EVEN *)

Magnitude(n) == IF n < 0 THEN -n ELSE n

(* The unit in the last place kept of a number of magnitude m.              *)
Grain[m \in Nat] == IF m < Precision THEN 1 ELSE 10 * Grain[m \div 10]

(* How many units u make m. *)
HalfEven(m, u) ==
  (m \div u) + IF \/ 2 * (m % u) > u
                  \/ 2 * (m % u) = u /\ (m \div u) % 2 = 1 THEN 1 ELSE 0

Sign(n) == IF n > 0 THEN 1 ELSE IF n < 0 THEN -1 ELSE 0

(* n/d, for d > 0, rounded. *)
Quotient(n, d) ==
  LET g == Grain[Magnitude(n) \div d]
  IN Sign(n) * g * HalfEven(Magnitude(n), g * d)

Rounded(n) == IF Magnitude(n) < Precision THEN n ELSE Quotient(n, 1)

(* The portfolio begins with cash of no more digits than are kept.          *)
ASSUME CashAssumption == InitialCash \in Nat \ {0} /\ Rounded(InitialCash) = InitialCash

a ++ b  == Rounded(a + b)
a -- b == Rounded(a - b)
k \odot a   == Rounded(k * a)                       \* k an integer
a \otimes b == Quotient(a * b, One)
-----------------------------------------------------------------------------
Components == {"funding", "borrow", "roll"}

Metadata == [type : {"spot", "future"}, multiplier : Nat \ {0}]
DefaultMetadata == [type |-> "spot", multiplier |-> 1]

(* Mark 0: none; conserved: no assert_conservation failed.                  *)
Portfolio ==
  [cash : Int,
   quantity : [Instruments -> Int], average : [Instruments -> Nat],
   instruments : [Instruments -> {<<>>} \cup Metadata], marks : [Instruments -> Nat],
   realized : Int, fees : Nat, impact : Nat, carry : [Components -> Int],
   dayStart : Int, day : Int, conserved : BOOLEAN]

NewPortfolio ==
  [cash |-> InitialCash,
   quantity |-> [i \in Instruments |-> 0], average |-> [i \in Instruments |-> 0],
   instruments |-> [i \in Instruments |-> <<>>], marks |-> [i \in Instruments |-> 0],
   realized |-> 0, fees |-> 0, impact |-> 0, carry |-> [c \in Components |-> 0],
   dayStart |-> InitialCash, day |-> -1, conserved |-> TRUE]

Accounted(p, i) == IF p.instruments[i] = <<>> THEN DefaultMetadata ELSE p.instruments[i]

MarkOf(p, i) == IF p.marks[i] = 0 THEN p.average[i] ELSE p.marks[i]

Unrealized(p, i) ==
  Accounted(p, i).multiplier \odot (p.quantity[i] \odot (MarkOf(p, i) -- p.average[i]))

Inventory(p, i) ==
  IF Accounted(p, i).type = "future"
  THEN Unrealized(p, i)
  ELSE Accounted(p, i).multiplier \odot (p.quantity[i] \odot MarkOf(p, i))

Total(value) ==
  MapThenFoldSet(LAMBDA a, b : a ++ b, 0, LAMBDA i : value[i],
                 LAMBDA S : CHOOSE i \in S : TRUE, Instruments)

Equity(p) == p.cash ++ Total([i \in Instruments |-> Inventory(p, i)])

Expected(p) ==
  ((((((InitialCash ++ p.realized) ++ Total([i \in Instruments |-> Unrealized(p, i)]))
    -- p.fees) -- p.impact)
    -- p.carry["funding"]) -- p.carry["borrow"]) -- p.carry["roll"]

(* assert_conservation: the accounts that were changed are compared exactly.*)
Asserted(p) == [p EXCEPT !.conserved = @ /\ Equity(p) = Expected(p)]
-----------------------------------------------------------------------------
(* register_instrument: may not change what was registered.                 *)
Redefines(p, i, metadata) == p.instruments[i] \notin {<<>>, metadata}

RegisterInstrument(p, i, metadata) == [p EXCEPT !.instruments[i] = metadata]

(* The average price of a position of old units that delta more change.     *)
AverageAfter(old, average, delta, price) ==
  CASE old * delta >= 0 ->
         Quotient((Magnitude(old) \odot average) ++ (Magnitude(delta) \odot price),
                  Magnitude(old) + Magnitude(delta))
    [] old * delta < 0 /\ Magnitude(delta) > Magnitude(old) -> price
    [] old * delta < 0 /\ old + delta = 0 -> 0
    [] OTHER -> average

(* As if all of delta closed. *)
RealizedByAll(p, i, delta, price) ==
  IF p.quantity[i] * delta >= 0 THEN 0
  ELSE Accounted(p, i).multiplier \odot (-delta \odot (price -- p.average[i]))

(* What closing units of the position realizes. *)
RealizedBy(p, i, delta, price) ==
  IF p.quantity[i] * delta >= 0 THEN 0
  ELSE Accounted(p, i).multiplier \odot
         ((Sign(p.quantity[i]) * Min({Magnitude(p.quantity[i]), Magnitude(delta)}))
            \odot (price -- p.average[i]))

(* A fill of delta units (negative: sold) at price. *)
ApplyFill(p, i, delta, price, fee, impact) ==
  LET realized == RealizedBy(p, i, delta, price)
      paid == (Accounted(p, i).multiplier \odot (delta \odot price) ++ fee) ++ impact
      cash == IF Accounted(p, i).type = "future"
              THEN p.cash ++ ((realized -- fee) -- impact)
              ELSE p.cash -- paid
  IN Asserted([p EXCEPT
       !.cash = cash,
       !.realized = @ ++ realized,
       !.average[i] = AverageAfter(p.quantity[i], @, delta, price),
       !.quantity[i] = @ + delta,
       !.fees = @ ++ fee, !.impact = @ ++ impact,
       !.marks[i] = price])

ApplyCarryCost(p, component, amount) ==
  Asserted([p EXCEPT !.carry[component] = @ ++ amount, !.cash = @ -- amount])

(* price = 0: the event carries none, the mark is used. *)
FundingPrice(p, i, price) == IF price # 0 THEN price ELSE p.marks[i]

FundingAmount(p, i, rate, price) ==
  (Accounted(p, i).multiplier \odot (p.quantity[i] \odot FundingPrice(p, i, price))) \otimes rate

SettlePosition(p, i, price) ==
  LET n        == p.quantity[i]
      realized == Accounted(p, i).multiplier \odot (n \odot (price -- p.average[i]))
      paid     == IF Accounted(p, i).type = "future"
                  THEN realized
                  ELSE Accounted(p, i).multiplier \odot (n \odot price)
      settled  == [p EXCEPT !.marks[i] = price]
  IN IF n = 0 THEN settled
     ELSE Asserted([settled EXCEPT
            !.cash = @ ++ paid, !.realized = @ ++ realized,
            !.quantity[i] = 0, !.average[i] = 0])

(* The first event of a UTC day fixes the equity its loss is measured from. *)
BeginEvent(p, day) ==
  IF p.day = day THEN p ELSE [p EXCEPT !.day = day, !.dayStart = Equity(p)]

Mark(p, i, price) == Asserted([p EXCEPT !.marks[i] = price])
=============================================================================
