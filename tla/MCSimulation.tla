---------------------------- MODULE MCSimulation ----------------------------
(***************************************************************************)
(* Small event streams for TLC: prices near 1.0, cash of 1000.0.           *)
(***************************************************************************)
EXTENDS Simulation

CONSTANTS X, Y                \* the instruments

Money(cents) == cents * (One \div 100)

Event == [kind |-> "bar", instrument |-> X, buy |-> 0, sell |-> 0, mark |-> 0, size |-> 0,
          rate |-> 0, cost |-> 0, metadata |-> DefaultMetadata]

(* The open with slippage either way, the close, and the volume on offer.   *)
Bar(i, open, close, size) ==
  [Event EXCEPT !.instrument = i, !.buy = Money(open), !.sell = Money(open),
                !.mark = Money(close), !.size = size]

Funding(i) == [Event EXCEPT !.kind = "funding", !.instrument = i,
                 !.rate = Money(10), !.cost = Money(1)]
Settlement(i, price) == [Event EXCEPT !.kind = "settlement", !.instrument = i,
                           !.mark = Money(price), !.cost = Money(1)]
Definition(i, type) == [Event EXCEPT !.kind = "definition", !.instrument = i,
                          !.metadata = [type |-> type, multiplier |-> 2]]

(* One level a side; a side that is not there is 0. *)
Book(i, ask, bid, size) ==
  [Event EXCEPT !.kind = "book", !.instrument = i, !.size = size,
                !.buy = Money(ask), !.sell = Money(bid),
                !.mark = IF ask # 0 /\ bid # 0 THEN Money(ask + bid) \div 2 ELSE 0]
Trade(i, price, size) ==
  [Event EXCEPT !.kind = "trade", !.instrument = i, !.size = size,
                !.buy = Money(price), !.sell = Money(price), !.mark = Money(price)]

Intent(i, side, n) == [instrument |-> i, side |-> side, quantity |-> n, limit |-> Money(101)]

(* For each fill model what it fills, misses or waits for, and lifecycle    *)
(* events; two instruments for the model the workspaces use most.           *)
StreamEvents ==
  [bar      |-> {Bar(X, 100, 102, 1), Bar(X, 103, 97, 3), Bar(Y, 50, 51, 2)},
   market   |-> {Book(X, 103, 101, 1), Book(X, 0, 100, 2), Definition(X, "future")},
   limit    |-> {Trade(X, 100, 1), Trade(X, 101, 0), Book(X, 101, 99, 2)},
   midpoint |-> {Book(X, 103, 101, 1), Book(X, 0, 100, 2), Funding(X),
                 Settlement(X, 105)}]
StreamProposals ==
  [bar      |-> {<<>>, <<Intent(X, "buy", 2), Intent(Y, "sell", 1)>>, <<Intent(X, "sell", 3)>>},
   market   |-> {<<>>, <<Intent(X, "buy", 2), Intent(X, "buy", 1)>>},
   limit    |-> {<<>>, <<Intent(X, "buy", 2)>>, <<Intent(X, "sell", 1)>>},
   midpoint |-> {<<>>, <<Intent(X, "sell", 2)>>}]
=============================================================================
