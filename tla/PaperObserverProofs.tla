------------------------ MODULE PaperObserverProofs ------------------------
(***************************************************************************)
(* What a paper observation guarantees for every number of processes,      *)
(* batches, events and configurations and every audit interval, wherever   *)
(* processes die: it is a journal whose results continue one another and   *)
(* whose audited results have the totals of clean replays, the results of  *)
(* a faithful strategy are clean replays throughout, and the invocation    *)
(* log follows the state.                                                  *)
(***************************************************************************)
EXTENDS PaperObserver, SequenceTheorems, FiniteSetTheorems, WellFoundedInduction, TLAPS

Ids(rows)    == Journal!Ids(rows)
Events(rows) == Journal!Events(rows)
Sorted(S)    == Journal!Sorted(S)
Replay(rows) == Journal!Replay(rows)
Acts(S, does) == Journal!Acts(S, does)
Totals(r)    == Journal!Totals(r)
LastResult(results) == Journal!LastResult(results)

Tracked == observation.batches
Runs    == observation.runs
Stopped == observation.status = "frozen"

Busy(c) == at[c] # "idle"

CallOK ==
  call \in [Clients -> [row : Batch \cup {<<>>}, config : Configs \cup {NoConfig},
                       state : Observation, result : Results]]

(* While the state is not frozen every tracked batch has its result.        *)
Whole ==
  /\ observation.status = "absent" => observation = NoObservation
  /\ observation.status = "observing" =>
       observation.config \in Configs /\ Len(Runs) = Len(Tracked)
  /\ Stopped => Len(Runs) <= Len(Tracked)

(* The run file of the next number exists: a result was accepted that the   *)
(* state does not count.                                                    *)
Ahead == DOMAIN runFiles = 1..(Len(Runs) + 1)

(* Unless results ran ahead of the state, the current result is the last    *)
(* one, the checkpoint continues it, and that of a faithful strategy lacks  *)
(* nothing.                                                                 *)
ResultCurrent == ~Stopped /\ ~Ahead => current = LastResult(Runs)

CheckpointCurrent ==
  ~Stopped /\ ~Ahead =>
    /\ observation.config \in Checkpointed \cup {NoConfig} => checkpoint.acted = LastResult(Runs)
    /\ observation.config \in (Checkpointed \ Forgetful) \cup {NoConfig} =>
         /\ checkpoint.does = Decided
         /\ checkpoint.acted = Replay(Tracked)
         /\ \A e \in Events(Tracked) : e <= checkpoint.last

Taken(c) == [Loaded(c) EXCEPT !.batches = Append(@, Row(c))]

(* The batch a process has taken on continues the observation it read.      *)
Continuing(c) ==
  /\ ~Stopped /\ ~Drifted(c)
  /\ Row(c).id \notin Ids(Tracked)

(* A result that was accepted for it.                                       *)
Accepted(c) ==
  /\ Continuing(c)
  /\ Row(c).events \cap Events(Tracked) = {}
  /\ call[c].result \in Results \ {<<>>}
  /\ IsPrefix(LastResult(Runs), call[c].result)
  /\ Config(c) \notin Forgetful => call[c].result = Replay(Append(Tracked, Row(c)))
  /\ Journal!AuditDue(Len(Runs) + 1) =>
       Totals(call[c].result) = Totals(Replay(Append(Tracked, Row(c))))

Commits(c) ==
  /\ Accepted(c) /\ Ahead
  /\ current = call[c].result
  /\ call[c].state = [Taken(c) EXCEPT !.runs = Append(@, call[c].result)]
  /\ Config(c) \in Checkpointed => checkpoint.acted = call[c].result
  /\ Config(c) \in Checkpointed \ Forgetful =>
       checkpoint.does = Decided /\ checkpoint.last = Last(call[c].result).event

Freezes(c) ==
  \/ call[c].state = Frozen(Loaded(c))
  \/ Continuing(c) /\ call[c].state = Frozen(Taken(c))

Logs(c) ==
  /\ observation.status # "absent"
  /\ call[c].state = observation
  /\ \A n \in DOMAIN invocations :
       invocations[n].sequence < Len(Runs) + (IF Stopped THEN 1 ELSE 0)
  /\ ~Stopped => Runs # <<>> /\ Tracked[Len(Runs)] = Row(c)

(* What a process holds, at each step. *)
InHand(c) ==
  /\ Busy(c) => Row(c) \in Batch /\ Config(c) \in Configs
  /\ at[c] = "batch"      => Continuing(c) /\ call[c].state = Loaded(c)
  /\ at[c] = "evaluate"   => Continuing(c) /\ call[c].state = Taken(c)
  /\ at[c] \in {"run", "current", "checkpoint"} => Accepted(c) /\ call[c].state = Taken(c)
  /\ at[c] = "run"        => ~Ahead
  /\ at[c] \in {"current", "checkpoint"} => Ahead
  /\ at[c] = "checkpoint" => current = call[c].result
  /\ at[c] = "state"      => ~Stopped /\ (Commits(c) \/ Freezes(c))
  /\ at[c] = "log"        => Logs(c)

(* Beyond what the log promises: it never counts more runs than there are,  *)
(* and once it says frozen nothing is left to append.                       *)
LogBehind ==
  /\ \A n \in DOMAIN invocations :
       /\ invocations[n].sequence <= Len(Runs) + (IF Stopped THEN 1 ELSE 0)
       /\ invocations[n].status = "observing" => invocations[n].sequence > 0
       /\ invocations[n].status = "frozen" => \A c \in Clients : at[c] # "log"

IInv ==
  /\ TypeOK
  /\ CallOK
  /\ Whole
  /\ ResultCurrent
  /\ CheckpointCurrent
  /\ \A c \in Clients : InHand(c)
  /\ ResultsReplay
  /\ LogFollowsState
  /\ LogBehind
-----------------------------------------------------------------------------
(* Sorting: a finite set of events has one increasing enumeration *)

Increasing(f) == \A m, n \in DOMAIN f : m < n => f[m] < f[n]
Enumerates(f, S) == f \in [1..Cardinality(S) -> S] /\ Increasing(f)

LEMMA LeastElement ==
  ASSUME NEW S \in SUBSET Nat, S # {}
  PROVE  \E x \in S : \A y \in S : x <= y
<1>1. PICK x \in S : \A y \in S : ~ (<<y, x>> \in OpToRel(<, Nat))
  BY NatLessThanWellFounded, WFMin, Zenon
<1>2. ASSUME NEW y \in S PROVE x <= y
  <2>1. <<y, x>> \in Nat \X Nat /\ <<y, x>>[1] = y /\ <<y, x>>[2] = x
    OBVIOUS
  <2>2. ~ (y < x)
    BY <1>1, <2>1, Zenon DEF OpToRel
  <2>. QED BY <2>2
<1>. QED BY <1>2

LEMMA EnumerationIs ==
  ASSUME NEW S \in SUBSET Nat, IsFiniteSet(S), NEW f, Enumerates(f, S), NEW k, k = Cardinality(S)
  PROVE  /\ k \in Nat /\ f \in [1..k -> S]
         /\ \A n \in 1..k : f[n] \in S /\ f[n] \in Nat
         /\ \A m, n \in 1..k : m < n => f[m] < f[n]
BY FS_CardinalityType DEF Enumerates, Increasing

LEMMA EnumerationIsOnto ==
  ASSUME NEW S \in SUBSET Nat, IsFiniteSet(S), NEW f, Enumerates(f, S)
  PROVE  \A e \in S : \E n \in 1..Cardinality(S) : f[n] = e
<1>. DEFINE k == Cardinality(S)
<1>1. /\ k \in Nat /\ f \in [1..k -> S]
      /\ \A n \in 1..k : f[n] \in Nat
      /\ \A m, n \in 1..k : m < n => f[m] < f[n]
  BY EnumerationIs
<1>. HIDE DEF k
<1>2. IsFiniteSet(1..k) /\ Cardinality(1..k) = Cardinality(S)
  BY <1>1, FS_Interval DEF k
<1>3. f \in Injection(1..k, S)
  <2>1. \A m, n \in 1..k : m # n => m < n \/ n < m
    BY <1>1
  <2>2. \A m, n \in 1..k : m # n => f[m] # f[n]
    BY <1>1, <2>1
  <2>. QED BY <1>1, <2>2 DEF Injection, IsInjective
<1>4. f \in Surjection(1..k, S)
  BY <1>2, <1>3, FS_Injection
<1>. QED BY <1>4 DEF Surjection, k

(* By the least cardinality that has a set without one: its least element   *)
(* comes first, the others can be enumerated.                               *)
LEMMA EnumerationExists ==
  ASSUME NEW S \in SUBSET Nat, IsFiniteSet(S)
  PROVE  \E f : Enumerates(f, S)
<1>. DEFINE Odd == {T \in SUBSET Nat : IsFiniteSet(T) /\ ~ \E f : Enumerates(f, T)}
            Sizes == {Cardinality(T) : T \in Odd}
<1>1. SUFFICES ASSUME Odd # {} PROVE FALSE
  OBVIOUS
<1>2. Sizes \in SUBSET Nat /\ Sizes # {}
  BY <1>1, FS_CardinalityType
<1>3. PICK T \in Odd : \A U \in Odd : Cardinality(T) <= Cardinality(U)
  <2>. HIDE DEF Odd
  <2>1. PICK k \in Sizes : \A n \in Sizes : k <= n
    BY <1>2, LeastElement
  <2>. QED BY <2>1
<1>4. T # {}
  <2>1. ASSUME T = {} PROVE FALSE
    <3>1. Cardinality(T) = 0
      BY <2>1, FS_EmptySet
    <3>2. Enumerates([n \in 1..0 |-> 0], T)
      BY <2>1, <3>1 DEF Enumerates, Increasing
    <3>. QED BY <3>2
  <2>. QED BY <2>1
<1>5. PICK x \in T : \A y \in T : x <= y
  BY <1>4, LeastElement
<1>. DEFINE U == T \ {x}
<1>6. IsFiniteSet(U) /\ Cardinality(U) = Cardinality(T) - 1 /\ Cardinality(T) \in Nat \ {0}
  BY <1>4, FS_RemoveElement, FS_CardinalityType, FS_EmptySet
<1>7. PICK g : Enumerates(g, U)
  <2>1. U \notin Odd
    BY <1>3, <1>6
  <2>. QED BY <1>6, <2>1
<1>. DEFINE f == [n \in 1..Cardinality(T) |-> IF n = 1 THEN x ELSE g[n - 1]]
<1>. DEFINE k == Cardinality(T)
<1>8. /\ \A n \in 1..(k - 1) : g[n] \in U /\ g[n] \in Nat
      /\ \A m, n \in 1..(k - 1) : m < n => g[m] < g[n]
  BY <1>6, <1>7, EnumerationIs
<1>. HIDE DEF k
<1>9. k \in Nat \ {0} /\ \A n \in 1..k : n = 1 \/ n - 1 \in 1..(k - 1)
  BY <1>6 DEF k
<1>10. f \in [1..k -> T]
  BY <1>8, <1>9 DEF k
<1>11. ASSUME NEW m \in 1..k, NEW n \in 1..k, m < n
       PROVE  f[m] < f[n]
  <2>1. n # 1 /\ n - 1 \in 1..(k - 1) /\ f[n] = g[n - 1]
    BY <1>9, <1>11 DEF k
  <2>2. CASE m = 1
    <3>1. g[n - 1] \in U /\ g[n - 1] \in Nat
      BY <1>8, <2>1
    <3>. QED BY <1>5, <2>1, <2>2, <3>1 DEF k
  <2>3. CASE m # 1
    <3>1. m - 1 \in 1..(k - 1) /\ m - 1 < n - 1 /\ f[m] = g[m - 1]
      BY <1>9, <1>11, <2>3 DEF k
    <3>. QED BY <1>8, <2>1, <3>1
  <2>. QED BY <2>2, <2>3
<1>. QED BY <1>10, <1>11 DEF Enumerates, Increasing, k

(* By the least place at which two of them differ: the smaller of the two   *)
(* events there cannot come anywhere in the other one.                      *)
LEMMA FirstDifference ==
  ASSUME NEW S \in SUBSET Nat, IsFiniteSet(S), NEW f, Enumerates(f, S), NEW g, Enumerates(g, S),
         NEW k \in 1..Cardinality(S), \A n \in 1..(k - 1) : f[n] = g[n]
  PROVE  ~ f[k] < g[k]
<1>. DEFINE l == Cardinality(S)
<1>1. /\ l \in Nat /\ \A n \in 1..l : f[n] \in S /\ f[n] \in Nat /\ g[n] \in Nat
      /\ \A m, n \in 1..l : m < n => f[m] < f[n]
      /\ \A m, n \in 1..l : m < n => g[m] < g[n]
  BY EnumerationIs
<1>2. SUFFICES ASSUME f[k] < g[k] PROVE FALSE
  OBVIOUS
<1>3. PICK n \in 1..l : g[n] = f[k]
  BY <1>1, EnumerationIsOnto
<1>. HIDE DEF l
<1>4. k \in 1..l
  BY DEF l
<1>5. n = k \/ k < n \/ (n \in 1..(k - 1) /\ n < k)
  BY <1>1, <1>3, <1>4
<1>6. f[k] \in Nat /\ g[k] \in Nat /\ g[n] \in Nat /\ f[n] \in Nat
  BY <1>1, <1>4
<1>7. CASE k < n
  <2>1. g[k] < g[n]
    BY <1>1, <1>4, <1>7
  <2>. QED BY <1>2, <1>3, <1>6, <2>1
<1>8. CASE n \in 1..(k - 1) /\ n < k
  <2>1. f[n] = f[k] /\ f[n] < f[k]
    BY <1>1, <1>3, <1>4, <1>8
  <2>. QED BY <1>6, <2>1
<1>. QED BY <1>2, <1>3, <1>5, <1>6, <1>7, <1>8

LEMMA EnumerationIsUnique ==
  ASSUME NEW S \in SUBSET Nat, IsFiniteSet(S), NEW f, Enumerates(f, S), NEW g, Enumerates(g, S)
  PROVE  f = g
<1>. DEFINE l == Cardinality(S)
            D == {n \in 1..l : f[n] # g[n]}
<1>1. /\ l \in Nat /\ f \in [1..l -> S] /\ g \in [1..l -> S]
      /\ \A n \in 1..l : f[n] \in Nat /\ g[n] \in Nat
  BY EnumerationIs
<1>2. ASSUME D # {} PROVE FALSE
  <2>1. D \in SUBSET Nat
    BY <1>1
  <2>2. PICK k \in D : \A n \in D : k <= n
    BY <1>2, <2>1, LeastElement
  <2>3. k \in 1..l /\ \A n \in 1..(k - 1) : n \in 1..l /\ ~ k <= n
    BY <1>1, <2>2
  <2>4. \A n \in 1..(k - 1) : f[n] = g[n]
    BY <2>2, <2>3
  <2>5. ~ f[k] < g[k] /\ ~ g[k] < f[k]
    BY <2>3, <2>4, FirstDifference
  <2>. QED BY <1>1, <2>2, <2>3, <2>5
<1>. QED BY <1>1, <1>2

(* Sorted is the increasing enumeration. *)
LEMMA SortedEnumerates ==
  ASSUME NEW S \in SUBSET Nat, IsFiniteSet(S)
  PROVE  Enumerates(Sorted(S), S)
<1>1. \A f : Enumerates(f, S) <=>
             /\ f \in [1..Cardinality(S) -> S]
             /\ \A m, n \in DOMAIN f : m < n => f[m] < f[n]
  BY DEF Enumerates, Increasing
<1>2. Sorted(S) = CHOOSE f \in [1..Cardinality(S) -> S] :
                    \A m, n \in DOMAIN f : m < n => f[m] < f[n]
  BY DEF Sorted, Journal!Sorted, Journal!Cardinality, Cardinality
<1>3. \E f \in [1..Cardinality(S) -> S] : \A m, n \in DOMAIN f : m < n => f[m] < f[n]
  BY <1>1, EnumerationExists, Zenon
<1>4. /\ Sorted(S) \in [1..Cardinality(S) -> S]
      /\ \A m, n \in DOMAIN Sorted(S) : m < n => Sorted(S)[m] < Sorted(S)[n]
  BY <1>2, <1>3, Zenon
<1>. QED BY <1>1, <1>4

LEMMA SortedIs ==
  ASSUME NEW S \in SUBSET Nat, IsFiniteSet(S), NEW f, Enumerates(f, S)
  PROVE  Sorted(S) = f
BY SortedEnumerates, EnumerationIsUnique

LEMMA SortedSeq ==
  ASSUME NEW S \in SUBSET Nat, IsFiniteSet(S)
  PROVE  /\ Sorted(S) \in Seq(S) /\ Len(Sorted(S)) = Cardinality(S)
         /\ S # {} => Sorted(S) # <<>>
         /\ S # {} => \A e \in S : e <= Last(Sorted(S))
<1>1. Cardinality(S) \in Nat /\ (S # {} => Cardinality(S) # 0)
  BY FS_CardinalityType, FS_EmptySet
<1>2. Sorted(S) \in [1..Cardinality(S) -> S]
  BY SortedEnumerates DEF Enumerates
<1>3. Sorted(S) \in Seq(S) /\ Len(Sorted(S)) = Cardinality(S)
  BY <1>1, <1>2
<1>4. ASSUME S # {}, NEW e \in S PROVE e <= Last(Sorted(S))
  <2>1. PICK n \in 1..Cardinality(S) : Sorted(S)[n] = e
    BY SortedEnumerates, EnumerationIsOnto
  <2>2. Last(Sorted(S)) = Sorted(S)[Cardinality(S)]
    BY <1>3 DEF Last
  <2>. DEFINE k == Cardinality(S)
              s == Sorted(S)
  <2>3. /\ \A m \in 1..k : s[m] \in Nat
        /\ \A l, m \in 1..k : l < m => s[l] < s[m]
    BY SortedEnumerates, EnumerationIs
  <2>. HIDE DEF k, s
  <2>4. k \in Nat /\ n \in 1..k /\ k \in 1..k /\ (n = k \/ n < k)
    BY <1>1, <2>1 DEF k
  <2>5. s[n] \in Nat /\ s[k] \in Nat /\ (n < k => s[n] < s[k])
    BY <2>3, <2>4
  <2>6. s[n] <= s[k]
    BY <2>4, <2>5
  <2>. QED BY <2>1, <2>2, <2>6 DEF k, s
<1>. QED BY <1>1, <1>3, <1>4, EmptySeq

(* Later events are appended to what is sorted already. *)
LEMMA SortedConcat ==
  ASSUME NEW S \in SUBSET Nat, IsFiniteSet(S), NEW T \in SUBSET Nat, IsFiniteSet(T),
         \A e \in S, x \in T : e < x
  PROVE  Sorted(S) \o Sorted(T) = Sorted(S \cup T)
<1>. DEFINE s == Sorted(S)
            t == Sorted(T)
            k == Cardinality(S)
            l == Cardinality(T)
<1>1. k \in Nat /\ l \in Nat
  BY FS_CardinalityType
<1>2. IsFiniteSet(S \cup T) /\ Cardinality(S \cup T) = k + l
  <2>1. S \cap T = {}
    OBVIOUS
  <2>2. Cardinality(S \cap T) = 0
    BY <2>1, FS_EmptySet
  <2>3. /\ IsFiniteSet(S \cup T)
        /\ Cardinality(S \cup T) = Cardinality(S) + Cardinality(T) - Cardinality(S \cap T)
    BY FS_Union, Zenon
  <2>. QED BY <1>1, <2>2, <2>3
<1>3. Enumerates(s, S) /\ Enumerates(t, T) /\ s \in Seq(Nat) /\ t \in Seq(Nat) /\ Len(s) = k /\ Len(t) = l
  <2>1. s \in Seq(S) /\ t \in Seq(T) /\ Len(s) = k /\ Len(t) = l
    BY SortedSeq
  <2>. QED BY <2>1, SortedEnumerates, SeqMonotonic
<1>. HIDE DEF s, t, k, l
<1>4. /\ s \o t \in Seq(Nat) /\ Len(s \o t) = k + l
      /\ \A n \in 1..(k + l) : (s \o t)[n] = IF n <= k THEN s[n] ELSE t[n - k]
  BY <1>3, ConcatProperties
<1>5. DOMAIN (s \o t) = 1..(k + l)
  BY <1>4
<1>6. /\ \A n \in 1..k : s[n] \in S /\ s[n] \in Nat
      /\ \A n \in 1..l : t[n] \in T /\ t[n] \in Nat
      /\ \A m, n \in 1..k : m < n => s[m] < s[n]
      /\ \A m, n \in 1..l : m < n => t[m] < t[n]
  BY <1>3, EnumerationIs DEF k, l
<1>7. \A n \in 1..(k + l) : /\ n <= k => n \in 1..k /\ (s \o t)[n] = s[n]
                            /\ ~ n <= k => n - k \in 1..l /\ (s \o t)[n] = t[n - k]
  BY <1>1, <1>4
<1>8. ASSUME NEW m \in 1..(k + l), NEW n \in 1..(k + l), m < n
      PROVE  (s \o t)[m] < (s \o t)[n]
  <2>1. CASE n <= k
    <3>1. m <= k
      BY <1>1, <1>8, <2>1
    <3>. QED BY <1>6, <1>7, <1>8, <2>1, <3>1
  <2>2. CASE m <= k /\ ~ n <= k
    BY <1>6, <1>7, <2>2
  <2>3. CASE ~ m <= k
    <3>1. ~ n <= k /\ m - k < n - k
      BY <1>1, <1>8, <2>3
    <3>. QED BY <1>6, <1>7, <2>3, <3>1
  <2>. QED BY <2>1, <2>2, <2>3
<1>9. s \o t \in [1..(k + l) -> S \cup T]
  <2>1. \A n \in 1..(k + l) : (s \o t)[n] \in S \cup T
    BY <1>6, <1>7
  <2>. DEFINE u == s \o t
  <2>2. u \in [1..(k + l) -> Nat]
    BY <1>4, <1>5, LenProperties
  <2>. HIDE DEF u
  <2>3. \A n \in 1..(k + l) : u[n] \in S \cup T
    BY <2>1 DEF u
  <2>4. u \in [1..(k + l) -> S \cup T]
    BY <2>2, <2>3
  <2>. QED BY <2>4 DEF u
<1>10. Enumerates(s \o t, S \cup T)
  BY <1>2, <1>5, <1>8, <1>9 DEF Enumerates, Increasing
<1>. QED BY <1>2, <1>10, SortedIs DEF s, t
-----------------------------------------------------------------------------
(* What a step leaves alone *)

LEMMA HeldCall ==
  ASSUME CallOK, NEW c \in Clients
  PROVE  /\ call[c] \in [row : Batch \cup {<<>>}, config : Configs \cup {NoConfig},
                         state : Observation, result : Results]
         /\ Row(c) = call[c].row /\ Config(c) = call[c].config
BY DEF CallOK, Row, Config

(* Everybody else is idle. *)
LEMMA OthersIdle ==
  ASSUME TypeOK, NEW c \in Clients, Busy(c), NEW d \in Clients, d # c
  PROVE  at[d] = "idle"
BY DEF TypeOK, Busy

LEMMA GotoEffect ==
  ASSUME TypeOK, CallOK, NEW c \in Clients, Busy(c),
         NEW step \in Steps \ {"idle"}, NEW state \in Observation, Goto(c, step, state)
  PROVE  /\ at' \in [Clients -> Steps] /\ CallOK' /\ lock' = lock
         /\ at'[c] = step /\ call'[c].state = state
         /\ call'[c].row = call[c].row /\ call'[c].config = call[c].config
         /\ call'[c].result = call[c].result
         /\ \A d \in Clients : d # c => at'[d] = "idle"
         /\ \A b, d \in Clients : at'[b] # "idle" /\ at'[d] # "idle" => lock' /\ b = d
<1>. DEFINE h == [call[c] EXCEPT !.state = state]
<1>1. call[c] \in [row : Batch \cup {<<>>}, config : Configs \cup {NoConfig},
                   state : Observation, result : Results]
  BY HeldCall
<1>2. /\ h \in [row : Batch \cup {<<>>}, config : Configs \cup {NoConfig},
                state : Observation, result : Results]
      /\ h.state = state /\ h.row = call[c].row /\ h.config = call[c].config
      /\ h.result = call[c].result
  BY <1>1
<1>3. call' = [call EXCEPT ![c] = h]
  BY DEF Goto
<1>. HIDE DEF h
<1>4. CallOK' /\ call'[c] = h
  BY <1>2, <1>3 DEF CallOK
<1>5. at' \in [Clients -> Steps] /\ at'[c] = step /\ \A d \in Clients : d # c => at'[d] = at[d]
  BY DEF Goto, TypeOK
<1>6. \A d \in Clients : d # c => at'[d] = "idle"
  BY <1>5, OthersIdle
<1>. QED BY <1>2, <1>4, <1>5, <1>6 DEF Goto, TypeOK, Busy

LEMMA ReleaseEffect ==
  ASSUME TypeOK, CallOK, NEW c \in Clients, Busy(c),
         at' = [at EXCEPT ![c] = "idle"], call' = [call EXCEPT ![c] = NoCall]
  PROVE  /\ at' \in [Clients -> Steps] /\ CallOK'
         /\ \A d \in Clients : at'[d] = "idle"
<1>1. NoCall \in [row : Batch \cup {<<>>}, config : Configs \cup {NoConfig},
                  state : Observation, result : Results]
  <2>1. NoObservation \in Observation
    BY DEF NoObservation, Observation
  <2>2. <<>> \in Results
    BY DEF Results, Journal!Results
  <2>. QED BY <2>1, <2>2 DEF NoCall
<1>2. CallOK'
  BY <1>1 DEF CallOK
<1>3. at' \in [Clients -> Steps] /\ at'[c] = "idle" /\ \A d \in Clients : d # c => at'[d] = at[d]
  BY DEF TypeOK, Steps
<1>. QED BY <1>2, <1>3, OthersIdle

LEMMA IdleHoldsNothing ==
  ASSUME NEW d \in Clients, at'[d] = "idle"
  PROVE  InHand(d)'
BY DEF InHand, Busy

(* What a process knows of the observation stays true while the state file  *)
(* and what it holds stay.                                                  *)
LEMMA SameContext ==
  ASSUME NEW c \in Clients, observation' = observation,
         call'[c].row = call[c].row, call'[c].config = call[c].config
  PROVE  /\ Row(c)' = Row(c) /\ Config(c)' = Config(c)
         /\ Loaded(c)' = Loaded(c) /\ Taken(c)' = Taken(c)
         /\ Continuing(c) => Continuing(c)'
         /\ Accepted(c) /\ call'[c].result = call[c].result => Accepted(c)'
<1>1. Row(c)' = Row(c) /\ Config(c)' = Config(c)
  BY DEF Row, Config
<1>2. Loaded(c)' = Loaded(c)
  BY <1>1 DEF Loaded
<1>3. Taken(c)' = Taken(c)
  BY <1>1, <1>2 DEF Taken
<1>4. Continuing(c) => Continuing(c)'
  BY <1>1, <1>2 DEF Continuing, Stopped, Drifted, Tracked, Ids
<1>5. Accepted(c) /\ call'[c].result = call[c].result => Accepted(c)'
  BY <1>1, <1>4 DEF Accepted, Tracked, Runs, Events, Replay, LastResult, Totals
<1>. QED BY <1>1, <1>2, <1>3, <1>4, <1>5

LEMMA SameState ==
  ASSUME IInv, UNCHANGED <<observation, invocations>>,
         \A c \in Clients : at'[c] = "log" => at[c] = "log"
  PROVE  Whole' /\ ResultsReplay' /\ LogFollowsState' /\ LogBehind'
<1>1. Whole'
  BY DEF IInv, Whole, Stopped, Runs, Tracked
<1>2. ResultsReplay'
  BY DEF IInv, ResultsReplay
<1>3. LogFollowsState'
  BY DEF IInv, LogFollowsState
<1>4. LogBehind'
  BY DEF IInv, LogBehind, Runs, Stopped
<1>. QED BY <1>1, <1>2, <1>3, <1>4

(* A step that leaves the state, the run files, the checkpoint and the log  *)
(* alone, and the current result unless it is ahead, need only be looked at *)
(* for what the processes hold.                                             *)
LEMMA SameDisk ==
  ASSUME IInv, UNCHANGED <<observation, runFiles, checkpoint, invocations>>,
         current' = current \/ Ahead,
         TypeOK', CallOK', \A c \in Clients : InHand(c)',
         \A c \in Clients : at'[c] = "log" => at[c] = "log"
  PROVE  IInv'
<1>1. ResultCurrent' /\ CheckpointCurrent'
  BY DEF IInv, ResultCurrent, CheckpointCurrent, Stopped, Ahead, Runs, Tracked, Replay, Events,
         LastResult
<1>. QED BY <1>1, SameState DEF IInv
-----------------------------------------------------------------------------
(* Well-formed states and results *)

LEMMA LoadedState ==
  ASSUME IInv, NEW c \in Clients, Busy(c)
  PROVE  /\ Loaded(c) \in Observation /\ Row(c) \in Batch /\ Config(c) \in Configs
         /\ Loaded(c).batches = Tracked /\ Loaded(c).runs = Runs
         /\ Tracked \in Seq(Batch) /\ Runs \in Seq(Results)
         /\ ~Stopped => Loaded(c).status = "observing"
<1>1. Row(c) \in Batch /\ Config(c) \in Configs
  BY DEF IInv, InHand
<1>2. observation \in Observation
  BY DEF IInv, TypeOK
<1>3. CASE observation.status = "absent"
  <2>1. observation = NoObservation
    BY <1>3 DEF IInv, Whole
  <2>2. Loaded(c) = [status |-> "observing", config |-> Config(c), batches |-> <<>>, runs |-> <<>>]
    BY <1>3 DEF Loaded, NoObservation
  <2>3. <<>> \in Seq(Batch) /\ <<>> \in Seq(Results)
    BY EmptySeq
  <2>4. Tracked = <<>> /\ Runs = <<>>
    BY <2>1 DEF Tracked, Runs, NoObservation
  <2>5. Loaded(c) \in Observation
    BY <1>1, <2>2, <2>3 DEF Observation
  <2>. QED BY <1>1, <2>2, <2>3, <2>4, <2>5
<1>4. CASE observation.status # "absent"
  BY <1>1, <1>2, <1>4 DEF Loaded, Observation, Tracked, Runs, Stopped
<1>. QED BY <1>3, <1>4

LEMMA TakenState ==
  ASSUME IInv, NEW c \in Clients, Busy(c)
  PROVE  /\ Taken(c) \in Observation
         /\ Taken(c).batches = Append(Tracked, Row(c)) /\ Taken(c).runs = Runs
         /\ Taken(c).status = Loaded(c).status /\ Taken(c).config = Loaded(c).config
         /\ Taken(c).batches \in Seq(Batch) /\ Taken(c).batches = Tracked \o <<Row(c)>>
<1>1. /\ Append(Tracked, Row(c)) \in Seq(Batch)
      /\ Append(Tracked, Row(c)) = Tracked \o <<Row(c)>>
  BY LoadedState, AppendProperties, AppendIsConcat
<1>. QED BY <1>1, LoadedState DEF Taken, Observation

LEMMA FrozenState ==
  ASSUME NEW state \in Observation
  PROVE  /\ Frozen(state) \in Observation /\ Frozen(state).status = "frozen"
         /\ Frozen(state).batches = state.batches /\ Frozen(state).runs = state.runs
         /\ Frozen(state).config = state.config
BY DEF Frozen, Observation

LEMMA LengthsOf ==
  ASSUME IInv
  PROVE  /\ Tracked \in Seq(Batch) /\ Runs \in Seq(Results)
         /\ Len(Tracked) \in Nat /\ Len(Runs) \in Nat /\ Len(Runs) <= Len(Tracked)
         /\ ~Stopped => Len(Runs) = Len(Tracked)
         /\ observation \in Observation
<1>1. observation \in Observation
  BY DEF IInv, TypeOK
<1>2. Tracked \in Seq(Batch) /\ Runs \in Seq(Results)
  BY <1>1 DEF Observation, Tracked, Runs
<1>3. observation.status \in {"absent", "observing", "frozen"}
  BY <1>1 DEF Observation
<1>4. observation.status = "absent" => Len(Runs) = 0 /\ Len(Tracked) = 0
  BY DEF IInv, Whole, NoObservation, Runs, Tracked
<1>. QED BY <1>1, <1>2, <1>3, <1>4, LenProperties DEF IInv, Whole, Stopped

(* The events of finitely many batches are finitely many naturals. *)
LEMMA EventsAre ==
  ASSUME NEW rows \in Seq(Batch)
  PROVE  /\ Events(rows) = UNION {rows[n].events : n \in 1..Len(rows)}
         /\ Events(rows) \in SUBSET Nat /\ IsFiniteSet(Events(rows))
         /\ Events(rows) \in SUBSET UNION Contents
<1>1. Len(rows) \in Nat /\ DOMAIN rows = 1..Len(rows)
  BY LenProperties
<1>2. \A n \in 1..Len(rows) : rows[n].events \in Contents
  <2>1. \A n \in 1..Len(rows) : rows[n] \in Batch
    BY ElementOfSeq
  <2>. QED BY <2>1 DEF Batch, Journal!Batch
<1>. DEFINE image == {rows[n].events : n \in 1..Len(rows)}
            f == [n \in 1..Len(rows) |-> rows[n].events]
<1>3. Events(rows) = UNION image
  BY <1>1 DEF Events, Journal!Events
<1>4. IsFiniteSet(image)
  <2>1. f \in Surjection(1..Len(rows), image)
    BY DEF Surjection
  <2>2. IsFiniteSet(1..Len(rows))
    BY <1>1, FS_Interval
  <2>. HIDE DEF image, f
  <2>. QED BY <2>1, <2>2, FS_Surjection
<1>5. \A S \in image : S \in Contents /\ S \in SUBSET Nat /\ IsFiniteSet(S)
  BY <1>2, ObserverAssumption
<1>6. IsFiniteSet(UNION image)
  <2>. HIDE DEF image
  <2>. QED BY <1>4, <1>5, FS_UNION
<1>. QED BY <1>3, <1>5, <1>6

LEMMA AppendedEvents ==
  ASSUME NEW rows \in Seq(Batch), NEW row \in Batch
  PROVE  /\ Events(Append(rows, row)) = Events(rows) \cup row.events
         /\ Ids(Append(rows, row)) = Ids(rows) \cup {row.id}
<1>1. /\ Append(rows, row) \in Seq(Batch) /\ Len(Append(rows, row)) = Len(rows) + 1
      /\ \A n \in 1..Len(rows) : Append(rows, row)[n] = rows[n]
      /\ Append(rows, row)[Len(rows) + 1] = row
      /\ Len(rows) \in Nat
  BY AppendProperties, LenProperties
<1>2. \A n \in 1..Len(rows) + 1 : n \in 1..Len(rows) \/ n = Len(rows) + 1
  BY <1>1
<1>3. /\ Len(rows) + 1 \in 1..Len(rows) + 1
      /\ \A n \in 1..Len(rows) : n \in 1..Len(rows) + 1
  BY <1>1
<1>4. /\ DOMAIN Append(rows, row) = 1..Len(rows) + 1
      /\ DOMAIN rows = 1..Len(rows)
  BY <1>1, LenProperties
<1>. DEFINE s == Append(rows, row)
            k == Len(rows)
<1>. HIDE DEF s, k
<1>5. /\ \A n \in 1..k + 1 : (n \in 1..k /\ s[n] = rows[n]) \/ (n = k + 1 /\ s[n] = row)
      /\ \A n \in 1..k : n \in 1..k + 1 /\ s[n] = rows[n]
      /\ k + 1 \in 1..k + 1 /\ s[k + 1] = row
      /\ DOMAIN s = 1..k + 1 /\ DOMAIN rows = 1..k
  BY <1>1, <1>2, <1>3, <1>4 DEF s, k
<1>6. UNION {s[n].events : n \in DOMAIN s} = (UNION {rows[n].events : n \in DOMAIN rows}) \cup row.events
  BY <1>5
<1>7. {s[n].id : n \in DOMAIN s} = {rows[n].id : n \in DOMAIN rows} \cup {row.id}
  BY <1>5
<1>. QED BY <1>6, <1>7 DEF s, Events, Journal!Events, Ids, Journal!Ids
-----------------------------------------------------------------------------
(* The steps before the result is accepted *)

LEMMA TypesKept ==
  ASSUME TypeOK, UNCHANGED <<observation, runFiles, checkpoint, invocations>>,
         lock' \in BOOLEAN, current' \in Results,
         DOMAIN batchFiles' \subseteq BatchIds, Range(batchFiles') \subseteq Contents \cup {{}},
         at' \in [Clients -> Steps],
         \A b, d \in Clients : at'[b] # "idle" /\ at'[d] # "idle" => lock' /\ b = d
  PROVE  TypeOK'
BY DEF TypeOK

LEMMA Quiet ==
  ASSUME IInv, UNCHANGED <<observation, runFiles, current, checkpoint, invocations>>,
         lock' \in BOOLEAN,
         DOMAIN batchFiles' \subseteq BatchIds, Range(batchFiles') \subseteq Contents \cup {{}},
         at' \in [Clients -> Steps], CallOK',
         \A d \in Clients : at'[d] = "idle"
  PROVE  IInv'
<1>1. TypeOK'
  <2>1. TypeOK /\ current' \in Results
    BY DEF IInv, TypeOK
  <2>. QED BY <2>1, TypesKept
<1>. QED BY <1>1, IdleHoldsNothing, SameDisk

(* One process goes to another step. *)
LEMMA OneMoves ==
  ASSUME IInv, UNCHANGED <<observation, runFiles, checkpoint, invocations>>,
         current' \in Results, current' = current \/ Ahead, lock' \in BOOLEAN,
         DOMAIN batchFiles' \subseteq BatchIds, Range(batchFiles') \subseteq Contents \cup {{}},
         NEW c \in Clients, at' \in [Clients -> Steps], CallOK',
         at'[c] # "log", InHand(c)',
         \A d \in Clients : d # c => at'[d] = "idle",
         \A b, d \in Clients : at'[b] # "idle" /\ at'[d] # "idle" => lock' /\ b = d
  PROVE  IInv'
<1>1. TypeOK'
  BY TypesKept DEF IInv
<1>2. \A d \in Clients : InHand(d)'
  BY IdleHoldsNothing
<1>3. \A d \in Clients : at'[d] = "log" => at[d] = "log"
  <2>1. "idle" # "log"
    OBVIOUS
  <2>. QED BY <2>1
<1>. QED BY <1>1, <1>2, <1>3, SameDisk

LEMMA AcquireStep ==
  ASSUME IInv, NEW c \in Clients, NEW row \in Batch, NEW config \in Configs, Acquire(c, row, config)
  PROVE  IInv'
<1>. DEFINE h == [NoCall EXCEPT !.row = row, !.config = config]
<1>1. \A d \in Clients : at[d] = "idle"
  BY DEF IInv, TypeOK, Acquire
<1>2. /\ at' \in [Clients -> Steps] /\ at'[c] = "locked"
      /\ \A d \in Clients : d # c => at'[d] = "idle"
  BY <1>1 DEF IInv, TypeOK, Acquire, Steps
<1>3. /\ h \in [row : Batch \cup {<<>>}, config : Configs \cup {NoConfig},
                state : Observation, result : Results]
      /\ h.row = row /\ h.config = config
  <2>1. NoObservation \in Observation
    BY DEF NoObservation, Observation
  <2>2. <<>> \in Results
    BY DEF Results, Journal!Results
  <2>. QED BY <2>1, <2>2 DEF NoCall
<1>4. call' = [call EXCEPT ![c] = h]
  BY DEF Acquire
<1>. HIDE DEF h
<1>5. CallOK' /\ call'[c] = h
  BY <1>3, <1>4 DEF IInv, CallOK
<1>6. InHand(c)'
  BY <1>2, <1>3, <1>5 DEF InHand, Busy, Row, Config
<1>. QED BY <1>2, <1>5, <1>6, OneMoves DEF Acquire, files, IInv, TypeOK

LEMMA RefuseStep ==
  ASSUME IInv, NEW c \in Clients, Refuse(c) \/ RefuseSequence(c)
  PROVE  IInv'
<1>1. Busy(c) /\ Release(c) /\ UNCHANGED files
  BY DEF Refuse, RefuseSequence, Busy
<1>2. at' \in [Clients -> Steps] /\ CallOK' /\ \A d \in Clients : at'[d] = "idle"
  BY <1>1, ReleaseEffect DEF IInv, Release
<1>. QED BY <1>1, <1>2, Quiet DEF files, Release, IInv, TypeOK

LEMMA FreezeOnEntryStep ==
  ASSUME IInv, NEW c \in Clients, FreezeOnEntry(c)
  PROVE  IInv'
<1>1. Busy(c) /\ UNCHANGED files /\ ~Stopped /\ Goto(c, "state", Frozen(Loaded(c)))
  BY DEF FreezeOnEntry, Busy, Stopped
<1>2. Loaded(c) \in Observation /\ Row(c) \in Batch /\ Config(c) \in Configs
  BY <1>1, LoadedState
<1>3. Frozen(Loaded(c)) \in Observation
  BY <1>2, FrozenState
<1>4. /\ at' \in [Clients -> Steps] /\ CallOK' /\ lock' = lock
      /\ at'[c] = "state" /\ call'[c].state = Frozen(Loaded(c))
      /\ call'[c].row = call[c].row /\ call'[c].config = call[c].config
      /\ \A d \in Clients : d # c => at'[d] = "idle"
      /\ \A b, d \in Clients : at'[b] # "idle" /\ at'[d] # "idle" => lock' /\ b = d
  BY <1>1, <1>3, GotoEffect DEF IInv, Steps
<1>5. Row(c)' = Row(c) /\ Config(c)' = Config(c) /\ Loaded(c)' = Loaded(c)
  BY <1>1, <1>4, SameContext DEF files
<1>6. Freezes(c)' /\ ~Stopped'
  BY <1>1, <1>4, <1>5 DEF Freezes, Frozen, Stopped, files
<1>7. InHand(c)'
  BY <1>2, <1>4, <1>5, <1>6 DEF InHand, Busy
<1>. QED BY <1>1, <1>4, <1>7, OneMoves DEF files, IInv, TypeOK

LEMMA CreateBatchStep ==
  ASSUME IInv, NEW c \in Clients, CreateBatch(c)
  PROVE  IInv'
<1>1. Busy(c) /\ Goto(c, "batch", Loaded(c)) /\ Continuing(c)
  BY DEF CreateBatch, Busy, Continuing, Stopped, Known, Ids, Tracked
<1>2. Loaded(c) \in Observation /\ Row(c) \in Batch /\ Config(c) \in Configs
  BY <1>1, LoadedState
<1>3. /\ at' \in [Clients -> Steps] /\ CallOK' /\ lock' = lock
      /\ at'[c] = "batch" /\ call'[c].state = Loaded(c)
      /\ call'[c].row = call[c].row /\ call'[c].config = call[c].config
      /\ \A d \in Clients : d # c => at'[d] = "idle"
      /\ \A b, d \in Clients : at'[b] # "idle" /\ at'[d] # "idle" => lock' /\ b = d
  BY <1>1, <1>2, GotoEffect DEF IInv, Steps
<1>4. UNCHANGED <<observation, runFiles, current, checkpoint, invocations>>
  BY DEF CreateBatch
<1>5. /\ Row(c)' = Row(c) /\ Config(c)' = Config(c) /\ Loaded(c)' = Loaded(c)
      /\ Continuing(c)'
  BY <1>1, <1>3, <1>4, SameContext
<1>6. InHand(c)'
  BY <1>2, <1>3, <1>5 DEF InHand, Busy
<1>7. DOMAIN batchFiles' \subseteq BatchIds /\ Range(batchFiles') \subseteq Contents \cup {{}}
  <2>1. Row(c).id \in BatchIds
    BY <1>2 DEF Batch, Journal!Batch
  <2>2. DOMAIN batchFiles' = DOMAIN batchFiles \cup {Row(c).id}
    BY DEF CreateBatch, With
  <2>3. \A id \in DOMAIN batchFiles' :
          batchFiles'[id] = IF id = Row(c).id THEN {} ELSE batchFiles[id]
    BY <2>2 DEF CreateBatch, With
  <2>. QED BY <2>1, <2>2, <2>3 DEF IInv, TypeOK, Range
<1>. QED BY <1>3, <1>4, <1>6, <1>7, OneMoves DEF IInv, TypeOK

LEMMA RewrittenBatch ==
  ASSUME TypeOK, NEW row \in Batch, batchFiles' = [batchFiles EXCEPT ![row.id] = row.events]
  PROVE  DOMAIN batchFiles' \subseteq BatchIds /\ Range(batchFiles') \subseteq Contents \cup {{}}
<1>1. row.events \in Contents
  BY DEF Batch, Journal!Batch
<1>2. /\ DOMAIN batchFiles' = DOMAIN batchFiles
      /\ \A id \in DOMAIN batchFiles : batchFiles'[id] \in {batchFiles[id], row.events}
  OBVIOUS
<1>. QED BY <1>1, <1>2 DEF TypeOK, Range

LEMMA WriteBatchStep ==
  ASSUME IInv, NEW c \in Clients, WriteBatch(c)
  PROVE  IInv'
<1>1. Busy(c) /\ Continuing(c) /\ call[c].state = Loaded(c)
  BY DEF WriteBatch, Busy, IInv, InHand
<1>2. Taken(c) \in Observation /\ Row(c) \in Batch /\ Config(c) \in Configs
  BY <1>1, LoadedState, TakenState
<1>3. Goto(c, "evaluate", Taken(c))
  BY <1>1 DEF WriteBatch, Taken
<1>4. /\ at' \in [Clients -> Steps] /\ CallOK' /\ lock' = lock
      /\ at'[c] = "evaluate" /\ call'[c].state = Taken(c)
      /\ call'[c].row = call[c].row /\ call'[c].config = call[c].config
      /\ \A d \in Clients : d # c => at'[d] = "idle"
      /\ \A b, d \in Clients : at'[b] # "idle" /\ at'[d] # "idle" => lock' /\ b = d
  BY <1>1, <1>2, <1>3, GotoEffect DEF IInv, Steps
<1>5. UNCHANGED <<observation, runFiles, current, checkpoint, invocations>>
  BY DEF WriteBatch
<1>6. /\ Row(c)' = Row(c) /\ Config(c)' = Config(c) /\ Taken(c)' = Taken(c)
      /\ Continuing(c)'
  BY <1>1, <1>4, <1>5, SameContext
<1>7. InHand(c)'
  BY <1>2, <1>4, <1>6 DEF InHand, Busy
<1>8. DOMAIN batchFiles' \subseteq BatchIds /\ Range(batchFiles') \subseteq Contents \cup {{}}
  BY <1>2, RewrittenBatch DEF WriteBatch, IInv
<1>. QED BY <1>4, <1>5, <1>7, <1>8, OneMoves DEF IInv, TypeOK

LEMMA FreezeOnEvaluationStep ==
  ASSUME IInv, NEW c \in Clients, FreezeOnEvaluation(c)
  PROVE  IInv'
<1>1. Busy(c) /\ Continuing(c) /\ call[c].state = Taken(c) /\ UNCHANGED files
  BY DEF FreezeOnEvaluation, Busy, IInv, InHand
<1>2. Taken(c) \in Observation /\ Row(c) \in Batch /\ Config(c) \in Configs
  BY <1>1, LoadedState, TakenState
<1>3. Goto(c, "state", Frozen(Taken(c))) /\ Frozen(Taken(c)) \in Observation
  BY <1>1, <1>2, FrozenState DEF FreezeOnEvaluation
<1>4. /\ at' \in [Clients -> Steps] /\ CallOK' /\ lock' = lock
      /\ at'[c] = "state" /\ call'[c].state = Frozen(Taken(c))
      /\ call'[c].row = call[c].row /\ call'[c].config = call[c].config
      /\ \A d \in Clients : d # c => at'[d] = "idle"
      /\ \A b, d \in Clients : at'[b] # "idle" /\ at'[d] # "idle" => lock' /\ b = d
  BY <1>1, <1>3, GotoEffect DEF IInv, Steps
<1>5. /\ Row(c)' = Row(c) /\ Config(c)' = Config(c) /\ Taken(c)' = Taken(c)
      /\ Continuing(c)'
  BY <1>1, <1>4, SameContext DEF files
<1>6. Freezes(c)' /\ ~Stopped'
  BY <1>4, <1>5 DEF Freezes, Frozen, Continuing
<1>7. InHand(c)'
  BY <1>2, <1>4, <1>5, <1>6 DEF InHand, Busy
<1>. QED BY <1>1, <1>4, <1>7, OneMoves DEF files, IInv, TypeOK
-----------------------------------------------------------------------------
(* Acceptance *)

(* What a strategy does at each of finitely many events, in their order. *)
LEMMA ActsOf ==
  ASSUME NEW S \in SUBSET UNION Contents, IsFiniteSet(S),
         NEW does \in [UNION Contents -> {"buy", "sell", "hold"}]
  PROVE  /\ Acts(S, does) \in Results
         /\ DOMAIN Acts(S, does) = 1..Cardinality(S)
         /\ \A n \in 1..Cardinality(S) :
              Acts(S, does)[n] = [event |-> Sorted(S)[n], does |-> does[Sorted(S)[n]]]
         /\ S # {} => Acts(S, does) # <<>>
         /\ S # {} => \A e \in S : e <= Last(Acts(S, does)).event
<1>. DEFINE k == Cardinality(S)
            s == Sorted(S)
            a == Acts(S, does)
<1>1. S \in SUBSET Nat
  BY ObserverAssumption
<1>2. k \in Nat /\ s \in Seq(S) /\ Len(s) = k /\ DOMAIN s = 1..k
  BY <1>1, SortedSeq, FS_CardinalityType, LenProperties
<1>3. a = [n \in 1..k |-> [event |-> s[n], does |-> does[s[n]]]]
  BY <1>2 DEF Acts, Journal!Acts, Sorted
<1>4. \A n \in 1..k : s[n] \in S
  BY <1>2, ElementOfSeq
<1>. HIDE DEF a, s, k
<1>5. DOMAIN a = 1..k /\ \A n \in 1..k : a[n] = [event |-> s[n], does |-> does[s[n]]]
  BY <1>3
<1>6. \A n \in 1..k : a[n] \in Journal!Act
  BY <1>4, <1>5 DEF Journal!Act, Journal!Decisions
<1>7. a \in Results /\ Len(a) = k
  <2>1. a \in [1..k -> Journal!Act]
    BY <1>3, <1>5, <1>6
  <2>. QED BY <1>2, <2>1 DEF Results, Journal!Results
<1>8. S # {} => k # 0
  BY FS_EmptySet DEF k
<1>9. ASSUME S # {}, NEW e \in S PROVE e <= Last(a).event
  <2>1. e <= Last(s)
    BY <1>1, <1>9, SortedSeq DEF s
  <2>2. k \in 1..k
    BY <1>2, <1>8, <1>9
  <2>3. Last(s) = s[k] /\ Last(a) = a[k]
    BY <1>2, <1>7 DEF Last
  <2>. QED BY <1>5, <2>1, <2>2, <2>3
<1>. QED BY <1>2, <1>5, <1>7, <1>8, <1>9, EmptySeq DEF a, s, k

(* The acts at later events are appended to the acts before. *)
LEMMA ActsConcat ==
  ASSUME NEW S \in SUBSET UNION Contents, IsFiniteSet(S),
         NEW T \in SUBSET UNION Contents, IsFiniteSet(T),
         NEW does \in [UNION Contents -> {"buy", "sell", "hold"}],
         \A e \in S, x \in T : e < x
  PROVE  Acts(S, does) \o Acts(T, does) = Acts(S \cup T, does)
<1>. DEFINE k == Cardinality(S)
            l == Cardinality(T)
            s == Sorted(S)
            t == Sorted(T)
            u == Sorted(S \cup T)
            a == Acts(S, does)
            b == Acts(T, does)
            d == Acts(S \cup T, does)
<1>1. S \in SUBSET Nat /\ T \in SUBSET Nat
  BY ObserverAssumption
<1>2. IsFiniteSet(S \cup T) /\ S \cup T \in SUBSET UNION Contents
  BY FS_Union
<1>3. u = s \o t
  BY <1>1, SortedConcat
<1>4. /\ k \in Nat /\ l \in Nat
      /\ s \in Seq(S) /\ t \in Seq(T) /\ Len(s) = k /\ Len(t) = l
      /\ u \in Seq(S \cup T) /\ Len(u) = Cardinality(S \cup T)
  BY <1>1, <1>2, SortedSeq, FS_CardinalityType
<1>5. /\ a \in Results /\ b \in Results /\ d \in Results
      /\ DOMAIN a = 1..k /\ DOMAIN b = 1..l /\ DOMAIN d = 1..Cardinality(S \cup T)
      /\ \A n \in 1..k : a[n] = [event |-> s[n], does |-> does[s[n]]]
      /\ \A n \in 1..l : b[n] = [event |-> t[n], does |-> does[t[n]]]
      /\ \A n \in 1..Cardinality(S \cup T) : d[n] = [event |-> u[n], does |-> does[u[n]]]
  BY <1>2, ActsOf
<1>. HIDE DEF a, b, d, s, t, u, k, l
<1>6. Len(u) = k + l /\ \A n \in 1..(k + l) : u[n] = IF n <= k THEN s[n] ELSE t[n - k]
  <2>1. s \in Seq(S \cup T) /\ t \in Seq(S \cup T)
    BY <1>4
  <2>. QED BY <1>3, <1>4, <2>1, ConcatProperties
<1>7. Len(a) = k /\ Len(b) = l /\ Len(d) = k + l
  BY <1>4, <1>5, <1>6, LenProperties DEF Results, Journal!Results
<1>8. a \o b \in Results /\ Len(a \o b) = k + l
      /\ \A n \in 1..(k + l) : (a \o b)[n] = IF n <= k THEN a[n] ELSE b[n - k]
  <2>1. a \in Seq(Journal!Act) /\ b \in Seq(Journal!Act)
    BY <1>5 DEF Results, Journal!Results
  <2>. HIDE DEF Journal!Act
  <2>2. /\ a \o b \in Seq(Journal!Act) /\ Len(a \o b) = Len(a) + Len(b)
        /\ \A n \in 1..(Len(a) + Len(b)) :
             (a \o b)[n] = IF n <= Len(a) THEN a[n] ELSE b[n - Len(a)]
    BY <2>1, ConcatProperties
  <2>. QED BY <1>7, <2>2 DEF Results, Journal!Results
<1>9. ASSUME NEW n \in 1..(k + l) PROVE (a \o b)[n] = d[n]
  <2>1. d[n] = [event |-> u[n], does |-> does[u[n]]]
    BY <1>4, <1>5, <1>6
  <2>2. CASE n <= k
    <3>1. n \in 1..k
      BY <1>4, <2>2
    <3>. QED BY <1>5, <1>6, <1>8, <2>1, <2>2, <3>1
  <2>3. CASE ~ n <= k
    <3>1. n - k \in 1..l
      BY <1>4, <2>3
    <3>. QED BY <1>5, <1>6, <1>8, <2>1, <2>3, <3>1
  <2>. QED BY <2>2, <2>3
<1>10. a \o b = d
  <2>1. a \o b \in Seq(Journal!Act) /\ d \in Seq(Journal!Act)
    BY <1>5, <1>8 DEF Results, Journal!Results
  <2>2. Len(a \o b) = Len(d) /\ \A n \in 1..Len(d) : (a \o b)[n] = d[n]
    BY <1>7, <1>8, <1>9
  <2>. QED BY <2>1, <2>2, SeqEqual
<1>. QED BY <1>10 DEF a, b, d

LEMMA Deciding == {Decided} \cup Astray \subseteq [UNION Contents -> {"buy", "sell", "hold"}]
BY ObserverAssumption

LEMMA SortedResult ==
  ASSUME NEW rows \in Seq(Batch), NEW row \in Batch
  PROVE  /\ Replay(Append(rows, row)) \in Results \ {<<>>}
         /\ \A does \in {Decided} \cup Astray : Acts(row.events, does) \in Results \ {<<>>}
         /\ row.events \in SUBSET Nat /\ row.events \in SUBSET UNION Contents
         /\ IsFiniteSet(row.events)
<1>1. /\ row.events \in Contents /\ row.events # {} /\ row.events \in SUBSET Nat
      /\ IsFiniteSet(row.events) /\ row.events \in SUBSET UNION Contents
  BY ObserverAssumption DEF Batch, Journal!Batch
<1>2. Append(rows, row) \in Seq(Batch)
  BY AppendProperties
<1>. DEFINE all == Events(Append(rows, row))
<1>3. /\ all \in SUBSET UNION Contents /\ IsFiniteSet(all) /\ all # {}
  BY <1>1, <1>2, EventsAre, AppendedEvents
<1>4. Replay(Append(rows, row)) = Acts(all, Decided)
  BY DEF Replay, Journal!Replay, Acts, Events
<1>. HIDE DEF all
<1>. QED BY <1>1, <1>3, <1>4, ActsOf, Deciding

(* What an intact directory holds is what the state tracks. *)
LEMMA IntactReadsBack ==
  ASSUME NEW rows \in Seq(Batch), NEW row \in Batch, Intact(Append(rows, row))
  PROVE  /\ Acts(ReadBack(Append(rows, row)), Decided) = Replay(Append(rows, row))
         /\ row.events \cap Events(rows) = {}
<1>. DEFINE s == Append(rows, row)
<1>1. ReadBack(s) = Journal!Events(s)
  BY DEF Intact, ReadBack, Journal!Events
<1>2. /\ Len(rows) \in Nat /\ Len(s) = Len(rows) + 1 /\ s \in Seq(Batch)
      /\ \A n \in 1..Len(rows) : s[n] = rows[n]
      /\ s[Len(rows) + 1] = row
  BY AppendProperties, LenProperties
<1>3. DOMAIN s = 1..Len(rows) + 1
  BY <1>2, LenProperties
<1>4. \A n \in 1..Len(rows) : row.events \cap rows[n].events = {}
  <2>1. ASSUME NEW n \in 1..Len(rows) PROVE row.events \cap rows[n].events = {}
    <3>1. n \in DOMAIN s /\ Len(rows) + 1 \in DOMAIN s /\ n # Len(rows) + 1
      BY <1>2, <1>3
    <3>2. s[Len(rows) + 1].events \cap s[n].events = {}
      BY <3>1 DEF Intact
    <3>. QED BY <1>2, <3>2
  <2>. QED BY <2>1
<1>5. row.events \cap Events(rows) = {}
  BY <1>4, EventsAre
<1>. QED BY <1>1, <1>5 DEF Replay, Journal!Replay, Acts

LEMMA PrefixOfConcat ==
  ASSUME NEW r \in Results, NEW t \in Results
  PROVE  IsPrefix(r, r \o t)
<1>1. /\ r \o t \in Results /\ Len(r) \in Nat /\ Len(t) \in Nat
      /\ Len(r \o t) = Len(r) + Len(t)
  BY ConcatProperties, LenProperties DEF Results, Journal!Results
<1>2. SubSeq(r \o t, 1, Len(r)) = SubSeq(r, 1, Len(r))
  <2>1. CASE Len(r) = 0
    BY <1>1, <2>1, SubSeqEmpty DEF Results, Journal!Results
  <2>2. CASE Len(r) # 0
    <3>1. 1 \in 1..Len(r) /\ Len(r) \in 1..Len(r)
      BY <1>1, <2>2
    <3>. QED BY <1>1, <3>1, SubSeqOfConcat1 DEF Results, Journal!Results
  <2>. QED BY <2>1, <2>2
<1>. QED BY <1>1, <1>2 DEF IsPrefix

LEMMA LastOfRuns ==
  ASSUME IInv
  PROVE  LastResult(Runs) \in Results
<1>1. Runs \in Seq(Results)
  BY LengthsOf
<1>2. <<>> \in Results
  BY EmptySeq DEF Results, Journal!Results
<1>3. CASE Runs # <<>>
  <2>1. Len(Runs) \in Nat \ {0}
    BY <1>1, <1>3, EmptySeq
  <2>2. Runs[Len(Runs)] \in Results
    BY <1>1, <2>1, ElementOfSeq
  <2>. QED BY <1>3, <2>2 DEF LastResult, Journal!LastResult, Journal!Last
<1>. QED BY <1>2, <1>3 DEF LastResult, Journal!LastResult

(* What is accepted continues the last result, has the totals of the clean  *)
(* replay when that is audited, and is it with a faithful strategy: results *)
(* are accepted only where the checkpoint did not run ahead.                *)
LEMMA AcceptedResult ==
  ASSUME IInv, NEW c \in Clients, at[c] = "evaluate", Evaluated(c), ~RunFileExists(c)
  PROVE  /\ Result(c) \in Results \ {<<>>} /\ ~Ahead
         /\ Row(c).events \cap Events(Tracked) = {}
         /\ IsPrefix(LastResult(Runs), Result(c))
         /\ Config(c) \notin Forgetful => Result(c) = Replay(Append(Tracked, Row(c)))
         /\ Journal!AuditDue(Len(Runs) + 1) =>
              Totals(Result(c)) = Totals(Replay(Append(Tracked, Row(c))))
<1>1. /\ Busy(c) /\ Continuing(c) /\ call[c].state = Taken(c)
  BY DEF Busy, IInv, InHand
<1>2. /\ Row(c) \in Batch /\ Config(c) \in Configs
      /\ Tracked \in Seq(Batch) /\ Runs \in Seq(Results) /\ Len(Runs) \in Nat
      /\ Taken(c).batches = Append(Tracked, Row(c)) /\ Taken(c).runs = Runs
  BY <1>1, LoadedState, TakenState, LengthsOf
<1>. DEFINE rows == Append(Tracked, Row(c))
<1>3. ~Ahead /\ ~Stopped
  <2>1. Len(Runs) + 1 \notin DOMAIN runFiles
    BY <1>1, <1>2 DEF RunFileExists, Sequence
  <2>. QED BY <1>1, <1>2, <2>1 DEF Ahead, Continuing
<1>4. Intact(rows)
  BY <1>1, <1>2 DEF Evaluated
<1>5. /\ Clean(c) = Replay(rows)
      /\ Row(c).events \cap Events(Tracked) = {}
  BY <1>1, <1>2, <1>4, IntactReadsBack DEF Clean, Acts
<1>6. /\ Replay(rows) \in Results \ {<<>>}
      /\ \A does \in {Decided} \cup Astray : Acts(Row(c).events, does) \in Results \ {<<>>}
      /\ Row(c).events \in SUBSET Nat /\ Row(c).events \in SUBSET UNION Contents
      /\ IsFiniteSet(Row(c).events)
  BY <1>2, SortedResult
<1>7. CASE ~Incremental(c)
  <2>1. Result(c) = Replay(rows)
    BY <1>5, <1>7 DEF Result
  <2>2. IsPrefix(LastResult(Runs), Result(c))
    BY <1>3, <1>7 DEF Evaluated, PrefixStable, IInv, ResultCurrent
  <2>. QED BY <1>3, <1>5, <1>6, <2>1, <2>2
<1>8. CASE Incremental(c)
  <2>. DEFINE new == Acts(Row(c).events, checkpoint.does)
  <2>1. Result(c) = checkpoint.acted \o new
    BY <1>8 DEF Result, Acts
  <2>2. checkpoint.acted \in Results /\ checkpoint.last \in Nat /\ new \in Results \ {<<>>}
    BY <1>6 DEF IInv, TypeOK
  <2>. HIDE DEF new
  <2>3. Result(c) \in Results \ {<<>>}
    BY <2>1, <2>2, ConcatProperties, ConcatEqualIffEmpty DEF Results, Journal!Results
  <2>4. /\ observation.status = "absent" => observation.config = NoConfig
        /\ observation.status # "absent" => observation.config = Config(c)
    <3>1. observation.status = "absent" => observation.config = NoConfig
      BY DEF IInv, Whole, NoObservation
    <3>2. observation.status # "absent" => observation.config = Config(c)
      BY <1>1 DEF Continuing, Drifted, Loaded
    <3>. QED BY <3>1, <3>2
  <2>5. IsPrefix(LastResult(Runs), Result(c))
    <3>1. observation.config \in Checkpointed \cup {NoConfig}
      BY <1>8, <2>4 DEF Incremental
    <3>2. checkpoint.acted = LastResult(Runs)
      BY <1>3, <3>1 DEF IInv, CheckpointCurrent
    <3>. QED BY <2>1, <2>2, <3>2, PrefixOfConcat
  <2>6. Journal!AuditDue(Len(Runs) + 1) => Totals(Result(c)) = Totals(Replay(rows))
    BY <1>1, <1>2, <1>5, <1>8 DEF Evaluated, AuditPasses, Sequence, Totals
  <2>7. ASSUME Config(c) \notin Forgetful PROVE Result(c) = Replay(rows)
    <3>1. observation.config \in (Checkpointed \ Forgetful) \cup {NoConfig}
      BY <1>8, <2>4, <2>7 DEF Incremental
    <3>2. /\ checkpoint.acted = Replay(Tracked) /\ checkpoint.does = Decided
          /\ \A e \in Events(Tracked) : e <= checkpoint.last
      BY <1>3, <3>1 DEF IInv, CheckpointCurrent
    <3>3. \A e \in Row(c).events : e > checkpoint.last
      BY <1>8 DEF Evaluated, Continues
    <3>4. /\ Events(Tracked) \in SUBSET Nat /\ IsFiniteSet(Events(Tracked))
          /\ Events(Tracked) \in SUBSET UNION Contents
      BY <1>2, EventsAre
    <3>5. \A e \in Events(Tracked), x \in Row(c).events : e < x
      BY <1>6, <2>2, <3>2, <3>3, <3>4
    <3>6. Acts(Events(Tracked), Decided) \o Acts(Row(c).events, Decided)
            = Acts(Events(Tracked) \cup Row(c).events, Decided)
      <4>1. /\ Row(c).events \in SUBSET UNION Contents /\ IsFiniteSet(Row(c).events)
            /\ Decided \in [UNION Contents -> {"buy", "sell", "hold"}]
        BY <1>6, Deciding
      <4>. QED BY <3>4, <3>5, <4>1, ActsConcat
    <3>7. Events(rows) = Events(Tracked) \cup Row(c).events
      BY <1>2, AppendedEvents
    <3>. QED BY <2>1, <3>2, <3>6, <3>7 DEF Replay, Journal!Replay, Acts, Events, new
  <2>. QED BY <1>3, <1>5, <2>3, <2>5, <2>6, <2>7
<1>. QED BY <1>7, <1>8

LEMMA AcceptStep ==
  ASSUME IInv, NEW c \in Clients, Accept(c)
  PROVE  IInv'
<1>1. /\ Busy(c) /\ Continuing(c) /\ call[c].state = Taken(c)
      /\ Row(c) \in Batch /\ Config(c) \in Configs /\ UNCHANGED <<lock, files>>
  BY DEF Accept, Busy, IInv, InHand
<1>2. /\ Result(c) \in Results \ {<<>>} /\ ~Ahead
      /\ Row(c).events \cap Events(Tracked) = {}
      /\ IsPrefix(LastResult(Runs), Result(c))
      /\ Config(c) \notin Forgetful => Result(c) = Replay(Append(Tracked, Row(c)))
      /\ Journal!AuditDue(Len(Runs) + 1) =>
           Totals(Result(c)) = Totals(Replay(Append(Tracked, Row(c))))
  BY AcceptedResult DEF Accept
<1>. DEFINE h == [call[c] EXCEPT !.result = Result(c)]
<1>3. /\ h \in [row : Batch \cup {<<>>}, config : Configs \cup {NoConfig},
                state : Observation, result : Results]
      /\ h.row = call[c].row /\ h.config = call[c].config
      /\ h.state = call[c].state /\ h.result = Result(c)
  BY <1>2, HeldCall DEF IInv
<1>4. call' = [call EXCEPT ![c] = h]
  BY DEF Accept
<1>. HIDE DEF h
<1>5. CallOK' /\ call'[c] = h
  BY <1>3, <1>4 DEF IInv, CallOK
<1>6. /\ at' \in [Clients -> Steps] /\ at'[c] = "run"
      /\ \A d \in Clients : d # c => at'[d] = "idle"
  <2>1. at \in [Clients -> Steps] /\ at' = [at EXCEPT ![c] = "run"]
    BY DEF IInv, TypeOK, Accept
  <2>2. \A d \in Clients : d # c => at[d] = "idle"
    BY <1>1, OthersIdle DEF IInv
  <2>. QED BY <2>1, <2>2 DEF Steps
<1>7. \A b, d \in Clients : at'[b] # "idle" /\ at'[d] # "idle" => lock' /\ b = d
  BY <1>1, <1>6 DEF IInv, TypeOK, Busy
<1>8. /\ Row(c)' = Row(c) /\ Config(c)' = Config(c) /\ Taken(c)' = Taken(c) /\ Continuing(c)'
  BY <1>1, <1>3, <1>5, SameContext DEF files
<1>9. Accepted(c)' /\ ~Ahead'
  <2>1. observation' = observation /\ runFiles' = runFiles
    BY <1>1 DEF files
  <2>. QED BY <1>2, <1>3, <1>5, <1>8, <2>1
           DEF Accepted, Ahead, Runs, Tracked, Events, Replay, LastResult, Totals
<1>10. InHand(c)'
  BY <1>1, <1>3, <1>5, <1>6, <1>8, <1>9 DEF InHand, Busy
<1>. QED BY <1>1, <1>5, <1>6, <1>7, <1>10, OneMoves DEF files, IInv, TypeOK
-----------------------------------------------------------------------------
(* The writes of an accepted batch *)

LEMMA CommittedState ==
  ASSUME IInv, NEW c \in Clients, Accepted(c), Busy(c), call[c].state = Taken(c)
  PROVE  /\ Committed(c) \in Observation
         /\ Committed(c) = [Taken(c) EXCEPT !.runs = Append(@, call[c].result)]
<1>1. Taken(c) \in Observation /\ call[c].result \in Results
  BY TakenState DEF Accepted
<1>2. Taken(c).runs \in Seq(Results)
  BY <1>1 DEF Observation
<1>3. Append(Taken(c).runs, call[c].result) \in Seq(Results)
  BY <1>1, <1>2, AppendProperties
<1>. QED BY <1>1, <1>3 DEF Committed, Observation

LEMMA WriteRunStep ==
  ASSUME IInv, NEW c \in Clients, WriteRun(c)
  PROVE  IInv'
<1>1. /\ Busy(c) /\ Accepted(c) /\ ~Ahead /\ call[c].state = Taken(c)
      /\ Row(c) \in Batch /\ Config(c) \in Configs /\ at[c] = "run"
  BY DEF WriteRun, Busy, IInv, InHand
<1>2. Taken(c) \in Observation /\ Taken(c).runs = Runs /\ Len(Runs) \in Nat
  BY <1>1, TakenState, LengthsOf
<1>3. UNCHANGED <<observation, batchFiles, current, checkpoint, invocations>>
  BY DEF WriteRun
<1>4. /\ at' \in [Clients -> Steps] /\ CallOK' /\ lock' = lock
      /\ at'[c] = "current" /\ call'[c].state = Taken(c)
      /\ call'[c].row = call[c].row /\ call'[c].config = call[c].config
      /\ call'[c].result = call[c].result
      /\ \A d \in Clients : d # c => at'[d] = "idle"
      /\ \A b, d \in Clients : at'[b] # "idle" /\ at'[d] # "idle" => lock' /\ b = d
  BY <1>1, <1>2, GotoEffect DEF WriteRun, IInv, Steps
<1>5. DOMAIN runFiles' = 1..(Len(Runs) + 1) /\ Range(runFiles') \subseteq Results
  <2>1. DOMAIN runFiles = 1..Len(Runs)
    BY <1>1 DEF IInv, TypeOK, Ahead, Runs
  <2>2. /\ DOMAIN runFiles' = DOMAIN runFiles \cup {Len(Runs) + 1}
        /\ \A n \in DOMAIN runFiles' :
             runFiles'[n] = IF n = Len(Runs) + 1 THEN call[c].result ELSE runFiles[n]
    BY <1>1, <1>2 DEF WriteRun, With, Sequence
  <2>3. 1..(Len(Runs) + 1) = 1..Len(Runs) \cup {Len(Runs) + 1}
    BY <1>2
  <2>4. Range(runFiles') \subseteq Results
    BY <1>1, <2>2 DEF IInv, TypeOK, Range, Accepted
  <2>. QED BY <2>1, <2>2, <2>3, <2>4
<1>6. TypeOK'
  BY <1>3, <1>4, <1>5 DEF IInv, TypeOK, Runs
<1>7. Ahead'
  BY <1>3, <1>5 DEF Ahead, Runs
<1>8. /\ Row(c)' = Row(c) /\ Config(c)' = Config(c) /\ Taken(c)' = Taken(c) /\ Accepted(c)'
  BY <1>1, <1>3, <1>4, SameContext
<1>9. InHand(c)'
  BY <1>1, <1>4, <1>7, <1>8 DEF InHand, Busy
<1>10. ResultCurrent' /\ CheckpointCurrent'
  BY <1>7 DEF ResultCurrent, CheckpointCurrent
<1>11. \A d \in Clients : InHand(d)' /\ at'[d] # "log"
  BY <1>4, <1>9, IdleHoldsNothing
<1>. QED BY <1>3, <1>4, <1>6, <1>10, <1>11, SameState DEF IInv

LEMMA WriteCurrentStep ==
  ASSUME IInv, NEW c \in Clients, WriteCurrent(c)
  PROVE  IInv'
<1>1. /\ Busy(c) /\ Accepted(c) /\ Ahead /\ call[c].state = Taken(c)
      /\ Row(c) \in Batch /\ Config(c) \in Configs /\ at[c] = "current"
  BY DEF WriteCurrent, Busy, IInv, InHand
<1>2. /\ Taken(c) \in Observation /\ Committed(c) \in Observation
      /\ Committed(c) = [Taken(c) EXCEPT !.runs = Append(@, call[c].result)]
  BY <1>1, TakenState, CommittedState
<1>3. UNCHANGED <<observation, batchFiles, runFiles, checkpoint, invocations>> /\ current' = call[c].result
      /\ current' \in Results
  BY <1>1 DEF WriteCurrent, Accepted
<1>4. CASE Incremental(c)
  <2>1. /\ at' \in [Clients -> Steps] /\ CallOK' /\ lock' = lock
        /\ at'[c] = "checkpoint" /\ call'[c].state = Taken(c)
        /\ call'[c].row = call[c].row /\ call'[c].config = call[c].config
        /\ call'[c].result = call[c].result
        /\ \A d \in Clients : d # c => at'[d] = "idle"
        /\ \A b, d \in Clients : at'[b] # "idle" /\ at'[d] # "idle" => lock' /\ b = d
    BY <1>1, <1>2, <1>4, GotoEffect DEF WriteCurrent, IInv, Steps
  <2>2. /\ Row(c)' = Row(c) /\ Config(c)' = Config(c) /\ Taken(c)' = Taken(c) /\ Accepted(c)'
    BY <1>1, <1>3, <2>1, SameContext
  <2>3. InHand(c)'
    BY <1>1, <1>3, <2>1, <2>2 DEF InHand, Busy, Ahead, Runs
  <2>. QED BY <1>1, <1>3, <2>1, <2>3, OneMoves DEF IInv, TypeOK
<1>5. CASE ~Incremental(c)
  <2>1. /\ at' \in [Clients -> Steps] /\ CallOK' /\ lock' = lock
        /\ at'[c] = "state" /\ call'[c].state = Committed(c)
        /\ call'[c].row = call[c].row /\ call'[c].config = call[c].config
        /\ call'[c].result = call[c].result
        /\ \A d \in Clients : d # c => at'[d] = "idle"
        /\ \A b, d \in Clients : at'[b] # "idle" /\ at'[d] # "idle" => lock' /\ b = d
    BY <1>1, <1>2, <1>5, GotoEffect DEF WriteCurrent, IInv, Steps
  <2>2. /\ Row(c)' = Row(c) /\ Config(c)' = Config(c) /\ Taken(c)' = Taken(c) /\ Accepted(c)'
    BY <1>1, <1>3, <2>1, SameContext
  <2>3. Commits(c)'
    BY <1>1, <1>2, <1>3, <1>5, <2>1, <2>2 DEF Commits, Ahead, Runs, Incremental
  <2>4. ~Stopped'
    BY <2>2 DEF Accepted, Continuing
  <2>5. InHand(c)'
    BY <1>1, <2>1, <2>2, <2>3, <2>4 DEF InHand, Busy
  <2>. QED BY <1>1, <1>3, <2>1, <2>5, OneMoves DEF IInv, TypeOK
<1>. QED BY <1>4, <1>5

LEMMA WriteCheckpointStep ==
  ASSUME IInv, NEW c \in Clients, WriteCheckpoint(c)
  PROVE  IInv'
<1>1. /\ Busy(c) /\ Accepted(c) /\ Ahead /\ call[c].state = Taken(c)
      /\ Row(c) \in Batch /\ Config(c) \in Configs /\ at[c] = "checkpoint"
      /\ current = call[c].result
  BY DEF WriteCheckpoint, Busy, IInv, InHand
<1>2. /\ Committed(c) \in Observation
      /\ Committed(c) = [Taken(c) EXCEPT !.runs = Append(@, call[c].result)]
  BY <1>1, CommittedState
<1>3. UNCHANGED <<observation, batchFiles, runFiles, current, invocations>>
  BY DEF WriteCheckpoint
<1>4. /\ at' \in [Clients -> Steps] /\ CallOK' /\ lock' = lock
      /\ at'[c] = "state" /\ call'[c].state = Committed(c)
      /\ call'[c].row = call[c].row /\ call'[c].config = call[c].config
      /\ call'[c].result = call[c].result
      /\ \A d \in Clients : d # c => at'[d] = "idle"
      /\ \A b, d \in Clients : at'[b] # "idle" /\ at'[d] # "idle" => lock' /\ b = d
  BY <1>1, <1>2, GotoEffect DEF WriteCheckpoint, IInv, Steps
<1>5. /\ checkpoint' \in [last : Nat, acted : Results, does : {Decided} \cup Astray]
      /\ checkpoint'.acted = call[c].result
      /\ Config(c) \notin Forgetful =>
           checkpoint'.does = Decided /\ checkpoint'.last = Last(call[c].result).event
  <2>. DEFINE r == call[c].result
  <2>1. r \in Seq(Journal!Act) /\ r # <<>>
    BY <1>1 DEF Accepted, Results, Journal!Results
  <2>2. Last(r).event \in Nat
    <3>1. Len(r) \in Nat \ {0}
      BY <2>1, EmptySeq
    <3>2. r[Len(r)] \in Journal!Act
      BY <2>1, <3>1, ElementOfSeq
    <3>3. r[Len(r)].event \in UNION Contents
      BY <3>2 DEF Journal!Act
    <3>. QED BY <3>3, ObserverAssumption DEF Last
  <2>3. PICK does \in Exported(c) :
          checkpoint' = [last |-> Last(r).event, acted |-> r, does |-> does]
    BY DEF WriteCheckpoint
  <2>4. /\ does \in {Decided} \cup Astray /\ (Config(c) \notin Forgetful => does = Decided)
        /\ r \in Results
    BY <1>1 DEF Exported, Accepted, IInv, TypeOK
  <2>. HIDE DEF r
  <2>5. checkpoint' \in [last : Nat, acted : Results, does : {Decided} \cup Astray]
    BY <2>2, <2>3, <2>4
  <2>. QED BY <2>3, <2>4, <2>5 DEF r
<1>6. TypeOK'
  BY <1>3, <1>4, <1>5 DEF IInv, TypeOK
<1>7. Ahead'
  BY <1>1, <1>3 DEF Ahead, Runs
<1>8. /\ Row(c)' = Row(c) /\ Config(c)' = Config(c) /\ Taken(c)' = Taken(c) /\ Accepted(c)'
  BY <1>1, <1>3, <1>4, SameContext
<1>9. Commits(c)'
  BY <1>1, <1>2, <1>3, <1>4, <1>5, <1>7, <1>8 DEF Commits
<1>10. ~Stopped'
  BY <1>8 DEF Accepted, Continuing
<1>11. InHand(c)'
  BY <1>1, <1>4, <1>8, <1>9, <1>10 DEF InHand, Busy
<1>12. ResultCurrent' /\ CheckpointCurrent'
  BY <1>7 DEF ResultCurrent, CheckpointCurrent
<1>13. \A d \in Clients : InHand(d)' /\ at'[d] # "log"
  BY <1>4, <1>11, IdleHoldsNothing
<1>. QED BY <1>3, <1>4, <1>6, <1>12, <1>13, SameState DEF IInv
-----------------------------------------------------------------------------
(* The log, a death, and what others do to the directory *)

LogEntries == [status : {"observing", "frozen", "unended", "torn"}, sequence : Nat, batch : BatchIds]

LEMMA LogGrows ==
  ASSUME IInv, NEW c \in Clients, at[c] = "log", NEW status \in {"unended", "torn", call[c].state.status},
         invocations' = Append(invocations, Entry(c, status)),
         observation' = observation, \A d \in Clients : at'[d] = "idle"
  PROVE  invocations' \in Seq(LogEntries) /\ LogFollowsState' /\ LogBehind'
<1>. DEFINE k == Len(invocations)
            last == Len(Runs) + (IF Stopped THEN 1 ELSE 0)
            entry == Entry(c, status)
<1>1. /\ Logs(c) /\ Row(c).id \in BatchIds /\ Len(Runs) \in Nat
  <2>1. Logs(c) /\ Busy(c)
    BY DEF IInv, InHand, Busy
  <2>. QED BY <2>1, LoadedState, LengthsOf DEF Batch, Journal!Batch
<1>2. observation.status \in {"observing", "frozen"} /\ status \in {"unended", "torn", observation.status}
  BY <1>1, LengthsOf DEF Logs, Observation
<1>3. /\ entry \in LogEntries /\ entry.sequence = last /\ entry.status = status
      /\ entry.batch = Row(c).id /\ last \in Nat
  <2>1. entry = [status |-> status, sequence |-> last, batch |-> Row(c).id]
    BY <1>1 DEF Entry, Logs, Runs, Stopped
  <2>2. last \in Nat /\ status \in {"observing", "frozen", "unended", "torn"}
    BY <1>1, <1>2
  <2>. HIDE DEF entry, last
  <2>. QED BY <1>1, <2>1, <2>2 DEF LogEntries
<1>4. /\ invocations \in Seq(LogEntries) /\ k \in Nat
      /\ \A n \in 1..k : invocations[n].sequence \in Nat
  <2>1. invocations \in Seq(LogEntries)
    BY DEF IInv, TypeOK, LogEntries
  <2>2. k \in Nat /\ \A n \in 1..k : invocations[n] \in LogEntries
    BY <2>1, LenProperties, ElementOfSeq
  <2>. QED BY <2>1, <2>2 DEF LogEntries
<1>5. /\ invocations' \in Seq(LogEntries) /\ Len(invocations') = k + 1
      /\ \A n \in 1..k : invocations'[n] = invocations[n]
      /\ invocations'[k + 1] = entry
      /\ DOMAIN invocations' = 1..(k + 1) /\ DOMAIN invocations = 1..k
  BY <1>3, <1>4, AppendProperties, LenProperties
<1>6. \A n \in 1..k :
        /\ invocations[n].sequence < last
        /\ invocations[n].status # "frozen"
        /\ invocations[n].status = "observing" =>
             /\ invocations[n].sequence <= Len(Runs) /\ invocations[n].sequence > 0
             /\ Tracked[invocations[n].sequence].id = invocations[n].batch
        /\ \A m \in 1..k : m < n => invocations[m].sequence < invocations[n].sequence
  BY <1>1, <1>5 DEF IInv, LogFollowsState, LogBehind, Logs, Runs, Tracked
<1>7. /\ status = "observing" => last = Len(Runs) /\ last > 0 /\ Tracked[last] = Row(c)
      /\ status = "frozen" => Stopped
  <2>1. CASE Stopped
    BY <1>2, <2>1 DEF Stopped
  <2>2. CASE ~Stopped
    <3>1. Runs # <<>> /\ Tracked[Len(Runs)] = Row(c)
      BY <1>1, <2>2 DEF Logs
    <3>2. Len(Runs) > 0
      BY <3>1, LengthsOf, EmptySeq
    <3>. QED BY <1>1, <1>2, <2>2, <3>1, <3>2 DEF Stopped
  <2>. QED BY <2>1, <2>2
<1>. HIDE DEF k, entry, last
<1>8. \A n \in 1..(k + 1) : n \in 1..k \/ n = k + 1
  BY <1>4
<1>9. Runs' = Runs /\ Tracked' = Tracked /\ Stopped' = Stopped
  BY DEF Runs, Tracked, Stopped
<1>10. ASSUME NEW n \in 1..(k + 1)
       PROVE  /\ invocations'[n].status = "observing" =>
                   /\ invocations'[n].sequence <= Len(Runs) /\ invocations'[n].sequence > 0
                   /\ Tracked[invocations'[n].sequence].id = invocations'[n].batch
              /\ invocations'[n].status = "frozen" => Stopped /\ n = k + 1
              /\ invocations'[n].sequence <= last
  <2>1. CASE n \in 1..k
    BY <1>3, <1>4, <1>5, <1>6, <2>1
  <2>2. CASE n = k + 1
    <3>1. invocations'[n] = entry
      BY <1>5, <2>2
    <3>. QED BY <1>1, <1>3, <1>7, <2>2, <3>1
  <2>. QED BY <1>8, <2>1, <2>2
<1>11. ASSUME NEW m \in 1..(k + 1), NEW n \in 1..(k + 1), m < n
       PROVE  invocations'[m].sequence < invocations'[n].sequence
  <2>1. m \in 1..k
    BY <1>4, <1>11
  <2>2. CASE n \in 1..k
    BY <1>5, <1>6, <1>11, <2>1, <2>2
  <2>3. CASE n = k + 1
    <3>1. invocations'[n] = entry /\ invocations'[m] = invocations[m]
      BY <1>5, <2>1, <2>3
    <3>. QED BY <1>3, <1>6, <2>1, <3>1
  <2>. QED BY <1>8, <2>2, <2>3
<1>12. LogFollowsState'
  <2>1. /\ observation.batches = Tracked /\ observation.runs = Runs
        /\ Stopped <=> observation.status = "frozen"
    BY DEF Tracked, Runs, Stopped
  <2>. QED BY <1>5, <1>10, <1>11, <2>1 DEF LogFollowsState
<1>13. LogBehind'
  <2>1. "idle" # "log"
    OBVIOUS
  <2>. QED BY <1>5, <1>9, <1>10, <2>1 DEF LogBehind, last
<1>. QED BY <1>5, <1>12, <1>13

(* Two entries on one line: neither is there any more. *)
LEMMA LogJoins ==
  ASSUME IInv, NEW c \in Clients, at[c] = "log", invocations # <<>>,
         invocations' = [invocations EXCEPT ![Len(invocations)].status = "torn"],
         observation' = observation, \A d \in Clients : at'[d] = "idle"
  PROVE  invocations' \in Seq(LogEntries) /\ LogFollowsState' /\ LogBehind'
<1>. DEFINE k == Len(invocations)
            torn == [invocations[k] EXCEPT !.status = "torn"]
<1>1. /\ invocations \in Seq(LogEntries) /\ k \in Nat \ {0} /\ DOMAIN invocations = 1..k
      /\ \A n \in 1..k : invocations[n] \in LogEntries
  <2>1. invocations \in Seq(LogEntries)
    BY DEF IInv, TypeOK, LogEntries
  <2>. QED BY <2>1, EmptySeq, LenProperties, ElementOfSeq
<1>2. invocations[k] \in LogEntries
  BY <1>1
<1>3. torn \in LogEntries /\ torn.status = "torn" /\ torn.sequence = invocations[k].sequence
  BY <1>2 DEF LogEntries
<1>. HIDE DEF torn
<1>4. invocations' = [invocations EXCEPT ![k] = torn]
  BY DEF torn
<1>5. /\ invocations' \in Seq(LogEntries) /\ DOMAIN invocations' = 1..k
      /\ \A n \in 1..k : invocations'[n] = IF n = k THEN torn ELSE invocations[n]
  BY <1>1, <1>3, <1>4, ExceptSeq
<1>. HIDE DEF k
<1>6. \A n \in 1..k :
        /\ invocations'[n].sequence = invocations[n].sequence
        /\ invocations'[n].status \in {"torn", invocations[n].status}
        /\ invocations'[n].status # "torn" => invocations'[n] = invocations[n]
  BY <1>3, <1>5
<1>7. \A d \in Clients : at'[d] # "log"
  OBVIOUS
<1>8. LogFollowsState'
  <2>1. LogFollowsState
    BY DEF IInv
  <2>2. \A n \in 1..k : invocations'[n].status = "observing" =>
          /\ invocations'[n].sequence <= Len(observation.runs)
          /\ observation.batches[invocations'[n].sequence].id = invocations'[n].batch
    BY <1>1, <1>6, <2>1 DEF LogFollowsState
  <2>3. \A n \in 1..k : invocations'[n].status # "frozen"
    <3>1. \A n \in 1..k : invocations[n].status # "frozen"
      BY <1>1 DEF IInv, LogBehind
    <3>. QED BY <1>6, <3>1
  <2>4. \A m, n \in 1..k : m < n => invocations'[m].sequence < invocations'[n].sequence
    BY <1>1, <1>6, <2>1 DEF LogFollowsState
  <2>. QED BY <1>5, <2>2, <2>3, <2>4 DEF LogFollowsState
<1>9. LogBehind'
  <2>1. LogBehind /\ Runs' = Runs /\ Stopped' = Stopped
    BY DEF IInv, Runs, Stopped
  <2>2. \A n \in 1..k :
          /\ invocations'[n].sequence <= Len(Runs) + (IF Stopped THEN 1 ELSE 0)
          /\ invocations'[n].status = "observing" => invocations'[n].sequence > 0
    BY <1>1, <1>6, <2>1 DEF LogBehind
  <2>. QED BY <1>5, <1>7, <2>1, <2>2 DEF LogBehind
<1>. QED BY <1>5, <1>8, <1>9

(* A line is written, wherever the log ended. *)
LEMMA LogWritten ==
  ASSUME IInv, NEW c \in Clients, at[c] = "log",
         NEW status \in {"unended", "torn", call[c].state.status},
         invocations' = Logged(Entry(c, status)),
         observation' = observation, \A d \in Clients : at'[d] = "idle"
  PROVE  invocations' \in Seq(LogEntries) /\ LogFollowsState' /\ LogBehind'
BY LogGrows, LogJoins DEF Logged

(* The call ends, having appended a line or not. *)
LEMMA CallEnds ==
  ASSUME IInv, NEW c \in Clients, Busy(c),
         UNCHANGED <<observation, batchFiles, runFiles, current, checkpoint>>,
         at' = [at EXCEPT ![c] = "idle"], call' = [call EXCEPT ![c] = NoCall], lock' \in BOOLEAN,
         \/ UNCHANGED invocations
         \/ /\ at[c] = "log"
            /\ \E status \in {"unended", "torn", call[c].state.status} :
                 invocations' = Logged(Entry(c, status))
  PROVE  IInv'
<1>1. at' \in [Clients -> Steps] /\ CallOK' /\ \A d \in Clients : at'[d] = "idle"
  BY ReleaseEffect DEF IInv
<1>2. CASE UNCHANGED invocations
  BY <1>1, <1>2, Quiet DEF IInv, TypeOK
<1>3. CASE /\ at[c] = "log"
           /\ \E status \in {"unended", "torn", call[c].state.status} :
                invocations' = Logged(Entry(c, status))
  <2>1. invocations' \in Seq(LogEntries) /\ LogFollowsState' /\ LogBehind'
    BY <1>1, <1>3, LogWritten
  <2>2. TypeOK'
    BY <1>1, <2>1 DEF IInv, TypeOK, LogEntries
  <2>3. Whole' /\ ResultCurrent' /\ CheckpointCurrent' /\ ResultsReplay'
    BY DEF IInv, Whole, ResultCurrent, CheckpointCurrent, ResultsReplay, Stopped, Ahead, Runs,
           Tracked, Replay, Events, LastResult
  <2>4. \A d \in Clients : InHand(d)'
    BY <1>1, IdleHoldsNothing
  <2>. QED BY <1>1, <2>1, <2>2, <2>3, <2>4 DEF IInv
<1>. QED BY <1>2, <1>3

LEMMA AppendInvocationStep ==
  ASSUME IInv, NEW c \in Clients, AppendInvocation(c)
  PROVE  IInv'
<1>1. /\ Busy(c) /\ at[c] = "log" /\ lock' = FALSE
      /\ at' = [at EXCEPT ![c] = "idle"] /\ call' = [call EXCEPT ![c] = NoCall]
      /\ UNCHANGED <<observation, batchFiles, runFiles, current, checkpoint>>
  BY DEF AppendInvocation, Release, Busy
<1>2. \/ invocations' = invocations
      \/ invocations' = Logged(Entry(c, call[c].state.status))
  BY DEF AppendInvocation
<1>. QED BY <1>1, <1>2, CallEnds

LEMMA CrashStep ==
  ASSUME IInv, NEW c \in Clients, Crash(c)
  PROVE  IInv'
<1>1. /\ Busy(c) /\ lock' \in BOOLEAN
      /\ at' = [at EXCEPT ![c] = "idle"] /\ call' = [call EXCEPT ![c] = NoCall]
      /\ UNCHANGED <<observation, batchFiles, runFiles, current, checkpoint>>
  BY DEF Crash, Busy, IInv, TypeOK
<1>2. \/ invocations' = invocations
      \/ /\ at[c] = "log"
         /\ \E left \in {"unended", "torn"} : invocations' = Logged(Entry(c, left))
  BY DEF Crash
<1>. QED BY <1>1, <1>2, CallEnds

LEMMA UnlockStep ==
  ASSUME IInv, Unlock
  PROVE  IInv'
BY Quiet DEF Unlock, IInv, TypeOK, CallOK, files

LEMMA HandKept ==
  ASSUME IInv, UNCHANGED <<observation, runFiles, current, checkpoint, invocations, at, call>>,
         NEW c \in Clients
  PROVE  InHand(c)'
<1>1. /\ Row(c)' = Row(c) /\ Config(c)' = Config(c)
      /\ Loaded(c)' = Loaded(c) /\ Taken(c)' = Taken(c)
      /\ Continuing(c) => Continuing(c)'
      /\ Accepted(c) => Accepted(c)'
  BY SameContext
<1>2. Ahead' = Ahead /\ Stopped' = Stopped
  BY DEF Ahead, Stopped, Runs
<1>3. Commits(c) => Commits(c)'
  BY <1>1, <1>2 DEF Commits
<1>4. Freezes(c) => Freezes(c)'
  BY <1>1 DEF Freezes, Frozen
<1>5. Logs(c) => Logs(c)'
  BY <1>1, <1>2 DEF Logs, Runs, Tracked
<1>6. InHand(c)
  BY DEF IInv
<1>. QED BY <1>1, <1>2, <1>3, <1>4, <1>5, <1>6 DEF InHand, Busy

LEMMA EditStep ==
  ASSUME IInv, NEW row \in Batch, Edit(row)
  PROVE  IInv'
<1>1. UNCHANGED <<lock, observation, runFiles, current, checkpoint, invocations, at, call>>
  BY DEF Edit
<1>2. DOMAIN batchFiles' \subseteq BatchIds /\ Range(batchFiles') \subseteq Contents \cup {{}}
  BY RewrittenBatch DEF Edit, IInv
<1>3. TypeOK'
  BY <1>1, <1>2 DEF IInv, TypeOK
<1>. QED BY <1>1, <1>3, HandKept, SameDisk DEF IInv, CallOK
-----------------------------------------------------------------------------
(* The state is replaced *)

(* What every replacement of the state keeps: results stay where they were, *)
(* batches are only added, and nothing was logged beyond the old state.     *)
LEMMA StateGrows ==
  ASSUME IInv, NEW c \in Clients, WriteState(c), call[c].state \in Observation,
         Row(c) \in Batch, Config(c) \in Configs, ~Stopped,
         Whole', ResultCurrent', CheckpointCurrent', ResultsReplay',
         observation'.status # "absent",
         DOMAIN runFiles \in {1..Len(observation'.runs), 1..Len(observation'.runs) + 1},
         Len(Runs) < Len(observation'.runs) + (IF observation'.status = "frozen" THEN 1 ELSE 0),
         observation'.status = "observing" =>
           /\ observation'.runs # <<>> /\ observation'.batches[Len(observation'.runs)] = Row(c),
         Len(observation'.runs) \in Nat, Len(Runs) <= Len(observation'.runs),
         \A n \in 1..Len(Tracked) : observation'.batches[n] = Tracked[n]
  PROVE  IInv'
<1>1. /\ UNCHANGED <<batchFiles, runFiles, current, checkpoint, invocations>>
      /\ observation' = call[c].state /\ Busy(c)
  BY DEF WriteState, Busy
<1>2. /\ at' \in [Clients -> Steps] /\ CallOK' /\ lock' = lock
      /\ at'[c] = "log" /\ call'[c].state = call[c].state
      /\ call'[c].row = call[c].row /\ call'[c].config = call[c].config
      /\ \A d \in Clients : d # c => at'[d] = "idle"
      /\ \A b, d \in Clients : at'[b] # "idle" /\ at'[d] # "idle" => lock' /\ b = d
  BY <1>1, GotoEffect DEF WriteState, IInv, Steps
<1>3. TypeOK'
  BY <1>1, <1>2 DEF IInv, TypeOK
<1>4. Row(c)' = Row(c) /\ Config(c)' = Config(c)
  BY <1>2 DEF Row, Config
<1>5. /\ Len(Runs) \in Nat /\ Len(Tracked) \in Nat /\ Len(Runs) <= Len(Tracked)
      /\ invocations \in Seq(LogEntries)
  BY LengthsOf DEF IInv, TypeOK, LogEntries
<1>6. \A n \in DOMAIN invocations : invocations[n].sequence \in Nat
  <2>1. \A n \in DOMAIN invocations : invocations[n] \in LogEntries
    BY <1>5, LenProperties, ElementOfSeq
  <2>. QED BY <2>1 DEF LogEntries
<1>7. \A n \in DOMAIN invocations :
        /\ invocations[n].sequence <= Len(Runs) /\ invocations[n].status # "frozen"
        /\ invocations[n].status = "observing" =>
             /\ invocations[n].sequence > 0
             /\ Tracked[invocations[n].sequence].id = invocations[n].batch
        /\ \A m \in DOMAIN invocations : m < n => invocations[m].sequence < invocations[n].sequence
  <2>1. \A n \in DOMAIN invocations : invocations[n].sequence <= Len(Runs)
    BY <1>5, <1>6 DEF IInv, LogBehind
  <2>. QED BY <2>1 DEF IInv, LogFollowsState, LogBehind, Stopped, Tracked
<1>8. Logs(c)'
  <2>. DEFINE last == Len(observation'.runs) + (IF observation'.status = "frozen" THEN 1 ELSE 0)
  <2>1. last \in Nat /\ Len(Runs) < last
    <3>1. CASE observation'.status = "frozen"
      BY <1>5, <3>1
    <3>2. CASE observation'.status # "frozen"
      BY <1>5, <3>2
    <3>. QED BY <3>1, <3>2
  <2>. HIDE DEF last
  <2>2. \A n \in DOMAIN invocations : invocations[n].sequence < last
    BY <1>5, <1>6, <1>7, <2>1
  <2>3. call[c].state = observation' /\ call'[c].state = call[c].state /\ Row(c)' = Row(c)
    BY <1>1, <1>2, <1>4
  <2>4. observation'.status = "observing" \/ observation'.status = "frozen"
    BY <1>1 DEF Observation
  <2>. QED BY <1>1, <2>2, <2>3, <2>4 DEF Logs, Runs, Stopped, Tracked, last
<1>9. \A d \in Clients : InHand(d)'
  <2>1. InHand(c)'
    BY <1>2, <1>4, <1>8 DEF InHand, Busy
  <2>. QED BY <1>2, <2>1, IdleHoldsNothing
<1>10. LogFollowsState'
  <2>1. \A n \in DOMAIN invocations : invocations[n].status = "observing" =>
          /\ invocations[n].sequence <= Len(observation'.runs)
          /\ observation'.batches[invocations[n].sequence].id = invocations[n].batch
    BY <1>5, <1>6, <1>7
  <2>. QED BY <1>1, <1>7, <2>1 DEF LogFollowsState
<1>11. LogBehind'
  <2>. DEFINE last == Len(observation'.runs) + (IF observation'.status = "frozen" THEN 1 ELSE 0)
  <2>1. last \in Nat /\ Len(Runs) <= last
    <3>1. CASE observation'.status = "frozen"
      BY <1>5, <3>1
    <3>2. CASE observation'.status # "frozen"
      BY <1>5, <3>2
    <3>. QED BY <3>1, <3>2
  <2>. HIDE DEF last
  <2>2. \A n \in DOMAIN invocations : invocations[n].sequence <= last
    BY <1>5, <1>6, <1>7, <2>1
  <2>. QED BY <1>1, <1>7, <2>2 DEF LogBehind, Runs, Stopped, last
<1>. QED BY <1>2, <1>3, <1>9, <1>10, <1>11 DEF IInv

(* Results that are left in place keep being the replays of their prefixes. *)
LEMMA PrefixesReplay ==
  ASSUME IInv, observation.config \notin Forgetful, NEW n \in 1..Len(Runs)
  PROVE  /\ Runs[n] = Replay(SubSeq(Tracked, 1, n))
         /\ \A row \in Batch : Runs[n] = Replay(SubSeq(Append(Tracked, row), 1, n))
<1>1. /\ Tracked \in Seq(Batch) /\ Len(Tracked) \in Nat /\ Len(Runs) \in Nat
      /\ DOMAIN Runs = 1..Len(Runs) /\ Len(Runs) <= Len(Tracked)
  BY LengthsOf, LenProperties
<1>2. Runs[n] = Replay(SubSeq(Tracked, 1, n))
  BY <1>1 DEF IInv, ResultsReplay, Runs, Tracked, Replay
<1>3. ASSUME NEW row \in Batch
      PROVE  SubSeq(Append(Tracked, row), 1, n) = SubSeq(Tracked, 1, n)
  <2>1. Append(Tracked, row) = Tracked \o <<row>> /\ <<row>> \in Seq(Batch)
    BY <1>1, AppendIsConcat
  <2>2. 1 \in 1..Len(Tracked) /\ n \in 1..Len(Tracked)
    BY <1>1
  <2>. QED BY <1>1, <2>1, <2>2, SubSeqOfConcat1
<1>. QED BY <1>2, <1>3

LEMMA CommitStep ==
  ASSUME IInv, NEW c \in Clients, WriteState(c), Commits(c)
  PROVE  IInv'
<1>. DEFINE row == Row(c)
            result == call[c].result
<1>1. /\ Busy(c) /\ Accepted(c) /\ Ahead /\ Continuing(c) /\ ~Stopped
      /\ row \in Batch /\ Config(c) \in Configs
      /\ result \in Results \ {<<>>}
      /\ observation' = call[c].state /\ current = result
      /\ UNCHANGED <<runFiles, current, checkpoint>>
  BY DEF WriteState, Busy, IInv, InHand, Commits, Accepted, Continuing
<1>2. /\ Tracked \in Seq(Batch) /\ Runs \in Seq(Results) /\ Len(Runs) \in Nat
      /\ Len(Tracked) = Len(Runs) /\ Taken(c) \in Observation
      /\ Taken(c).batches = Append(Tracked, row) /\ Taken(c).runs = Runs
      /\ Taken(c).status = "observing" /\ Taken(c).config = Config(c)
  BY <1>1, LoadedState, TakenState, LengthsOf DEF Continuing, Drifted
<1>. HIDE DEF row, result
<1>3. /\ Append(Tracked, row) \in Seq(Batch) /\ Len(Append(Tracked, row)) = Len(Runs) + 1
      /\ Append(Tracked, row)[Len(Runs) + 1] = row
      /\ \A n \in 1..Len(Runs) : Append(Tracked, row)[n] = Tracked[n]
  BY <1>1, <1>2, AppendProperties
<1>4. /\ Append(Runs, result) \in Seq(Results) /\ Len(Append(Runs, result)) = Len(Runs) + 1
      /\ Append(Runs, result)[Len(Runs) + 1] = result
      /\ \A n \in 1..Len(Runs) : Append(Runs, result)[n] = Runs[n]
      /\ Append(Runs, result) # <<>>
      /\ DOMAIN Append(Runs, result) = 1..(Len(Runs) + 1)
  BY <1>1, <1>2, AppendProperties, LenProperties
<1>5. call[c].state = [Taken(c) EXCEPT !.runs = Append(@, result)]
  BY DEF Commits, result
<1>6. /\ observation' \in Observation
      /\ observation'.status = "observing" /\ observation'.config = Config(c)
      /\ observation'.batches = Append(Tracked, row) /\ observation'.runs = Append(Runs, result)
  BY <1>1, <1>2, <1>4, <1>5 DEF Observation
<1>7. Config(c) \notin Forgetful => result = Replay(Append(Tracked, row))
  BY <1>1 DEF Accepted, row, result
<1>8. Whole'
  BY <1>1, <1>3, <1>4, <1>6 DEF Whole, Runs, Tracked, Stopped
<1>9. ResultCurrent' /\ CheckpointCurrent'
  <2>1. LastResult(Append(Runs, result)) = result
    BY <1>4 DEF LastResult, Journal!LastResult, Journal!Last
  <2>2. LastResult(Runs)' = result
    BY <1>6, <2>1 DEF Runs, LastResult
  <2>3. ResultCurrent'
    BY <1>1, <2>2 DEF ResultCurrent
  <2>4. observation'.config # NoConfig
    BY <1>1, <1>6, ObserverAssumption
  <2>5. Config(c) \in Checkpointed => checkpoint.acted = result
    BY DEF Commits, result
  <2>6. ASSUME Config(c) \in Checkpointed \ Forgetful
        PROVE  /\ checkpoint.does = Decided
               /\ checkpoint.acted = Replay(Append(Tracked, row))
               /\ \A e \in Events(Append(Tracked, row)) : e <= checkpoint.last
    <3>1. checkpoint.does = Decided /\ checkpoint.last = Last(result).event
      BY <2>6 DEF Commits, result
    <3>2. result = Acts(Events(Append(Tracked, row)), Decided)
      BY <1>7, <2>6 DEF Replay, Journal!Replay, Acts, Events
    <3>3. /\ Events(Append(Tracked, row)) \in SUBSET UNION Contents
          /\ IsFiniteSet(Events(Append(Tracked, row)))
      BY <1>3, EventsAre
    <3>4. \A e \in Events(Append(Tracked, row)) : e <= Last(result).event
      BY <3>2, <3>3, ActsOf, Deciding
    <3>. QED BY <1>7, <2>5, <2>6, <3>1, <3>4
  <2>7. CheckpointCurrent'
    BY <1>1, <1>6, <2>2, <2>4, <2>5, <2>6 DEF CheckpointCurrent, Tracked, Replay, Events
  <2>. QED BY <2>3, <2>7
<1>10. ResultsReplay'
  <2>1. SUFFICES ASSUME Config(c) \notin Forgetful, NEW n \in 1..(Len(Runs) + 1)
                 PROVE  Append(Runs, result)[n] = Replay(SubSeq(Append(Tracked, row), 1, n))
    BY <1>4, <1>6 DEF ResultsReplay, Replay
  <2>2. CASE n = Len(Runs) + 1
    <3>1. SubSeq(Append(Tracked, row), 1, n) = Append(Tracked, row)
      BY <1>3, <2>2, SubSeqFull
    <3>. QED BY <1>4, <1>7, <2>1, <2>2, <3>1
  <2>3. CASE n # Len(Runs) + 1
    <3>1. n \in 1..Len(Runs)
      BY <1>2, <2>3
    <3>2. observation.config \notin Forgetful
      <4>1. observation.status = "absent" => observation.config = NoConfig
        BY DEF IInv, Whole, NoObservation
      <4>2. observation.status # "absent" => observation.config = Config(c)
        BY <1>1 DEF Continuing, Drifted, Loaded
      <4>. QED BY <2>1, <4>1, <4>2, ObserverAssumption
    <3>. QED BY <1>1, <1>2, <1>4, <3>1, <3>2, PrefixesReplay
  <2>. QED BY <2>2, <2>3
<1>11. DOMAIN runFiles \in {1..Len(observation'.runs), 1..Len(observation'.runs) + 1}
  BY <1>1, <1>4, <1>6 DEF Ahead
<1>. QED BY <1>1, <1>2, <1>3, <1>4, <1>6, <1>8, <1>9, <1>10, <1>11, StateGrows DEF row, WriteState

LEMMA FreezeStep ==
  ASSUME IInv, NEW c \in Clients, WriteState(c), Freezes(c), ~Stopped
  PROVE  IInv'
<1>1. /\ Busy(c) /\ Row(c) \in Batch /\ Config(c) \in Configs
      /\ observation' = call[c].state
      /\ UNCHANGED <<runFiles, checkpoint>>
  BY DEF WriteState, Busy, IInv, InHand
<1>2. /\ Tracked \in Seq(Batch) /\ Runs \in Seq(Results) /\ Len(Runs) \in Nat
      /\ Len(Tracked) = Len(Runs)
      /\ Taken(c) \in Observation /\ Loaded(c) \in Observation
      /\ Taken(c).batches = Append(Tracked, Row(c)) /\ Taken(c).runs = Runs
      /\ Loaded(c).batches = Tracked /\ Loaded(c).runs = Runs
      /\ Taken(c).config = Loaded(c).config
  BY <1>1, LoadedState, TakenState, LengthsOf
<1>3. /\ Append(Tracked, Row(c)) \in Seq(Batch) /\ Len(Append(Tracked, Row(c))) = Len(Runs) + 1
      /\ \A n \in 1..Len(Runs) : Append(Tracked, Row(c))[n] = Tracked[n]
  BY <1>1, <1>2, AppendProperties
<1>4. /\ observation' \in Observation
      /\ observation'.status = "frozen" /\ observation'.config = Loaded(c).config
      /\ observation'.runs = Runs
      /\ observation'.batches = Tracked \/ observation'.batches = Append(Tracked, Row(c))
  BY <1>1, <1>2, FrozenState DEF Freezes
<1>5. /\ Len(Runs) <= Len(observation'.batches)
      /\ \A n \in 1..Len(Tracked) : observation'.batches[n] = Tracked[n]
  BY <1>2, <1>3, <1>4
<1>6. Whole' /\ ResultCurrent' /\ CheckpointCurrent'
  BY <1>4, <1>5 DEF Whole, ResultCurrent, CheckpointCurrent, Stopped, Runs, Tracked
<1>7. ResultsReplay'
  <2>1. SUFFICES ASSUME Loaded(c).config \notin Forgetful, NEW n \in 1..Len(Runs)
                 PROVE  Runs[n] = Replay(SubSeq(observation'.batches, 1, n))
    BY <1>2, <1>4, LenProperties DEF ResultsReplay, Replay
  <2>2. observation.config \notin Forgetful
    <3>1. observation.status = "absent" => observation.config = NoConfig
      BY DEF IInv, Whole, NoObservation
    <3>2. observation.status # "absent" => Loaded(c).config = observation.config
      BY DEF Loaded
    <3>. QED BY <2>1, <3>1, <3>2, ObserverAssumption
  <2>. QED BY <1>1, <1>2, <1>4, <2>2, PrefixesReplay
<1>8. DOMAIN runFiles \in {1..Len(observation'.runs), 1..Len(observation'.runs) + 1}
  BY <1>4 DEF IInv, TypeOK, Runs
<1>. QED BY <1>1, <1>2, <1>4, <1>5, <1>6, <1>7, <1>8, StateGrows DEF WriteState

LEMMA WriteStateStep ==
  ASSUME IInv, NEW c \in Clients, WriteState(c)
  PROVE  IInv'
<1>1. ~Stopped /\ (Commits(c) \/ Freezes(c))
  BY DEF WriteState, IInv, InHand
<1>. QED BY <1>1, CommitStep, FreezeStep
-----------------------------------------------------------------------------
(* The invariant *)

LEMMA InitInv == Init => IInv
<1>1. SUFFICES ASSUME Init PROVE IInv
  OBVIOUS
<1>2. <<>> \in Seq(Batch) /\ <<>> \in Seq(Results) /\ <<>> \in Results /\ Len(<<>>) = 0
  BY EmptySeq DEF Results, Journal!Results
<1>3. NoObservation \in Observation /\ NoObservation.batches = <<>> /\ NoObservation.runs = <<>>
  BY <1>2 DEF NoObservation, Observation
<1>4. TypeOK
  <2>1. DOMAIN <<>> = {} /\ 1..Len(<<>>) = {}
    BY <1>2
  <2>2. DOMAIN runFiles \in {1..Len(observation.runs), 1..Len(observation.runs) + 1}
    BY <1>1, <1>3, <2>1 DEF Init
  <2>3. Range(batchFiles) = {} /\ Range(runFiles) = {} /\ DOMAIN batchFiles = {}
    BY <1>1, <2>1 DEF Init, Range
  <2>4. checkpoint \in [last : Nat, acted : Results, does : {Decided} \cup Astray]
    BY <1>1, <1>2 DEF Init, NoCheckpoint
  <2>5. invocations \in Seq([status   : {"observing", "frozen", "unended", "torn"},
                             sequence : Nat, batch : BatchIds])
    BY <1>1, EmptySeq DEF Init
  <2>6. at \in [Clients -> Steps] /\ \A c \in Clients : at[c] = "idle"
    BY <1>1 DEF Init, Steps
  <2>. QED BY <1>1, <1>2, <1>3, <2>2, <2>3, <2>4, <2>5, <2>6 DEF Init, TypeOK
<1>5. CallOK
  BY <1>1, <1>2, <1>3 DEF Init, CallOK, NoCall
<1>6. Whole
  BY <1>1 DEF Init, Whole, NoObservation, Stopped
<1>7. ResultCurrent /\ CheckpointCurrent
  <2>1. Events(<<>>) = {}
    <3>1. Events(<<>>) = UNION {<<>>[n].events : n \in 1..Len(<<>>)}
      BY <1>2, EventsAre
    <3>2. 1..Len(<<>>) = {}
      BY <1>2
    <3>. QED BY <3>1, <3>2
  <2>2. Replay(<<>>) = Acts({}, Decided)
    BY <2>1 DEF Replay, Journal!Replay, Acts, Events
  <2>3. Acts({}, Decided) = <<>>
    <3>1. Acts({}, Decided) \in Results /\ DOMAIN Acts({}, Decided) = 1..0
      BY ActsOf, Deciding, FS_EmptySet
    <3>2. Len(Acts({}, Decided)) \in Nat /\ 1..Len(Acts({}, Decided)) = 1..0
      BY <3>1, LenProperties DEF Results, Journal!Results
    <3>3. Len(Acts({}, Decided)) = 0
      BY <3>2
    <3>. QED BY <3>1, <3>3, EmptySeq DEF Results, Journal!Results
  <2>4. LastResult(<<>>) = <<>>
    BY DEF LastResult, Journal!LastResult
  <2>. QED BY <1>1, <1>3, <2>1, <2>2, <2>3, <2>4
           DEF Init, ResultCurrent, CheckpointCurrent, NoCheckpoint, Tracked, Runs
<1>8. \A c \in Clients : InHand(c)
  BY <1>1 DEF Init, InHand, Busy
<1>9. ResultsReplay /\ LogFollowsState /\ LogBehind
  BY <1>1, <1>3 DEF Init, ResultsReplay, LogFollowsState, LogBehind
<1>. QED BY <1>4, <1>5, <1>6, <1>7, <1>8, <1>9 DEF IInv

LEMMA NextInv == IInv /\ [Next]_vars => IInv'
<1>1. SUFFICES ASSUME IInv, [Next]_vars PROVE IInv'
  OBVIOUS
<1>2. CASE UNCHANGED vars
  <2>1. UNCHANGED <<lock, observation, batchFiles, runFiles, current, checkpoint, invocations, at, call>>
    BY <1>2 DEF vars, files
  <2>2. TypeOK'
    BY <1>1, <2>1 DEF IInv, TypeOK
  <2>. QED BY <1>1, <2>1, <2>2, HandKept, SameDisk DEF IInv, CallOK
<1>3. ASSUME NEW c \in Clients, NEW row \in Batch, NEW config \in Configs, Acquire(c, row, config)
      PROVE  IInv'
  BY <1>1, <1>3, AcquireStep
<1>4. ASSUME NEW c \in Clients, Step(c) PROVE IInv'
  BY <1>1, <1>4, RefuseStep, FreezeOnEntryStep, CreateBatchStep, WriteBatchStep,
     FreezeOnEvaluationStep, AcceptStep, WriteRunStep, WriteCurrentStep, WriteCheckpointStep,
     WriteStateStep, AppendInvocationStep DEF Step
<1>5. ASSUME NEW c \in Clients, Crash(c) PROVE IInv'
  BY <1>1, <1>5, CrashStep
<1>6. CASE Unlock
  BY <1>1, <1>6, UnlockStep
<1>7. ASSUME NEW row \in Batch, Edit(row) PROVE IInv'
  BY <1>1, <1>7, EditStep
<1>. QED BY <1>1, <1>2, <1>3, <1>4, <1>5, <1>6, <1>7 DEF Next

(* The strengthened invariant of observe_strategy: types, one holder of     *)
(* LOCK, a checkpoint that is current unless results ran ahead of the       *)
(* state, and what a call holds at each of its steps.                       *)
THEOREM Invariant == Spec => []IInv
BY InitInv, NextInv, PTL DEF Spec

(* A faithful strategy's committed results are the clean replay of the      *)
(* batches tracked at that point, wherever processes died before.           *)
THEOREM ResultsAreReplays == Spec => []ResultsReplay
<1>1. IInv => ResultsReplay
  BY DEF IInv
<1>. QED BY <1>1, Invariant, PTL

(* The invocation log never runs ahead of the state, names each sequence    *)
(* number once and in order, and ends with the freeze.                      *)
THEOREM LogFollows == Spec => []LogFollowsState
<1>1. IInv => LogFollowsState
  BY DEF IInv
<1>. QED BY <1>1, Invariant, PTL
-----------------------------------------------------------------------------
(* The directory implements the journal: replacing the state is the only    *)
(* step of it that shows.                                                   *)

LEMMA InitJournal == Init => Journal!JournalInit
BY DEF Init, NoObservation, Journal!JournalInit

LEMMA CommitObserves ==
  ASSUME IInv, NEW c \in Clients, WriteState(c), Commits(c)
  PROVE  Journal!JournalNext
<1>. DEFINE row == Row(c)
            result == call[c].result
<1>1. /\ Busy(c) /\ Accepted(c) /\ Continuing(c) /\ ~Stopped
      /\ observation' = call[c].state /\ row \in Batch
  BY DEF WriteState, Busy, IInv, InHand, Commits, Accepted, Continuing
<1>2. /\ Tracked \in Seq(Batch) /\ Runs \in Seq(Results) /\ Taken(c) \in Observation
      /\ Taken(c).batches = Append(Tracked, row) /\ Taken(c).runs = Runs
      /\ Taken(c).status = "observing"
  BY <1>1, LoadedState, TakenState
<1>3. /\ result \in Results /\ IsPrefix(LastResult(Runs), result)
      /\ Journal!AuditDue(Len(Runs) + 1) => Totals(result) = Totals(Replay(Append(Tracked, row)))
  BY <1>1 DEF Accepted
<1>4. row.id \notin Ids(Tracked) /\ row.events \cap Events(Tracked) = {}
  BY <1>1 DEF Accepted, Continuing
<1>. HIDE DEF row, result
<1>5. call[c].state = [Taken(c) EXCEPT !.runs = Append(@, result)]
  BY DEF Commits, result
<1>6. /\ observation'.status = "observing"
      /\ observation'.batches = Append(Tracked, row) /\ observation'.runs = Append(Runs, result)
  BY <1>1, <1>2, <1>5 DEF Observation
<1>7. /\ Len(Append(Runs, result)) = Len(Runs) + 1
      /\ Last(Append(Runs, result)) = result
  BY <1>2, <1>3, AppendProperties DEF Last
<1>8. Journal!Observe(row)
  <2>1. (observation.status = "frozen") = FALSE /\ (observation'.status = "frozen") = FALSE
    BY <1>1, <1>6 DEF Stopped
  <2>2. /\ Journal!Last(observation'.runs) = result
        /\ Len(observation'.runs) = Len(observation.runs) + 1
    BY <1>6, <1>7 DEF Runs, Last, Journal!Last
  <2>. QED BY <1>3, <1>4, <1>6, <2>1, <2>2
           DEF Journal!Observe, Ids, Events, Replay, Tracked, Runs, Results,
               LastResult, Totals, IsPrefix, Journal!IsPrefix
<1>. QED BY <1>1, <1>8 DEF Journal!JournalNext, Batch

LEMMA FreezeFreezes ==
  ASSUME IInv, NEW c \in Clients, WriteState(c), Freezes(c), ~Stopped
  PROVE  Journal!JournalNext
<1>1. Busy(c) /\ observation' = call[c].state /\ Row(c) \in Batch
  BY DEF WriteState, Busy, IInv, InHand
<1>2. /\ Tracked \in Seq(Batch) /\ Taken(c) \in Observation /\ Loaded(c) \in Observation
      /\ Taken(c).batches = Tracked \o <<Row(c)>> /\ Taken(c).runs = Runs
      /\ Loaded(c).batches = Tracked /\ Loaded(c).runs = Runs
  BY <1>1, LoadedState, TakenState
<1>3. /\ observation'.status = "frozen" /\ observation'.runs = Runs
      /\ \/ observation'.batches = Tracked \o <<>>
         \/ Row(c).id \notin Ids(Tracked) /\ observation'.batches = Tracked \o <<Row(c)>>
  BY <1>1, <1>2, FrozenState, ConcatEmptySeq DEF Freezes, Continuing
<1>4. (observation.status = "frozen") = FALSE /\ (observation'.status = "frozen") = TRUE
  BY <1>3 DEF Stopped
<1>5. /\ Journal!Ids(<<>>) = {}
      /\ \A row \in Batch : Journal!Ids(<<row>>) = {row.id}
  BY DEF Journal!Ids
<1>6. CASE observation'.batches = Tracked \o <<>>
  <2>1. Journal!Freeze(<<>>)
    BY <1>3, <1>4, <1>5, <1>6 DEF Journal!Freeze, Tracked, Runs
  <2>. QED BY <2>1 DEF Journal!JournalNext
<1>7. CASE Row(c).id \notin Ids(Tracked) /\ observation'.batches = Tracked \o <<Row(c)>>
  <2>1. PICK row \in Batch : row = Row(c)
    BY <1>1
  <2>2. Journal!Freeze(<<row>>)
    BY <1>3, <1>4, <1>5, <1>7, <2>1 DEF Journal!Freeze, Tracked, Runs, Ids
  <2>. QED BY <2>2 DEF Journal!JournalNext, Batch
<1>. QED BY <1>3, <1>6, <1>7

LEMMA StepJournal ==
  ASSUME IInv, [Next]_vars
  PROVE  [Journal!JournalNext]_(Journal!journalVars)
<1>1. ASSUME observation' = observation PROVE UNCHANGED Journal!journalVars
  BY <1>1 DEF Journal!journalVars
<1>2. CASE UNCHANGED vars
  BY <1>1, <1>2 DEF vars, files
<1>3. ASSUME NEW c \in Clients, WriteState(c) PROVE Journal!JournalNext
  <2>1. ~Stopped /\ (Commits(c) \/ Freezes(c))
    BY <1>3 DEF WriteState, IInv, InHand
  <2>. QED BY <1>3, <2>1, CommitObserves, FreezeFreezes
<1>4. ASSUME NEW c \in Clients, Step(c), ~WriteState(c) PROVE observation' = observation
  BY <1>4 DEF Step, Refuse, FreezeOnEntry, CreateBatch, WriteBatch, FreezeOnEvaluation,
     RefuseSequence, Accept, WriteRun, WriteCurrent, WriteCheckpoint, AppendInvocation, files
<1>5. ASSUME NEW c \in Clients, NEW row \in Batch, NEW config \in Configs,
             Acquire(c, row, config)
      PROVE  observation' = observation
  BY <1>5 DEF Acquire, files
<1>6. CASE Unlock
  BY <1>1, <1>6 DEF Unlock, files
<1>7. ASSUME NEW row \in Batch, Edit(row) PROVE observation' = observation
  BY <1>7 DEF Edit
<1>8. ASSUME NEW c \in Clients, Crash(c) PROVE observation' = observation
  BY <1>8 DEF Crash
<1>. QED BY <1>1, <1>2, <1>3, <1>4, <1>5, <1>6, <1>7, <1>8 DEF Next

(* Whatever died, was retried or was edited, the observation is a journal:  *)
(* batches accepted one at a time and never rewritten, no event accepted    *)
(* twice, no result that takes back what an earlier one did, no step after  *)
(* a freeze, and every audited result with the totals of the clean replay   *)
(* of what is tracked.                                                      *)
THEOREM JournalImplemented == Spec => ImplementsJournal
<1>1. IInv /\ [Next]_vars => [Journal!JournalNext]_(Journal!journalVars)
  BY StepJournal
<1>. QED BY <1>1, InitJournal, Invariant, PTL DEF Spec, ImplementsJournal, Journal!JournalSpec
=============================================================================
