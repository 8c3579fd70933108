-------------------------- MODULE SimulationProofs --------------------------
(***************************************************************************)
(* What the event loop guarantees for every strategy, stream of events,    *)
(* cut into batches, policy and precision of the decimal context.          *)
(***************************************************************************)
EXTENDS Simulation, SequenceTheorems, FiniteSetTheorems, WellFoundedInduction, TLAPS

(* Every set of naturals that is not empty has a least element. *)
LEMMA LeastElement ==
  ASSUME NEW S \in SUBSET Nat, S # {}
  PROVE  \E x \in S : \A y \in S : x <= y
<1>1. PICK x \in S : \A y \in S : ~ (<<y, x>> \in OpToRel(<, Nat))
  BY NatLessThanWellFounded, WFMin, Zenon
<1>2. ASSUME NEW y \in S PROVE x <= y
  <2>1. <<y, x>> \in Nat \X Nat /\ <<y, x>>[1] = y /\ <<y, x>>[2] = x
    OBVIOUS
  <2>2. ~ (y < x)
    BY <1>1, <2>1, Zenon DEF OpToRel
  <2>. QED BY <2>2
<1>. QED BY <1>2

(* Induction up to n, the property given as the set of those that have it. *)
LEMMA UpTo ==
  ASSUME NEW n \in Nat, NEW S, 0 \in S, \A i \in 1..n : i - 1 \in S => i \in S
  PROVE  \A i \in 0..n : i \in S
<1>. DEFINE Bad == {i \in 0..n : i \notin S}
<1>1. ASSUME Bad # {} PROVE FALSE
  <2>1. Bad \in SUBSET Nat
    OBVIOUS
  <2>. HIDE DEF Bad
  <2>2. PICK i \in Bad : \A j \in Bad : i <= j
    BY <1>1, <2>1, LeastElement
  <2>. USE DEF Bad
  <2>3. i \in 1..n /\ i - 1 \in 0..n /\ ~ i <= i - 1
    BY <2>2
  <2>. QED BY <2>2, <2>3
<1>. QED BY <1>1
-----------------------------------------------------------------------------
(* Decimal arithmetic                                                       *)

(* A number has a tenth, which is smaller.                                  *)
LEMMA Tenth ==
  ASSUME NEW m \in Nat, m >= Precision
  PROVE  m \div 10 \in Nat /\ m \div 10 < m
BY AccountingAssumption

(* A table of grains up to n.                                               *)
Grains(g, n) ==
  g = [m \in 0..n |-> IF m < Precision THEN 1 ELSE 10 * g[m \div 10]]

LEMMA GrainsAt ==
  ASSUME NEW n \in Nat, NEW g, Grains(g, n), NEW m \in 0..n
  PROVE  g[m] = IF m < Precision THEN 1 ELSE 10 * g[m \div 10]
BY DEF Grains

(* Two tables agree where both are defined.                                 *)
LEMMA GrainsAgree ==
  ASSUME NEW k \in Nat, NEW n \in Nat, NEW g, NEW h, Grains(g, k), Grains(h, n),
         NEW m \in 0..k, m <= n
  PROVE  g[m] = h[m]
<1>. DEFINE Bad == {i \in 0..k : i <= n /\ g[i] # h[i]}
<1>1. ASSUME Bad # {} PROVE FALSE
  <2>1. Bad \in SUBSET Nat
    OBVIOUS
  <2>. HIDE DEF Bad
  <2>2. PICK i \in Bad : \A j \in Bad : i <= j
    BY <1>1, <2>1, LeastElement
  <2>. USE DEF Bad
  <2>3. i \in 0..k /\ i \in 0..n /\ g[i] # h[i]
    BY <2>2
  <2>4. /\ g[i] = IF i < Precision THEN 1 ELSE 10 * g[i \div 10]
        /\ h[i] = IF i < Precision THEN 1 ELSE 10 * h[i \div 10]
    BY <2>3, GrainsAt
  <2>5. i >= Precision
    BY <2>3, <2>4, AccountingAssumption
  <2>6. i \div 10 \in Nat /\ i \div 10 < i
    BY <2>3, <2>5, Tenth
  <2>7. i \div 10 \notin Bad
    BY <2>2, <2>3, <2>6
  <2>8. g[i \div 10] = h[i \div 10]
    BY <2>3, <2>6, <2>7
  <2>. QED BY <2>3, <2>4, <2>8
<1>. QED BY <1>1

(* There is a table up to every n.                                          *)
LEMMA GrainsExist ==
  ASSUME NEW n \in Nat
  PROVE  \E g : Grains(g, n)
<1>. DEFINE Good == {m \in 0..n : \E g : Grains(g, m)}
<1>1. 0 \in Good
  <2>. DEFINE g == [m \in 0..0 |-> 1]
  <2>1. Grains(g, 0)
    <3>1. \A m \in 0..0 : (IF m < Precision THEN 1 ELSE 10 * g[m \div 10]) = 1
      BY AccountingAssumption
    <3>. QED BY <3>1 DEF Grains
  <2>. QED BY <2>1
<1>2. ASSUME NEW i \in 1..n, i - 1 \in Good PROVE i \in Good
  <2>1. PICK g : Grains(g, i - 1)
    BY <1>2
  <2>. DEFINE h == [m \in 0..i |-> IF m < i THEN g[m]
                                   ELSE IF i < Precision THEN 1 ELSE 10 * g[i \div 10]]
  <2>2. ASSUME NEW m \in 0..i
        PROVE  h[m] = IF m < Precision THEN 1 ELSE 10 * h[m \div 10]
    <3>1. m >= Precision => m \div 10 \in 0..(i - 1) /\ m \div 10 < i /\ m \div 10 \in 0..i
      BY Tenth
    <3>2. m >= Precision => h[m \div 10] = g[m \div 10]
      BY <3>1
    <3>3. CASE m < i
      <4>1. m \in 0..(i - 1) /\ i - 1 \in Nat
        BY <3>3
      <4>2. g[m] = IF m < Precision THEN 1 ELSE 10 * g[m \div 10]
        BY <2>1, <4>1, GrainsAt
      <4>3. h[m] = g[m]
        BY <3>3
      <4>. HIDE DEF h
      <4>. QED BY <3>2, <4>2, <4>3, AccountingAssumption
    <3>4. CASE ~ m < i
      <4>1. m = i
        BY <3>4
      <4>2. h[m] = IF i < Precision THEN 1 ELSE 10 * g[i \div 10]
        BY <4>1
      <4>. HIDE DEF h
      <4>. QED BY <3>2, <4>1, <4>2, AccountingAssumption
    <3>. QED BY <3>3, <3>4
  <2>3. h = [m \in 0..i |-> h[m]]
    OBVIOUS
  <2>. HIDE DEF h
  <2>4. Grains(h, i)
    BY <2>2, <2>3 DEF Grains
  <2>. QED BY <2>4
<1>. HIDE DEF Good
<1>3. n \in Good
  BY <1>1, <1>2, UpTo
<1>. QED BY <1>3 DEF Good

(* The recursive definition of Grain defines a function.                    *)
LEMMA GrainIs ==
  ASSUME NEW m \in Nat
  PROVE  Grain[m] = IF m < Precision THEN 1 ELSE 10 * Grain[m \div 10]
<1>. DEFINE Table(n) == CHOOSE g : Grains(g, n)
            f == [n \in Nat |-> Table(n)[n]]
            P(g) == g = [n \in Nat |-> IF n < Precision THEN 1 ELSE 10 * g[n \div 10]]
<1>1. ASSUME NEW n \in Nat
      PROVE  f[n] = IF n < Precision THEN 1 ELSE 10 * f[n \div 10]
  <2>1. \A k \in Nat : Grains(Table(k), k)
    BY GrainsExist
  <2>. HIDE DEF Table
  <2>2. f[n] = IF n < Precision THEN 1 ELSE 10 * Table(n)[n \div 10]
    BY <2>1, GrainsAt
  <2>3. ASSUME n >= Precision PROVE f[n \div 10] = Table(n)[n \div 10]
    <3>1. n \div 10 \in Nat /\ n \div 10 < n
      BY <2>3, Tenth
    <3>2. Table(n \div 10)[n \div 10] = Table(n)[n \div 10]
      <4>. DEFINE k == n \div 10
      <4>1. k \in Nat /\ k \in 0..k /\ k <= n /\ Grains(Table(k), k) /\ Grains(Table(n), n)
        BY <2>1, <3>1
      <4>. HIDE DEF k
      <4>2. Table(k)[k] = Table(n)[k]
        BY <4>1, GrainsAgree
      <4>. QED BY <4>2 DEF k
    <3>. QED BY <3>1, <3>2
  <2>. QED BY <2>2, <2>3, AccountingAssumption
<1>2. f = [n \in Nat |-> f[n]]
  OBVIOUS
<1>. HIDE DEF f
<1>3. P(f)
  BY <1>1, <1>2
<1>4. Grain = CHOOSE g : P(g)
  BY DEF Grain
<1>. HIDE DEF P
<1>5. P(Grain)
  BY <1>3, <1>4
<1>. QED BY <1>5 DEF P

(* A number with no more digits than are kept.                              *)
Multiple(n) == \E k \in Nat : n = Grain[n] * k

(* A grain is positive, and a number cut to a multiple of its grain is not  *)
(* less than any smaller number of no more digits.                          *)
LEMMA GrainFacts ==
  ASSUME NEW n \in Nat
  PROVE  /\ Grain[n] \in Nat \ {0}
         /\ \A l \in 0..n : Multiple(l) => \E q \in Nat : Grain[n] * q <= n /\ Grain[n] * q >= l
<1>. DEFINE Fact(m) ==
              /\ Grain[m] \in Nat \ {0}
              /\ \A l \in 0..m : Multiple(l) =>
                   \E q \in Nat : Grain[m] * q <= m /\ Grain[m] * q >= l
            Bad == {m \in 0..n : ~ Fact(m)}
<1>1. ASSUME Bad # {} PROVE FALSE
  <2>1. Bad \in SUBSET Nat
    OBVIOUS
  <2>. HIDE DEF Bad
  <2>2. PICK m \in Bad : \A j \in Bad : m <= j
    BY <1>1, <2>1, LeastElement
  <2>3. m \in 0..n /\ ~ Fact(m)
    BY <2>2 DEF Bad
  <2>4. m >= Precision
    <3>1. SUFFICES ASSUME m < Precision PROVE FALSE
      BY <2>3, AccountingAssumption
    <3>2. Grain[m] = 1
      BY <2>3, <3>1, GrainIs
    <3>3. Grain[m] * m <= m /\ \A l \in 0..m : Grain[m] * m >= l
      BY <2>3, <3>2
    <3>4. Fact(m)
      BY <2>3, <3>2, <3>3
    <3>. QED BY <2>3, <3>4
  <2>. DEFINE t == m \div 10
              g == Grain[t]
  <2>5. t \in Nat /\ t < m /\ 10 * t <= m
    BY <2>3, <2>4, Tenth
  <2>6. Grain[m] = 10 * g
    BY <2>3, <2>4, GrainIs, AccountingAssumption
  <2>7. Fact(t)
    BY <2>2, <2>3, <2>5 DEF Bad
  <2>8. g \in Nat \ {0}
    BY <2>7
  <2>. HIDE DEF g
  <2>9. ASSUME NEW l \in 0..m, Multiple(l)
        PROVE  \E q \in Nat : Grain[m] * q <= m /\ Grain[m] * q >= l
    <3>1. \E s \in 0..t : Multiple(s) /\ l <= 10 * s
      <4>1. CASE l < Precision
        <5>1. PICK x \in Nat : Precision = 10 * x /\ x > 0
          BY AccountingAssumption
        <5>2. x <= t /\ l <= 10 * x /\ x < Precision
          BY <2>3, <2>4, <4>1, <5>1
        <5>3. Grain[x] = 1
          BY <5>2, GrainIs
        <5>4. Multiple(x)
          BY <5>3 DEF Multiple
        <5>. QED BY <2>5, <5>2, <5>4
      <4>2. CASE ~ l < Precision
        <5>. DEFINE s == l \div 10
        <5>1. l \in Nat /\ l >= Precision /\ s \in Nat /\ s <= t
          BY <2>3, <2>9, <4>2, AccountingAssumption
        <5>2. PICK k \in Nat : l = Grain[l] * k
          BY <2>9 DEF Multiple
        <5>3. Grain[l] = 10 * Grain[s]
          BY <5>1, GrainIs, AccountingAssumption
        <5>4. s < m
          <6>. HIDE DEF s, t
          <6>. QED BY <2>3, <2>5, <5>1
        <5>5. Grain[s] \in Nat
          <6>1. Fact(s)
            BY <2>2, <2>3, <5>1, <5>4 DEF Bad
          <6>. QED BY <6>1
        <5>. DEFINE x == Grain[s] * k
        <5>6. x \in Nat /\ l = 10 * x
          BY <5>2, <5>3, <5>5
        <5>7. s = x
          <6>. HIDE DEF x
          <6>. QED BY <5>6
        <5>8. Multiple(s)
          BY <5>7 DEF Multiple
        <5>9. l <= 10 * s
          <6>. HIDE DEF s, x
          <6>. QED BY <5>6, <5>7
        <5>. HIDE DEF s, x
        <5>. QED BY <2>5, <5>1, <5>8, <5>9
      <4>. QED BY <4>1, <4>2
    <3>2. PICK s \in 0..t : Multiple(s) /\ l <= 10 * s
      BY <3>1
    <3>3. PICK q \in Nat : g * q <= t /\ g * q >= s
      BY <2>7, <3>2 DEF g
    <3>. DEFINE x == g * q
    <3>4. x \in Nat /\ (10 * g) * q = 10 * x /\ x <= t /\ x >= s
      BY <2>8, <3>3
    <3>. HIDE DEF x, t
    <3>5. 10 * x <= m /\ 10 * x >= l
      BY <2>3, <2>5, <2>9, <3>2, <3>4
    <3>. QED BY <2>6, <3>4, <3>5
  <2>10. 10 * g \in Nat \ {0}
    BY <2>8
  <2>11. Fact(m)
    BY <2>6, <2>9, <2>10
  <2>. QED BY <2>3, <2>11
<1>. HIDE DEF Bad
<1>2. n \notin Bad
  BY <1>1
<1>. QED BY <1>2 DEF Bad

LEMMA HalfEvenType ==
  ASSUME NEW m \in Nat, NEW u \in Nat \ {0}
  PROVE  HalfEven(m, u) \in Nat /\ HalfEven(m, u) >= m \div u
<1>1. m \div u \in Nat
  OBVIOUS
<1>2. (IF \/ 2 * (m % u) > u
          \/ 2 * (m % u) = u /\ (m \div u) % 2 = 1 THEN 1 ELSE 0) \in {0, 1}
  OBVIOUS
<1>. QED BY <1>1, <1>2 DEF HalfEven

LEMMA MagnitudeType ==
  ASSUME NEW n \in Int
  PROVE  Magnitude(n) \in Nat /\ (n >= 0 => Magnitude(n) = n) /\ (n # 0 => Magnitude(n) > 0)
BY DEF Magnitude

(* A quotient is a number, of the sign of the dividend.                     *)
LEMMA QuotientType ==
  ASSUME NEW n \in Int, NEW d \in Nat \ {0}
  PROVE  Quotient(n, d) \in Int /\ (n >= 0 => Quotient(n, d) \in Nat)
<1>. DEFINE m == Magnitude(n)
            g == Grain[m \div d]
            h == HalfEven(m, g * d)
<1>1. m \in Nat /\ m \div d \in Nat
  BY MagnitudeType
<1>2. g \in Nat \ {0}
  BY <1>1, GrainFacts
<1>. HIDE DEF g, m
<1>3. g * d \in Nat \ {0}
  BY <1>2
<1>4. h \in Nat
  BY <1>1, <1>3, HalfEvenType
<1>. HIDE DEF h
<1>5. Quotient(n, d) = Sign(n) * g * h
  BY DEF Quotient, m, g, h
<1>6. g * h \in Nat
  BY <1>2, <1>4
<1>. QED BY <1>2, <1>4, <1>5, <1>6 DEF Sign

(* A number of too many digits is rounded to a multiple of its grain.       *)
LEMMA RoundedIs ==
  ASSUME NEW n \in Nat, n >= Precision
  PROVE  Rounded(n) = Grain[n] * HalfEven(n, Grain[n])
<1>. DEFINE g == Grain[n]
            h == HalfEven(n, g)
<1>1. Magnitude(n) = n /\ Sign(n) = 1 /\ n \div 1 = n
  BY MagnitudeType, AccountingAssumption DEF Sign
<1>2. g \in Nat \ {0}
  BY GrainFacts
<1>. HIDE DEF g
<1>3. g * 1 = g
  BY <1>2
<1>4. Rounded(n) = Quotient(n, 1)
  BY <1>1, AccountingAssumption DEF Rounded
<1>5. Quotient(n, 1) = 1 * g * h
  BY <1>1, <1>3 DEF Quotient, g
<1>6. h \in Nat
  BY <1>2, HalfEvenType
<1>. HIDE DEF h
<1>7. Rounded(n) = g * h
  BY <1>2, <1>4, <1>5, <1>6
<1>. QED BY <1>7 DEF g, h

(* Rounding keeps the sign, leaves what has few digits, and brings nothing  *)
(* below a number of no more digits than are kept.                          *)
LEMMA RoundedFacts ==
  ASSUME NEW n \in Int
  PROVE  /\ Rounded(n) \in Int
         /\ n >= 0 => Rounded(n) \in Nat
         /\ n \in 0..(Precision - 1) => Rounded(n) = n
         /\ \A l \in Nat : Multiple(l) /\ n >= l => Rounded(n) >= l
<1>1. Rounded(n) \in Int /\ (n >= 0 => Rounded(n) \in Nat)
  BY QuotientType DEF Rounded
<1>2. n \in 0..(Precision - 1) => Rounded(n) = n
  BY AccountingAssumption, MagnitudeType DEF Rounded
<1>3. ASSUME NEW l \in Nat, Multiple(l), n >= l PROVE Rounded(n) >= l
  <2>1. CASE n < Precision
    BY <1>2, <1>3, <2>1, AccountingAssumption
  <2>2. CASE ~ n < Precision
    <3>. DEFINE g == Grain[n]
                h == HalfEven(n, g)
    <3>1. n \in Nat /\ n >= Precision /\ l \in 0..n
      BY <1>3, <2>2, AccountingAssumption
    <3>2. g \in Nat \ {0}
      BY <3>1, GrainFacts
    <3>3. PICK q \in Nat : g * q <= n /\ g * q >= l
      BY <1>3, <3>1, GrainFacts
    <3>4. Rounded(n) = g * h
      BY <3>1, RoundedIs
    <3>. HIDE DEF g
    <3>5. h \in Nat /\ h >= n \div g
      BY <3>1, <3>2, HalfEvenType
    <3>. HIDE DEF h
    <3>6. q <= n \div g
      BY <3>1, <3>2, <3>3
    <3>7. q <= h /\ n \div g \in Nat
      BY <3>1, <3>2, <3>5, <3>6
    <3>8. g * q <= g * h
      BY <3>2, <3>5, <3>7
    <3>9. g * q \in Int /\ g * h \in Int
      BY <3>2, <3>5
    <3>. QED BY <3>3, <3>4, <3>8, <3>9
  <2>. QED BY <2>1, <2>2
<1>. QED BY <1>1, <1>2, <1>3

(* A difference that is less than a limit when it is rounded is less than   *)
(* it, if the limit is not changed by rounding.                             *)
LEMMA RoundedBelow ==
  ASSUME NEW a \in Int, NEW b \in Int, NEW limit \in Nat, Rounded(limit) = limit,
         (a -- b) < limit
  PROVE  a - b < limit
<1>1. Multiple(limit)
  <2>1. CASE limit < Precision
    BY <2>1, GrainIs DEF Multiple
  <2>2. CASE ~ limit < Precision
    <3>1. limit = Grain[limit] * HalfEven(limit, Grain[limit])
      BY <2>2, RoundedIs, AccountingAssumption
    <3>2. HalfEven(limit, Grain[limit]) \in Nat
      BY GrainFacts, HalfEvenType
    <3>. QED BY <3>1, <3>2 DEF Multiple
  <2>. QED BY <2>1, <2>2
<1>. DEFINE n == a - b
<1>2. n \in Int
  OBVIOUS
<1>3. Rounded(n) < limit
  BY DEF --
<1>. HIDE DEF n
<1>4. n >= limit => Rounded(n) >= limit
  BY <1>1, <1>2, RoundedFacts
<1>5. Rounded(n) \in Int
  BY <1>2, RoundedFacts
<1>6. n < limit
  BY <1>2, <1>3, <1>4, <1>5
<1>. QED BY <1>6 DEF n

(* Results of the decimal operators.                                        *)
LEMMA DecimalTypes ==
  ASSUME NEW a \in Int, NEW b \in Int
  PROVE  /\ a ++ b \in Int /\ a -- b \in Int /\ a \odot b \in Int /\ a \otimes b \in Int
         /\ a >= 0 /\ b >= 0 => a ++ b \in Nat /\ a \odot b \in Nat /\ a \otimes b \in Nat
<1>. DEFINE s == a + b
            t == a - b
            p == a * b
<1>1. s \in Int /\ t \in Int /\ p \in Int
      /\ (a >= 0 /\ b >= 0 => s >= 0 /\ p >= 0)
  OBVIOUS
<1>. HIDE DEF s, t, p
<1>2. /\ Rounded(s) \in Int /\ Rounded(t) \in Int /\ Rounded(p) \in Int /\ Quotient(p, One) \in Int
      /\ s >= 0 => Rounded(s) \in Nat
      /\ p >= 0 => Rounded(p) \in Nat /\ Quotient(p, One) \in Nat
  BY <1>1, RoundedFacts, QuotientType, AccountingAssumption
<1>. QED BY <1>1, <1>2 DEF s, t, p, ++, --, \odot, \otimes

LEMMA DecimalNaturals ==
  ASSUME NEW a \in Nat, NEW b \in Nat
  PROVE  a ++ b \in Nat /\ a \odot b \in Nat /\ a \otimes b \in Nat
<1>1. a \in Int /\ b \in Int /\ a >= 0 /\ b >= 0
  OBVIOUS
<1>. QED BY <1>1, DecimalTypes

LEMMA DecimalZeros ==
  /\ 0 ++ 0 = 0
  /\ \A n \in Int : 0 \odot n = 0 /\ n \odot 0 = 0
  /\ \A n \in Int : Rounded(n) = n => n ++ 0 = n /\ n -- 0 = n
<1>1. Rounded(0) = 0
  BY RoundedFacts, AccountingAssumption
<1>2. 0 + 0 = 0 /\ \A n \in Int : 0 * n = 0 /\ n * 0 = 0 /\ n + 0 = n /\ n - 0 = n
  OBVIOUS
<1>. QED BY <1>1, <1>2, AccountingAssumption DEF ++, --, \odot
-----------------------------------------------------------------------------
(* Totals over the instruments                                              *)

Pick(S) == CHOOSE i \in S : TRUE

(* A table of totals of the sets of at most n instruments.                  *)
Upon(n) == {S \in SUBSET Instruments : Cardinality(S) <= n}

Totals(t, value, D) ==
  t = [S \in D |-> IF S = {} THEN 0 ELSE value[Pick(S)] ++ t[S \ {Pick(S)}]]

LEMMA TotalsAt ==
  ASSUME NEW t, NEW value, NEW D, Totals(t, value, D), NEW S \in D
  PROVE  t[S] = IF S = {} THEN 0 ELSE value[Pick(S)] ++ t[S \ {Pick(S)}]
BY DEF Totals

LEMMA PickFacts ==
  ASSUME NEW S \in SUBSET Instruments
  PROVE  /\ Cardinality(S) \in Nat
         /\ S # {} => /\ Pick(S) \in S /\ S \ {Pick(S)} \in SUBSET Instruments
                      /\ Cardinality(S \ {Pick(S)}) = Cardinality(S) - 1
         /\ Cardinality(S) = 0 <=> S = {}
<1>1. IsFiniteSet(S)
  BY FS_Subset, AccountingAssumption
<1>2. Cardinality(S) \in Nat /\ (Cardinality(S) = 0 <=> S = {})
  BY <1>1, FS_CardinalityType, FS_EmptySet
<1>3. ASSUME S # {} PROVE Pick(S) \in S
  BY <1>3 DEF Pick
<1>4. ASSUME S # {} PROVE Cardinality(S \ {Pick(S)}) = Cardinality(S) - 1
  BY <1>1, <1>3, <1>4, FS_RemoveElement
<1>. QED BY <1>2, <1>3, <1>4

LEMMA TotalsExist ==
  ASSUME NEW value
  PROVE  \E t : Totals(t, value, SUBSET Instruments)
<1>. DEFINE N == Cardinality(Instruments)
            Good == {k \in 0..N : \E t : Totals(t, value, Upon(k))}
<1>1. N \in Nat
  BY AccountingAssumption, FS_CardinalityType
<1>. HIDE DEF N
<1>2. 0 \in Good
  <2>. DEFINE t == [S \in Upon(0) |-> 0]
  <2>1. ASSUME NEW S \in Upon(0) PROVE S = {}
    <3>1. S \in SUBSET Instruments /\ Cardinality(S) <= 0
      BY DEF Upon
    <3>2. Cardinality(S) \in Nat /\ (Cardinality(S) = 0 <=> S = {})
      BY <3>1, PickFacts
    <3>. QED BY <3>1, <3>2
  <2>2. Totals(t, value, Upon(0))
    BY <2>1 DEF Totals
  <2>. QED BY <1>1, <2>2
<1>3. ASSUME NEW k \in 1..N, k - 1 \in Good PROVE k \in Good
  <2>1. PICK t : Totals(t, value, Upon(k - 1))
    BY <1>3
  <2>. DEFINE u == [S \in Upon(k) |-> IF Cardinality(S) <= k - 1 THEN t[S]
                                      ELSE value[Pick(S)] ++ t[S \ {Pick(S)}]]
  <2>2. ASSUME NEW S \in Upon(k)
        PROVE  u[S] = IF S = {} THEN 0 ELSE value[Pick(S)] ++ u[S \ {Pick(S)}]
    <3>1. S \in SUBSET Instruments /\ Cardinality(S) \in Nat /\ Cardinality(S) <= k
          /\ (S = {} => Cardinality(S) <= k - 1)
      <4>1. S \in SUBSET Instruments /\ Cardinality(S) <= k
        BY DEF Upon
      <4>2. Cardinality(S) \in Nat /\ (Cardinality(S) = 0 <=> S = {})
        BY <4>1, PickFacts
      <4>. QED BY <1>1, <4>1, <4>2
    <3>2. ASSUME S # {} PROVE u[S \ {Pick(S)}] = t[S \ {Pick(S)}]
      <4>. DEFINE R == S \ {Pick(S)}
      <4>1. R \in SUBSET Instruments /\ Cardinality(R) <= k - 1 /\ Cardinality(R) <= k
        BY <1>1, <1>3, <3>1, <3>2, PickFacts
      <4>. HIDE DEF R
      <4>2. R \in Upon(k)
        BY <4>1 DEF Upon
      <4>3. u[R] = t[R]
        BY <4>1, <4>2
      <4>. QED BY <4>3 DEF R
    <3>3. CASE Cardinality(S) <= k - 1
      <4>1. S \in Upon(k - 1)
        BY <3>1, <3>3 DEF Upon
      <4>2. t[S] = IF S = {} THEN 0 ELSE value[Pick(S)] ++ t[S \ {Pick(S)}]
        BY <2>1, <4>1, TotalsAt
      <4>3. u[S] = t[S]
        BY <3>3
      <4>. HIDE DEF u
      <4>. QED BY <3>2, <4>2, <4>3
    <3>4. CASE ~ Cardinality(S) <= k - 1
      <4>1. u[S] = value[Pick(S)] ++ t[S \ {Pick(S)}]
        BY <3>4
      <4>. HIDE DEF u
      <4>. QED BY <3>1, <3>2, <3>4, <4>1
    <3>. QED BY <3>3, <3>4
  <2>3. u = [S \in Upon(k) |-> u[S]]
    OBVIOUS
  <2>. HIDE DEF u
  <2>4. Totals(u, value, Upon(k))
    BY <2>2, <2>3 DEF Totals
  <2>. QED BY <2>4
<1>. HIDE DEF Good
<1>4. N \in Good
  BY <1>1, <1>2, <1>3, UpTo
<1>5. Upon(N) = SUBSET Instruments
  <2>1. ASSUME NEW S \in SUBSET Instruments PROVE Cardinality(S) <= N
    BY <2>1, FS_Subset, AccountingAssumption DEF N
  <2>. QED BY <2>1 DEF Upon
<1>. QED BY <1>4, <1>5 DEF Good

(* The fold of the library is such a table, at all instruments.             *)
LEMMA TotalIs ==
  ASSUME NEW value
  PROVE  \E t : Totals(t, value, SUBSET Instruments) /\ Total(value) = t[Instruments]
<1>. DEFINE P(t) == t = [S \in SUBSET Instruments |->
                           IF S = {} THEN 0
                           ELSE value[CHOOSE i \in S : TRUE] ++ t[S \ {CHOOSE i \in S : TRUE}]]
<1>1. Total(value) = (CHOOSE t : P(t))[Instruments]
  BY DEF Total, MapThenFoldSet
<1>2. \A t : P(t) <=> Totals(t, value, SUBSET Instruments)
  BY DEF Totals, Pick
<1>. HIDE DEF P
<1>3. \E t : P(t)
  BY <1>2, TotalsExist
<1>4. P(CHOOSE t : P(t))
  BY <1>3
<1>. QED BY <1>1, <1>2, <1>4

(* A total is of every kind that holds 0 and the sums of its members.       *)
LEMMA TotalType ==
  ASSUME NEW T, 0 \in T, \A a, b \in T : a ++ b \in T,
         NEW value, \A i \in Instruments : value[i] \in T
  PROVE  Total(value) \in T
<1>1. PICK t : Totals(t, value, SUBSET Instruments) /\ Total(value) = t[Instruments]
  BY TotalIs
<1>. DEFINE N == Cardinality(Instruments)
            Good == {k \in 0..N : \A S \in SUBSET Instruments : Cardinality(S) <= k => t[S] \in T}
<1>2. N \in Nat
  BY AccountingAssumption, FS_CardinalityType
<1>. HIDE DEF N
<1>3. 0 \in Good
  <2>1. ASSUME NEW S \in SUBSET Instruments, Cardinality(S) <= 0 PROVE t[S] \in T
    <3>1. Cardinality(S) \in Nat /\ (Cardinality(S) = 0 <=> S = {})
      BY PickFacts
    <3>2. S = {}
      BY <2>1, <3>1
    <3>3. t[S] = 0
      BY <1>1, <3>2, TotalsAt
    <3>. QED BY <3>3
  <2>. QED BY <1>2, <2>1
<1>4. ASSUME NEW k \in 1..N, k - 1 \in Good PROVE k \in Good
  <2>1. ASSUME NEW S \in SUBSET Instruments, Cardinality(S) <= k PROVE t[S] \in T
    <3>1. CASE S = {}
      BY <1>1, <3>1, TotalsAt
    <3>2. CASE S # {}
      <4>1. S \ {Pick(S)} \in SUBSET Instruments /\ Cardinality(S \ {Pick(S)}) <= k - 1
            /\ Pick(S) \in Instruments
        BY <1>2, <2>1, <3>2, PickFacts
      <4>2. t[S \ {Pick(S)}] \in T
        BY <1>4, <4>1
      <4>3. t[S] = value[Pick(S)] ++ t[S \ {Pick(S)}]
        BY <1>1, <3>2, TotalsAt
      <4>4. value[Pick(S)] \in T
        BY <4>1
      <4>. QED BY <4>2, <4>3, <4>4
    <3>. QED BY <3>1, <3>2
  <2>. QED BY <2>1
<1>. HIDE DEF Good
<1>5. N \in Good
  BY <1>2, <1>3, <1>4, UpTo
<1>6. t[Instruments] \in T
  BY <1>2, <1>5 DEF Good, N
<1>. QED BY <1>1, <1>6

LEMMA TotalInt ==
  ASSUME NEW value, \A i \in Instruments : value[i] \in Int
  PROVE  Total(value) \in Int
<1>. DEFINE T == Int
<1>1. 0 \in T /\ (\A a, b \in T : a ++ b \in T) /\ \A i \in Instruments : value[i] \in T
  BY DecimalTypes
<1>. HIDE DEF T
<1>2. Total(value) \in T
  BY <1>1, TotalType
<1>. QED BY <1>2 DEF T

LEMMA TotalZero ==
  ASSUME NEW value, \A i \in Instruments : value[i] = 0
  PROVE  Total(value) = 0
<1>. DEFINE T == {0}
<1>1. 0 \in T /\ (\A a, b \in T : a ++ b \in T) /\ \A i \in Instruments : value[i] \in T
  BY DecimalZeros
<1>. HIDE DEF T
<1>2. Total(value) \in T
  BY <1>1, TotalType
<1>. QED BY <1>2 DEF T
-----------------------------------------------------------------------------
(* Portfolios                                                               *)

LEMMA ValueTypes ==
  ASSUME NEW p \in Portfolio, NEW i \in Instruments
  PROVE  /\ Accounted(p, i) \in Metadata
         /\ MarkOf(p, i) \in Nat
         /\ Unrealized(p, i) \in Int /\ Inventory(p, i) \in Int
         /\ p.quantity[i] = 0 => Unrealized(p, i) = 0 /\ Inventory(p, i) = 0
<1>1. /\ p.instruments[i] \in {<<>>} \cup Metadata
      /\ p.marks[i] \in Nat /\ p.average[i] \in Nat /\ p.quantity[i] \in Int
  BY DEF Portfolio
<1>2. Accounted(p, i) \in Metadata /\ Accounted(p, i).multiplier \in Int
  BY <1>1 DEF Accounted, DefaultMetadata, Metadata
<1>3. MarkOf(p, i) \in Nat
  BY <1>1 DEF MarkOf
<1>4. MarkOf(p, i) -- p.average[i] \in Int
  <2>1. MarkOf(p, i) \in Int /\ p.average[i] \in Int
    BY <1>1, <1>3
  <2>. QED BY <2>1, DecimalTypes
<1>. DEFINE gain == MarkOf(p, i) -- p.average[i]
            n == p.quantity[i]
            k == Accounted(p, i).multiplier
            m == MarkOf(p, i)
<1>5. Unrealized(p, i) \in Int
  <2>1. n \odot gain \in Int
    BY <1>1, <1>4, DecimalTypes
  <2>2. k \odot (n \odot gain) \in Int
    BY <1>2, <2>1, DecimalTypes
  <2>. QED BY <2>2 DEF Unrealized
<1>6. Inventory(p, i) \in Int
  <2>1. n \odot m \in Int
    BY <1>1, <1>3, DecimalTypes
  <2>2. k \odot (n \odot m) \in Int
    BY <1>2, <2>1, DecimalTypes
  <2>. QED BY <1>5, <2>2 DEF Inventory
<1>7. ASSUME p.quantity[i] = 0 PROVE Unrealized(p, i) = 0 /\ Inventory(p, i) = 0
  <2>1. Unrealized(p, i) = 0
    BY <1>2, <1>4, <1>7, DecimalZeros DEF Unrealized
  <2>2. p.quantity[i] \odot MarkOf(p, i) = 0
    BY <1>3, <1>7, DecimalZeros
  <2>. QED BY <1>2, <2>1, <2>2, DecimalZeros DEF Inventory
<1>. QED BY <1>2, <1>3, <1>5, <1>6, <1>7

LEMMA EquityType ==
  ASSUME NEW p \in Portfolio
  PROVE  Equity(p) \in Int
<1>. DEFINE value == [i \in Instruments |-> Inventory(p, i)]
<1>2. \A i \in Instruments : value[i] \in Int
  BY ValueTypes
<1>. HIDE DEF value
<1>3. Total(value) \in Int
  BY <1>2, TotalInt
<1>4. p.cash \in Int
  BY DEF Portfolio
<1>5. p.cash ++ Total(value) \in Int
  BY <1>3, <1>4, DecimalTypes
<1>. QED BY <1>5 DEF Equity, value

(* What equity depends on.                                                  *)
LEMMA SameEquity ==
  ASSUME NEW p, NEW q, q.cash = p.cash, \A i \in Instruments : Inventory(q, i) = Inventory(p, i)
  PROVE  Equity(q) = Equity(p)
<1>1. [i \in Instruments |-> Inventory(q, i)] = [i \in Instruments |-> Inventory(p, i)]
  OBVIOUS
<1>. QED BY <1>1 DEF Equity

LEMMA SameExpected ==
  ASSUME NEW p, NEW q, q.realized = p.realized, q.fees = p.fees, q.impact = p.impact,
         q.carry = p.carry, \A i \in Instruments : Unrealized(q, i) = Unrealized(p, i)
  PROVE  Expected(q) = Expected(p)
<1>1. [i \in Instruments |-> Unrealized(q, i)] = [i \in Instruments |-> Unrealized(p, i)]
  OBVIOUS
<1>. QED BY <1>1 DEF Expected

LEMMA SameValues ==
  ASSUME NEW p, NEW q, NEW i, q.quantity[i] = p.quantity[i], q.average[i] = p.average[i],
         q.instruments[i] = p.instruments[i], q.marks[i] = p.marks[i]
  PROVE  Unrealized(q, i) = Unrealized(p, i) /\ Inventory(q, i) = Inventory(p, i)
BY DEF Unrealized, Inventory, MarkOf, Accounted

(* The accounts balance, unless an assertion failed before.                 *)
Balanced(p) == p.conserved => Equity(p) = Expected(p)

(* What every change of a portfolio leaves: the day and what it began with, *)
(* and a failure; and the balance, unless an instrument was redefined.      *)
Leaves(p, q) ==
  /\ q \in Portfolio
  /\ q.dayStart = p.dayStart /\ q.day = p.day
  /\ q.conserved => p.conserved

Keeps(p, q) == Leaves(p, q) /\ (Balanced(p) => Balanced(q))

LEMMA KeepsTransitive ==
  ASSUME NEW p, NEW q, NEW r, Keeps(p, q), Keeps(q, r)
  PROVE  Keeps(p, r)
BY DEF Keeps, Leaves

(* An assertion changes no account, and after it they balance.              *)
LEMMA AssertedFacts ==
  ASSUME NEW p \in Portfolio
  PROVE  /\ Asserted(p) \in Portfolio
         /\ Asserted(p).dayStart = p.dayStart /\ Asserted(p).day = p.day
         /\ Asserted(p).conserved <=> p.conserved /\ Equity(p) = Expected(p)
         /\ Balanced(Asserted(p))
         /\ Equity(Asserted(p)) = Equity(p)
<1>. DEFINE q == Asserted(p)
<1>1. (Equity(p) = Expected(p)) \in BOOLEAN
  OBVIOUS
<1>2. /\ q \in Portfolio
      /\ q.dayStart = p.dayStart /\ q.day = p.day /\ q.cash = p.cash
      /\ q.realized = p.realized /\ q.fees = p.fees /\ q.impact = p.impact /\ q.carry = p.carry
      /\ q.quantity = p.quantity /\ q.average = p.average
      /\ q.instruments = p.instruments /\ q.marks = p.marks
      /\ q.conserved = (p.conserved /\ Equity(p) = Expected(p))
  BY <1>1 DEF Asserted, Portfolio
<1>. HIDE DEF q
<1>3. \A i \in Instruments : Unrealized(q, i) = Unrealized(p, i) /\ Inventory(q, i) = Inventory(p, i)
  BY <1>2, SameValues
<1>4. Equity(q) = Equity(p) /\ Expected(q) = Expected(p)
  BY <1>2, <1>3, SameEquity, SameExpected
<1>. QED BY <1>2, <1>4 DEF Balanced, q

(* So does whatever changes accounts and asserts.                           *)
LEMMA AssertedKeeps ==
  ASSUME NEW p, NEW q \in Portfolio, q.dayStart = p.dayStart, q.day = p.day,
         q.conserved = p.conserved
  PROVE  Keeps(p, Asserted(q))
BY AssertedFacts DEF Keeps, Leaves

LEMMA NewPortfolioFacts == NewPortfolio \in Portfolio /\ Balanced(NewPortfolio)
<1>. DEFINE p == NewPortfolio
<1>1. p \in Portfolio
  BY CashAssumption DEF NewPortfolio, Portfolio
<1>2. /\ p.cash = InitialCash /\ p.realized = 0 /\ p.fees = 0 /\ p.impact = 0
      /\ p.carry["funding"] = 0 /\ p.carry["borrow"] = 0 /\ p.carry["roll"] = 0
      /\ \A i \in Instruments : p.quantity[i] = 0
  BY DEF NewPortfolio, Components
<1>. HIDE DEF p
<1>. DEFINE inventories == [i \in Instruments |-> Inventory(p, i)]
            gains == [i \in Instruments |-> Unrealized(p, i)]
<1>3. \A i \in Instruments : inventories[i] = 0 /\ gains[i] = 0
  BY <1>1, <1>2, ValueTypes
<1>. HIDE DEF inventories, gains
<1>4. Total(inventories) = 0 /\ Total(gains) = 0
  BY <1>3, TotalZero
<1>5. InitialCash \in Int /\ Rounded(InitialCash) = InitialCash
  BY CashAssumption
<1>6. InitialCash ++ 0 = InitialCash /\ InitialCash -- 0 = InitialCash
  BY <1>5, DecimalZeros
<1>7. Equity(p) = InitialCash
  BY <1>2, <1>4, <1>6 DEF Equity, inventories
<1>8. Expected(p) = InitialCash
  BY <1>2, <1>4, <1>6 DEF Expected, gains
<1>. QED BY <1>1, <1>7, <1>8 DEF Balanced, p

(* The average price of what is held after a fill is a price.               *)
LEMMA AverageType ==
  ASSUME NEW old \in Int, NEW average \in Nat, NEW delta \in Int, delta # 0, NEW price \in Nat
  PROVE  AverageAfter(old, average, delta, price) \in Nat
<1>1. Magnitude(old) \in Nat /\ Magnitude(delta) \in Nat \ {0}
  BY MagnitudeType
<1>. DEFINE held == Magnitude(old) \odot average
            bought == Magnitude(delta) \odot price
            n == Magnitude(old) + Magnitude(delta)
<1>2. held \in Nat /\ bought \in Nat /\ n \in Nat \ {0}
  <2>1. held \in Nat
    BY <1>1, DecimalNaturals
  <2>2. Magnitude(delta) \in Nat
    BY <1>1
  <2>3. bought \in Nat
    BY <2>2, DecimalNaturals
  <2>4. n \in Nat \ {0}
    BY <1>1
  <2>. QED BY <2>1, <2>3, <2>4
<1>. HIDE DEF held, bought, n
<1>3. held ++ bought \in Nat
  BY <1>2, DecimalNaturals
<1>4. Quotient(held ++ bought, n) \in Nat
  BY <1>2, <1>3, QuotientType
<1>. QED BY <1>4 DEF AverageAfter, held, bought, n

LEMMA RealizedType ==
  ASSUME NEW p \in Portfolio, NEW i \in Instruments, NEW delta \in Int, NEW price \in Nat
  PROVE  RealizedBy(p, i, delta, price) \in Int
<1>1. Accounted(p, i).multiplier \in Int /\ p.quantity[i] \in Int /\ p.average[i] \in Int
  <2>1. Accounted(p, i).multiplier \in Int
    BY ValueTypes DEF Metadata
  <2>. QED BY <2>1 DEF Portfolio
<1>. DEFINE a == Magnitude(p.quantity[i])
            b == Magnitude(delta)
            m == Min({a, b})
            g == price -- p.average[i]
<1>2. a \in Nat /\ b \in Nat
  BY <1>1, MagnitudeType
<1>. HIDE DEF a, b
<1>3. m \in Int
  <2>1. \E x \in {a, b} : \A y \in {a, b} : x <= y
    BY <1>2
  <2>. QED BY <1>2, <2>1 DEF Min
<1>. HIDE DEF m
<1>4. Sign(p.quantity[i]) * m \in Int
  BY <1>1, <1>3 DEF Sign
<1>5. g \in Int
  <2>1. price \in Int
    OBVIOUS
  <2>. QED BY <1>1, <2>1, DecimalTypes
<1>. HIDE DEF g
<1>. DEFINE n == Sign(p.quantity[i]) * m
<1>6. n \odot g \in Int
  BY <1>4, <1>5, DecimalTypes
<1>7. Accounted(p, i).multiplier \odot (n \odot g) \in Int
  BY <1>1, <1>6, DecimalTypes
<1>. QED BY <1>7 DEF RealizedBy, a, b, m, g

LEMMA ApplyFillFacts ==
  ASSUME NEW p \in Portfolio, NEW i \in Instruments, NEW delta \in Int, delta # 0,
         NEW price \in Nat, NEW fee \in Nat, NEW impact \in Nat
  PROVE  Keeps(p, ApplyFill(p, i, delta, price, fee, impact))
<1>. DEFINE k == Accounted(p, i).multiplier
            realized == RealizedBy(p, i, delta, price)
            paid == ((k \odot (delta \odot price)) ++ fee) ++ impact
            cash == IF Accounted(p, i).type = "future"
                    THEN p.cash ++ ((realized -- fee) -- impact)
                    ELSE p.cash -- paid
            q == [p EXCEPT
                   !.cash = cash, !.realized = @ ++ realized,
                   !.average[i] = AverageAfter(p.quantity[i], @, delta, price),
                   !.quantity[i] = @ + delta,
                   !.fees = @ ++ fee, !.impact = @ ++ impact, !.marks[i] = price]
<1>1. /\ p.cash \in Int /\ p.realized \in Int /\ p.fees \in Nat /\ p.impact \in Nat
      /\ p.quantity[i] \in Int /\ p.average[i] \in Nat
  BY DEF Portfolio
<1>2. k \in Int
  BY ValueTypes DEF Metadata
<1>3. realized \in Int
  BY RealizedType
<1>. HIDE DEF k, realized
<1>4. paid \in Int
  <2>1. delta \odot price \in Int
    BY DecimalTypes
  <2>2. k \odot (delta \odot price) \in Int
    BY <1>2, <2>1, DecimalTypes
  <2>3. (k \odot (delta \odot price)) ++ fee \in Int
    BY <2>2, DecimalTypes
  <2>. QED BY <2>3, DecimalTypes
<1>. HIDE DEF paid
<1>5. cash \in Int
  <2>1. realized -- fee \in Int
    BY <1>3, DecimalTypes
  <2>2. (realized -- fee) -- impact \in Int
    BY <2>1, DecimalTypes
  <2>3. p.cash ++ ((realized -- fee) -- impact) \in Int
    BY <1>1, <2>2, DecimalTypes
  <2>4. p.cash -- paid \in Int
    BY <1>1, <1>4, DecimalTypes
  <2>. QED BY <2>3, <2>4
<1>. HIDE DEF cash
<1>6. /\ p.realized ++ realized \in Int /\ p.fees ++ fee \in Nat /\ p.impact ++ impact \in Nat
      /\ p.quantity[i] + delta \in Int
  <2>1. p.realized ++ realized \in Int
    BY <1>1, <1>3, DecimalTypes
  <2>2. p.fees ++ fee \in Nat
    BY <1>1, DecimalNaturals
  <2>3. p.impact ++ impact \in Nat
    BY <1>1, DecimalNaturals
  <2>. QED BY <1>1, <2>1, <2>2, <2>3
<1>7. AverageAfter(p.quantity[i], p.average[i], delta, price) \in Nat
  BY <1>1, AverageType
<1>8. /\ q \in Portfolio /\ q.dayStart = p.dayStart /\ q.day = p.day /\ q.conserved = p.conserved
  BY <1>5, <1>6, <1>7 DEF Portfolio
<1>9. ApplyFill(p, i, delta, price, fee, impact) = Asserted(q)
  BY DEF ApplyFill, q, cash, paid, realized, k
<1>. HIDE DEF q
<1>. QED BY <1>8, <1>9, AssertedKeeps

LEMMA CarryFacts ==
  ASSUME NEW p \in Portfolio, NEW component \in Components, NEW amount \in Int
  PROVE  Keeps(p, ApplyCarryCost(p, component, amount))
<1>. DEFINE q == [p EXCEPT !.carry[component] = @ ++ amount, !.cash = @ -- amount]
<1>1. p.carry[component] \in Int /\ p.cash \in Int
  BY DEF Portfolio
<1>2. p.carry[component] ++ amount \in Int /\ p.cash -- amount \in Int
  BY <1>1, DecimalTypes
<1>3. q \in Portfolio /\ q.dayStart = p.dayStart /\ q.day = p.day /\ q.conserved = p.conserved
  BY <1>2 DEF Portfolio
<1>4. ApplyCarryCost(p, component, amount) = Asserted(q)
  BY DEF ApplyCarryCost
<1>. HIDE DEF q
<1>. QED BY <1>3, <1>4, AssertedKeeps

LEMMA MarkFacts ==
  ASSUME NEW p \in Portfolio, NEW i \in Instruments, NEW price \in Nat
  PROVE  Keeps(p, Mark(p, i, price))
<1>. DEFINE q == [p EXCEPT !.marks[i] = price]
<1>1. q \in Portfolio /\ q.dayStart = p.dayStart /\ q.day = p.day /\ q.conserved = p.conserved
  BY DEF Portfolio
<1>2. Mark(p, i, price) = Asserted(q)
  BY DEF Mark
<1>. HIDE DEF q
<1>. QED BY <1>1, <1>2, AssertedKeeps

Closed(p, i, cash, realized) ==
  [p EXCEPT !.cash = cash, !.realized = realized, !.quantity[i] = 0, !.average[i] = 0]

LEMMA ClosedType ==
  ASSUME NEW p \in Portfolio, NEW i \in Instruments, NEW cash \in Int, NEW realized \in Int
  PROVE  /\ Closed(p, i, cash, realized) \in Portfolio
         /\ Closed(p, i, cash, realized).dayStart = p.dayStart
         /\ Closed(p, i, cash, realized).day = p.day
         /\ Closed(p, i, cash, realized).conserved = p.conserved
<1>. DEFINE q == Closed(p, i, cash, realized)
            quantity == [p.quantity EXCEPT ![i] = 0]
            average == [p.average EXCEPT ![i] = 0]
<1>1. p.quantity \in [Instruments -> Int] /\ p.average \in [Instruments -> Nat]
  BY DEF Portfolio
<1>2. quantity \in [Instruments -> Int] /\ average \in [Instruments -> Nat]
  BY <1>1
<1>3. q = [p EXCEPT !.cash = cash, !.realized = realized,
                    !.quantity = quantity, !.average = average]
  BY DEF Closed
<1>. HIDE DEF quantity, average, q
<1>4. q \in Portfolio /\ q.dayStart = p.dayStart /\ q.day = p.day /\ q.conserved = p.conserved
  BY <1>2, <1>3 DEF Portfolio
<1>. QED BY <1>4 DEF q

(* Settling what is not held only marks it, and its mark is worth nothing.  *)
LEMMA SettleFacts ==
  ASSUME NEW p \in Portfolio, NEW i \in Instruments, NEW price \in Nat
  PROVE  Keeps(p, SettlePosition(p, i, price))
<1>. DEFINE n == p.quantity[i]
            k == Accounted(p, i).multiplier
            realized == k \odot (n \odot (price -- p.average[i]))
            paid == IF Accounted(p, i).type = "future" THEN realized
                    ELSE k \odot (n \odot price)
            marked == [p EXCEPT !.marks[i] = price]
            q == [marked EXCEPT !.cash = @ ++ paid, !.realized = @ ++ realized,
                                !.quantity[i] = 0, !.average[i] = 0]
<1>1. /\ p.cash \in Int /\ p.realized \in Int /\ n \in Int /\ p.average[i] \in Int
      /\ price \in Int
  BY DEF Portfolio
<1>2. k \in Int
  BY ValueTypes DEF Metadata
<1>3. /\ marked \in Portfolio /\ marked.dayStart = p.dayStart /\ marked.day = p.day
      /\ marked.conserved = p.conserved /\ marked.cash = p.cash /\ marked.realized = p.realized
      /\ marked.fees = p.fees /\ marked.impact = p.impact /\ marked.carry = p.carry
      /\ marked.quantity = p.quantity /\ marked.average = p.average
      /\ marked.instruments = p.instruments
      /\ \A j \in Instruments : j # i => marked.marks[j] = p.marks[j]
  BY DEF Portfolio
<1>. HIDE DEF marked, n, k
<1>4. realized \in Int /\ paid \in Int
  <2>1. price -- p.average[i] \in Int
    BY <1>1, DecimalTypes
  <2>2. n \odot (price -- p.average[i]) \in Int
    BY <1>1, <2>1, DecimalTypes
  <2>3. realized \in Int
    BY <1>2, <2>2, DecimalTypes
  <2>4. n \odot price \in Int
    BY <1>1, DecimalTypes
  <2>5. k \odot (n \odot price) \in Int
    BY <1>2, <2>4, DecimalTypes
  <2>. QED BY <2>3, <2>5
<1>. HIDE DEF realized, paid
<1>5. CASE n = 0
  <2>1. SettlePosition(p, i, price) = marked
    BY <1>5 DEF SettlePosition, n, marked
  <2>2. ASSUME NEW j \in Instruments
        PROVE  Unrealized(marked, j) = Unrealized(p, j) /\ Inventory(marked, j) = Inventory(p, j)
    <3>1. CASE j = i
      <4>1. p.quantity[j] = 0 /\ marked.quantity[j] = 0
        BY <1>3, <1>5, <3>1 DEF n
      <4>. QED BY <1>3, <4>1, ValueTypes
    <3>2. CASE j # i
      BY <1>3, <3>2, SameValues
    <3>. QED BY <3>1, <3>2
  <2>3. Equity(marked) = Equity(p) /\ Expected(marked) = Expected(p)
    BY <1>3, <2>2, SameEquity, SameExpected
  <2>. QED BY <1>3, <2>1, <2>3 DEF Keeps, Leaves, Balanced
<1>6. CASE n # 0
  <2>1. marked.cash ++ paid \in Int /\ marked.realized ++ realized \in Int
    <3>1. p.cash ++ paid \in Int
      BY <1>1, <1>4, DecimalTypes
    <3>2. p.realized ++ realized \in Int
      BY <1>1, <1>4, DecimalTypes
    <3>. QED BY <1>3, <3>1, <3>2
  <2>2. /\ q \in Portfolio /\ q.dayStart = marked.dayStart /\ q.day = marked.day
        /\ q.conserved = marked.conserved
    <3>. DEFINE c == marked.cash ++ paid
                r == marked.realized ++ realized
    <3>1. marked \in Portfolio /\ c \in Int /\ r \in Int
      BY <1>3, <2>1
    <3>2. q = Closed(marked, i, c, r)
      BY DEF Closed
    <3>. HIDE DEF q, c, r
    <3>. QED BY <3>1, <3>2, ClosedType
  <2>3. SettlePosition(p, i, price) = Asserted(q)
    BY <1>3, <1>6 DEF SettlePosition, n, k, realized, paid, marked
  <2>. HIDE DEF q
  <2>. QED BY <1>3, <2>2, <2>3, AssertedKeeps
<1>. QED BY <1>5, <1>6

(* Registering an instrument again changes nothing, and where nothing is    *)
(* held what it is does not matter.                                         *)
LEMMA RegisterFacts ==
  ASSUME NEW p \in Portfolio, NEW i \in Instruments, NEW metadata \in Metadata
  PROVE  /\ Leaves(p, RegisterInstrument(p, i, metadata))
         /\ p.quantity[i] = 0 \/ metadata = Accounted(p, i)
              => Keeps(p, RegisterInstrument(p, i, metadata))
<1>. DEFINE q == RegisterInstrument(p, i, metadata)
<1>1. /\ q \in Portfolio /\ q.dayStart = p.dayStart /\ q.day = p.day
      /\ q.conserved = p.conserved /\ q.cash = p.cash /\ q.realized = p.realized
      /\ q.fees = p.fees /\ q.impact = p.impact /\ q.carry = p.carry
      /\ q.quantity = p.quantity /\ q.average = p.average /\ q.marks = p.marks
      /\ q.instruments[i] = metadata
      /\ \A j \in Instruments : j # i => q.instruments[j] = p.instruments[j]
  BY DEF RegisterInstrument, Portfolio
<1>. HIDE DEF q
<1>2. ASSUME p.quantity[i] = 0 \/ metadata = Accounted(p, i)
      PROVE  Balanced(p) => Balanced(q)
  <2>1. ASSUME NEW j \in Instruments
        PROVE  Unrealized(q, j) = Unrealized(p, j) /\ Inventory(q, j) = Inventory(p, j)
    <3>1. CASE j # i
      BY <1>1, <3>1, SameValues
    <3>2. CASE j = i /\ p.quantity[i] = 0
      BY <1>1, <3>2, ValueTypes
    <3>3. CASE j = i /\ metadata = Accounted(p, i)
      <4>1. metadata # <<>>
        BY DEF Metadata
      <4>2. Accounted(q, j) = Accounted(p, j) /\ MarkOf(q, j) = MarkOf(p, j)
        BY <1>1, <3>3, <4>1 DEF Accounted, MarkOf
      <4>. QED BY <1>1, <4>2 DEF Unrealized, Inventory
    <3>. QED BY <1>2, <3>1, <3>2, <3>3
  <2>2. Equity(q) = Equity(p) /\ Expected(q) = Expected(p)
    BY <1>1, <2>1, SameEquity, SameExpected
  <2>. QED BY <1>1, <2>2 DEF Balanced
<1>. QED BY <1>1, <1>2 DEF Keeps, Leaves, q

(* The first event of a day fixes what it began with.                       *)
LEMMA BeginEventFacts ==
  ASSUME NEW p \in Portfolio, NEW day \in Int
  PROVE  /\ BeginEvent(p, day) \in Portfolio
         /\ BeginEvent(p, day).day = day
         /\ BeginEvent(p, day).dayStart = IF p.day = day THEN p.dayStart ELSE Equity(p)
         /\ BeginEvent(p, day).conserved = p.conserved
         /\ BeginEvent(p, day).quantity = p.quantity
         /\ BeginEvent(p, day).instruments = p.instruments
         /\ BeginEvent(p, day).marks = p.marks
         /\ Balanced(p) => Balanced(BeginEvent(p, day))
<1>. DEFINE q == BeginEvent(p, day)
<1>1. Equity(p) \in Int
  BY EquityType
<1>2. /\ q \in Portfolio /\ q.day = day
      /\ q.dayStart = IF p.day = day THEN p.dayStart ELSE Equity(p)
      /\ q.conserved = p.conserved /\ q.cash = p.cash /\ q.realized = p.realized
      /\ q.fees = p.fees /\ q.impact = p.impact /\ q.carry = p.carry
      /\ q.quantity = p.quantity /\ q.average = p.average /\ q.marks = p.marks
      /\ q.instruments = p.instruments
  BY <1>1 DEF BeginEvent, Portfolio
<1>. HIDE DEF q
<1>3. \A i \in Instruments : Unrealized(q, i) = Unrealized(p, i) /\ Inventory(q, i) = Inventory(p, i)
  BY <1>2, SameValues
<1>4. Equity(q) = Equity(p) /\ Expected(q) = Expected(p)
  BY <1>2, <1>3, SameEquity, SameExpected
<1>. QED BY <1>2, <1>4 DEF Balanced, q
-----------------------------------------------------------------------------
(* What is pending                                                          *)

(* No two of the intents have one identity.                                 *)
Distinct(s) == \A m, n \in DOMAIN s : s[m].id = s[n].id => m = n

Names(s) == {s[n].id : n \in DOMAIN s}

(* A sum over no places, and one over a single place.                       *)
LEMMA OutstandingNone ==
  ASSUME NEW s, NEW id, id \notin Names(s)
  PROVE  Outstanding(s, id) = 0
<1>. DEFINE T == {n \in DOMAIN s : s[n].id = id}
            P(t) == t = [S \in SUBSET T |->
                           IF S = {} THEN 0
                           ELSE s[CHOOSE n \in S : TRUE].quantity + t[S \ {CHOOSE n \in S : TRUE}]]
            t0 == [S \in SUBSET T |-> 0]
<1>1. T = {}
  BY DEF Names
<1>2. P(t0)
  <2>1. \A S \in SUBSET T : S = {}
    BY <1>1
  <2>. QED BY <2>1
<1>3. Outstanding(s, id) = (CHOOSE t : P(t))[T]
  BY DEF Outstanding, MapThenSumSet, MapThenFoldSet
<1>4. P(CHOOSE t : P(t))
  BY <1>2
<1>. DEFINE t1 == CHOOSE t : P(t)
<1>5. \A S \in SUBSET T : S = {} => t1[S] = 0
  BY <1>4
<1>6. T \in SUBSET T
  OBVIOUS
<1>. HIDE DEF P, T, t1
<1>7. t1[T] = 0
  BY <1>1, <1>5, <1>6
<1>. QED BY <1>3, <1>7 DEF t1

LEMMA OutstandingOne ==
  ASSUME NEW s, Distinct(s), NEW n \in DOMAIN s, s[n].quantity \in Int
  PROVE  Outstanding(s, s[n].id) = s[n].quantity
<1>. DEFINE id == s[n].id
            T == {k \in DOMAIN s : s[k].id = id}
            P(t) == t = [S \in SUBSET T |->
                           IF S = {} THEN 0
                           ELSE s[CHOOSE k \in S : TRUE].quantity + t[S \ {CHOOSE k \in S : TRUE}]]
            t0 == [S \in SUBSET T |-> IF S = {} THEN 0 ELSE s[n].quantity]
<1>1. T = {n}
  BY DEF Distinct
<1>2. (CHOOSE k \in {n} : TRUE) = n
  OBVIOUS
<1>3. \A S \in SUBSET {n} : S = {} \/ S = {n}
  OBVIOUS
<1>4. P(t0)
  <2>1. ASSUME NEW S \in SUBSET T
        PROVE  t0[S] = IF S = {} THEN 0
                       ELSE s[CHOOSE k \in S : TRUE].quantity + t0[S \ {CHOOSE k \in S : TRUE}]
    <3>1. CASE S = {}
      BY <3>1
    <3>2. CASE S = {n}
      <4>1. S \ {n} = {} /\ {} \in SUBSET T /\ S # {}
        BY <3>2
      <4>2. t0[{}] = 0 /\ t0[S] = s[n].quantity
        BY <4>1
      <4>3. (CHOOSE k \in S : TRUE) = n
        BY <1>2, <3>2
      <4>. HIDE DEF t0
      <4>4. s[n].quantity + 0 = s[n].quantity
        OBVIOUS
      <4>. QED BY <4>1, <4>2, <4>3, <4>4
    <3>. QED BY <1>1, <1>3, <3>1, <3>2
  <2>2. t0 = [S \in SUBSET T |-> t0[S]]
    OBVIOUS
  <2>. HIDE DEF t0, T
  <2>. QED BY <2>1, <2>2
<1>5. Outstanding(s, id) = (CHOOSE t : P(t))[T]
  BY DEF Outstanding, MapThenSumSet, MapThenFoldSet
<1>6. P(CHOOSE t : P(t))
  BY <1>4
<1>. DEFINE t1 == CHOOSE t : P(t)
<1>7. \A S \in SUBSET T :
        t1[S] = IF S = {} THEN 0
                ELSE s[CHOOSE k \in S : TRUE].quantity + t1[S \ {CHOOSE k \in S : TRUE}]
  BY <1>6
<1>. HIDE DEF P, T, t1, id
<1>8. t1[{}] = 0 /\ t1[{n}] = s[n].quantity
  <2>1. {} \in SUBSET T /\ {n} \in SUBSET T /\ {n} # {} /\ {n} \ {n} = {}
    BY <1>1
  <2>2. t1[{}] = 0
    BY <1>7, <2>1
  <2>3. t1[{n}] = s[n].quantity + t1[{}]
    BY <1>2, <1>7, <2>1
  <2>. QED BY <2>2, <2>3
<1>. QED BY <1>1, <1>5, <1>8 DEF t1, id

(* One more intent.                                                         *)
LEMMA OutstandingAppend ==
  ASSUME NEW s \in Seq(SimulatedIntent), NEW x \in SimulatedIntent,
         Distinct(s), x.id \notin Names(s)
  PROVE  /\ Distinct(Append(s, x))
         /\ Names(Append(s, x)) = Names(s) \cup {x.id}
         /\ \A id : Outstanding(Append(s, x), id) =
                      IF id = x.id THEN x.quantity ELSE Outstanding(s, id)
<1>. DEFINE r == Append(s, x)
<1>1. /\ r \in Seq(SimulatedIntent) /\ DOMAIN r = DOMAIN s \cup {Len(s) + 1} /\ r[Len(s) + 1] = x
      /\ \A n \in DOMAIN s : r[n] = s[n]
      /\ Len(s) + 1 \notin DOMAIN s
  OBVIOUS
<1>2. \A n \in DOMAIN s : s[n] \in SimulatedIntent
  OBVIOUS
<1>. HIDE DEF r
<1>3. Distinct(r)
  BY <1>1 DEF Distinct, Names
<1>4. Names(r) = Names(s) \cup {x.id}
  BY <1>1 DEF Names
<1>5. ASSUME NEW id
      PROVE  Outstanding(r, id) = IF id = x.id THEN x.quantity ELSE Outstanding(s, id)
  <2>1. CASE id = x.id
    <3>1. x.quantity \in Int
      BY DEF SimulatedIntent
    <3>. QED BY <1>1, <1>3, <2>1, <3>1, OutstandingOne
  <2>2. CASE id # x.id /\ id \in Names(s)
    <3>1. PICK n \in DOMAIN s : s[n].id = id
      BY <2>2 DEF Names
    <3>2. s[n].quantity \in Int /\ r[n] = s[n] /\ n \in DOMAIN r
      BY <1>1, <1>2 DEF SimulatedIntent
    <3>3. Outstanding(s, id) = s[n].quantity
      BY <3>1, <3>2, OutstandingOne
    <3>4. Outstanding(r, id) = r[n].quantity
      BY <1>3, <3>1, <3>2, OutstandingOne
    <3>. QED BY <2>2, <3>2, <3>3, <3>4
  <2>3. CASE id # x.id /\ id \notin Names(s)
    BY <1>4, <2>3, OutstandingNone
  <2>. QED BY <2>1, <2>2, <2>3
<1>. QED BY <1>3, <1>4, <1>5 DEF r

(* One sequence of intents after another.                                   *)
LEMMA OutstandingConcat ==
  ASSUME NEW s \in Seq(SimulatedIntent), NEW t \in Seq(SimulatedIntent),
         Distinct(s), Distinct(t), Names(s) \cap Names(t) = {}
  PROVE  /\ s \o t \in Seq(SimulatedIntent)
         /\ Distinct(s \o t)
         /\ Names(s \o t) = Names(s) \cup Names(t)
         /\ \A id : Outstanding(s \o t, id) =
                      IF id \in Names(t) THEN Outstanding(t, id) ELSE Outstanding(s, id)
<1>. DEFINE r == s \o t
<1>1. /\ r \in Seq(SimulatedIntent)
      /\ \A n \in DOMAIN s : n \in DOMAIN r /\ r[n] = s[n]
      /\ \A n \in DOMAIN t : Len(s) + n \in DOMAIN r /\ r[Len(s) + n] = t[n]
      /\ \A m \in DOMAIN r : m \in DOMAIN s \/ \E n \in DOMAIN t : m = Len(s) + n
  <2>1. r \in Seq(SimulatedIntent) /\ Len(r) = Len(s) + Len(t)
    OBVIOUS
  <2>2. \A n \in DOMAIN s : n \in DOMAIN r /\ r[n] = s[n]
    OBVIOUS
  <2>3. \A n \in DOMAIN t : Len(s) + n \in DOMAIN r /\ r[Len(s) + n] = t[n]
    OBVIOUS
  <2>4. ASSUME NEW m \in DOMAIN r PROVE m \in DOMAIN s \/ \E n \in DOMAIN t : m = Len(s) + n
    <3>1. m \in 1..(Len(s) + Len(t)) /\ Len(s) \in Nat /\ Len(t) \in Nat
          /\ DOMAIN s = 1..Len(s) /\ DOMAIN t = 1..Len(t)
      BY <2>1
    <3>2. CASE m <= Len(s)
      BY <3>1, <3>2
    <3>3. CASE m > Len(s)
      <4>1. m - Len(s) \in 1..Len(t) /\ m = Len(s) + (m - Len(s))
        BY <3>1, <3>3
      <4>. QED BY <3>1, <4>1
    <3>. QED BY <3>1, <3>2, <3>3
  <2>. QED BY <2>1, <2>2, <2>3, <2>4
<1>. HIDE DEF r
<1>2. \A n \in DOMAIN s : s[n] \in SimulatedIntent
  OBVIOUS
<1>3. \A n \in DOMAIN t : t[n] \in SimulatedIntent
  OBVIOUS
<1>4. Distinct(r)
  <2>1. ASSUME NEW m \in DOMAIN r, NEW n \in DOMAIN r, r[m].id = r[n].id
        PROVE  m = n
    <3>1. CASE m \in DOMAIN s /\ n \in DOMAIN s
      BY <1>1, <2>1, <3>1 DEF Distinct
    <3>2. CASE m \in DOMAIN s /\ n \notin DOMAIN s
      <4>1. PICK k \in DOMAIN t : n = Len(s) + k
        BY <1>1, <3>2
      <4>2. s[m].id = t[k].id
        BY <1>1, <2>1, <3>2, <4>1
      <4>. QED BY <3>2, <4>2 DEF Names
    <3>3. CASE m \notin DOMAIN s /\ n \in DOMAIN s
      <4>1. PICK k \in DOMAIN t : m = Len(s) + k
        BY <1>1, <3>3
      <4>2. s[n].id = t[k].id
        BY <1>1, <2>1, <3>3, <4>1
      <4>. QED BY <3>3, <4>2 DEF Names
    <3>4. CASE m \notin DOMAIN s /\ n \notin DOMAIN s
      <4>1. PICK k \in DOMAIN t : m = Len(s) + k
        BY <1>1, <3>4
      <4>2. PICK j \in DOMAIN t : n = Len(s) + j
        BY <1>1, <3>4
      <4>3. t[k].id = t[j].id
        BY <1>1, <2>1, <4>1, <4>2
      <4>. QED BY <4>1, <4>2, <4>3 DEF Distinct
    <3>. QED BY <3>1, <3>2, <3>3, <3>4
  <2>. QED BY <2>1 DEF Distinct
<1>5. Names(r) = Names(s) \cup Names(t)
  <2>1. \A id : id \in Names(r) => id \in Names(s) \cup Names(t)
    BY <1>1 DEF Names
  <2>2. \A id : id \in Names(s) => id \in Names(r)
    BY <1>1 DEF Names
  <2>3. \A id : id \in Names(t) => id \in Names(r)
    BY <1>1 DEF Names
  <2>. QED BY <2>1, <2>2, <2>3
<1>6. ASSUME NEW id
      PROVE  Outstanding(r, id) = IF id \in Names(t) THEN Outstanding(t, id) ELSE Outstanding(s, id)
  <2>1. CASE id \in Names(t)
    <3>1. PICK n \in DOMAIN t : t[n].id = id
      BY <2>1 DEF Names
    <3>2. t[n].quantity \in Int /\ r[Len(s) + n] = t[n] /\ Len(s) + n \in DOMAIN r
      BY <1>1, <1>3 DEF SimulatedIntent
    <3>3. Outstanding(t, id) = t[n].quantity
      BY <3>1, <3>2, OutstandingOne
    <3>4. Outstanding(r, id) = t[n].quantity
      BY <1>4, <3>1, <3>2, OutstandingOne
    <3>. QED BY <2>1, <3>3, <3>4
  <2>2. CASE id \notin Names(t) /\ id \in Names(s)
    <3>1. PICK n \in DOMAIN s : s[n].id = id
      BY <2>2 DEF Names
    <3>2. s[n].quantity \in Int /\ r[n] = s[n] /\ n \in DOMAIN r
      BY <1>1, <1>2 DEF SimulatedIntent
    <3>3. Outstanding(s, id) = s[n].quantity
      BY <3>1, <3>2, OutstandingOne
    <3>4. Outstanding(r, id) = s[n].quantity
      BY <1>4, <3>1, <3>2, OutstandingOne
    <3>. QED BY <2>2, <3>3, <3>4
  <2>3. CASE id \notin Names(t) /\ id \notin Names(s)
    BY <1>5, <2>3, OutstandingNone
  <2>. QED BY <2>1, <2>2, <2>3
<1>. QED BY <1>1, <1>4, <1>5, <1>6 DEF r
-----------------------------------------------------------------------------
(* One event                                                                *)

LEMMA FundingType ==
  ASSUME NEW p \in Portfolio, NEW i \in Instruments, NEW rate \in Int, NEW price \in Nat
  PROVE  FundingAmount(p, i, rate, price) \in Int
<1>1. p.quantity[i] \in Int /\ FundingPrice(p, i, price) \in Int
  BY DEF Portfolio, FundingPrice
<1>2. Accounted(p, i).multiplier \in Int
  BY ValueTypes DEF Metadata
<1>. DEFINE a == p.quantity[i] \odot FundingPrice(p, i, price)
            b == Accounted(p, i).multiplier \odot a
<1>3. a \in Int
  BY <1>1, DecimalTypes
<1>4. b \in Int
  BY <1>2, <1>3, DecimalTypes
<1>5. b \otimes rate \in Int
  BY <1>4, DecimalTypes
<1>. QED BY <1>5 DEF FundingAmount

LEMMA ChargedFacts ==
  ASSUME NEW p \in Portfolio, NEW component \in Components, NEW cost \in Int
  PROVE  Keeps(p, Charged(p, component, cost))
BY CarryFacts DEF Charged, Keeps, Leaves

(* The event defines an instrument that is held, otherwise than it was      *)
(* accounted for.                                                           *)
DefinesHeld(p, e) ==
  /\ e.kind = "definition" /\ p.quantity[e.instrument] # 0
  /\ e.metadata # Accounted(p, e.instrument)

(* Whatever an event does before the fills, day and failure are left, and   *)
(* the balance unless it redefines what is held.                            *)
LEMMA LifecycleFacts ==
  ASSUME NEW p \in Portfolio, NEW e \in CanonicalEvent
  PROVE  /\ Leaves(p, Lifecycle(p, e))
         /\ ~ DefinesHeld(p, e) => Keeps(p, Lifecycle(p, e))
<1>. DEFINE i == e.instrument
<1>1. /\ i \in Instruments /\ e.mark \in Nat /\ e.rate \in Int /\ e.cost \in Int
      /\ e.metadata \in Metadata
  BY DEF CanonicalEvent
<1>2. "funding" \in Components /\ "borrow" \in Components /\ "roll" \in Components
  BY DEF Components
<1>. HIDE DEF i
<1>3. CASE e.kind = "definition"
  <2>1. Lifecycle(p, e) = RegisterInstrument(p, i, e.metadata)
    BY <1>3 DEF Lifecycle, i
  <2>. QED BY <1>1, <1>3, <2>1, RegisterFacts DEF i, DefinesHeld
<1>4. CASE e.kind = "funding"
  <2>. DEFINE q == ApplyCarryCost(p, "funding", FundingAmount(p, i, e.rate, e.mark))
  <2>1. Lifecycle(p, e) = Charged(q, "borrow", e.cost)
    BY <1>4 DEF Lifecycle, i
  <2>2. Keeps(p, q)
    BY <1>1, <1>2, FundingType, CarryFacts
  <2>. HIDE DEF q
  <2>3. q \in Portfolio
    BY <2>2 DEF Keeps, Leaves
  <2>4. Keeps(q, Charged(q, "borrow", e.cost))
    BY <1>1, <1>2, <2>3, ChargedFacts
  <2>5. Keeps(p, Lifecycle(p, e))
    BY <2>1, <2>2, <2>4, KeepsTransitive
  <2>. QED BY <2>5 DEF Keeps
<1>5. CASE e.kind = "settlement"
  <2>. DEFINE q == SettlePosition(p, i, e.mark)
  <2>1. Lifecycle(p, e) = Charged(q, "roll", e.cost)
    BY <1>5 DEF Lifecycle, i
  <2>2. Keeps(p, q)
    BY <1>1, SettleFacts
  <2>. HIDE DEF q
  <2>3. q \in Portfolio
    BY <2>2 DEF Keeps, Leaves
  <2>4. Keeps(q, Charged(q, "roll", e.cost))
    BY <1>1, <1>2, <2>3, ChargedFacts
  <2>5. Keeps(p, Lifecycle(p, e))
    BY <2>1, <2>2, <2>4, KeepsTransitive
  <2>. QED BY <2>5 DEF Keeps
<1>6. CASE e.kind \notin {"definition", "funding", "settlement"}
  <2>1. Lifecycle(p, e) = p
    BY <1>6 DEF Lifecycle
  <2>. QED BY <2>1 DEF Keeps, Leaves
<1>. QED BY <1>3, <1>4, <1>5, <1>6

LEMMA MarkedFacts ==
  ASSUME NEW p \in Portfolio, NEW e \in CanonicalEvent
  PROVE  Keeps(p, Marked(p, e))
<1>1. e.instrument \in Instruments /\ e.mark \in Nat
  BY DEF CanonicalEvent
<1>2. Keeps(p, p)
  BY DEF Keeps, Leaves
<1>. QED BY <1>1, <1>2, MarkFacts DEF Marked

(* No fill is of more than the intent asks for, and no fill of a bar is of  *)
(* more than is left of its volume.                                         *)
LEMMA OutcomeFacts ==
  ASSUME NEW intent \in SimulatedIntent, NEW e \in CanonicalEvent, NEW time \in Nat,
         NEW budget \in Int, config.model = "bar" => budget >= 0
  PROVE  LET o == Outcome(intent, e, time, budget)
         IN  /\ o.units \in Nat /\ o.price \in Nat /\ o.units <= intent.quantity
             /\ config.model = "bar" => o.units <= budget
<1>1. /\ intent.quantity \in Nat /\ intent.limit \in Nat
      /\ e.size \in Nat /\ e.mark \in Nat /\ PriceFor(intent, e) \in Nat
  BY DEF SimulatedIntent, CanonicalEvent, PriceFor
<1>. DEFINE Sound(o) == /\ o.units \in Nat /\ o.price \in Nat /\ o.units <= intent.quantity
                        /\ config.model = "bar" => o.units <= budget
<1>2. Sound(Waits)
  BY <1>1 DEF Waits
<1>3. config.model = "bar" => Sound(BarOutcome(intent, e, budget))
  BY <1>1, <1>2 DEF BarOutcome, Smaller
<1>4. config.model = "market" => Sound(MarketOutcome(intent, e))
  BY <1>1, <1>2 DEF MarketOutcome, Smaller
<1>5. config.model = "limit" => Sound(LimitOutcome(intent, e))
  BY <1>1, <1>2 DEF LimitOutcome, Smaller
<1>6. config.model # "bar" => Sound(MidpointOutcome(intent, e))
  BY <1>1, <1>2 DEF MidpointOutcome
<1>. HIDE DEF Sound
<1>7. Sound(Outcome(intent, e, time, budget))
  BY <1>2, <1>3, <1>4, <1>5, <1>6 DEF Outcome
<1>. QED BY <1>7 DEF Sound

LEMMA CostType ==
  ASSUME NEW units \in Nat, NEW price \in Nat, NEW rate \in Nat
  PROVE  Cost(units, price, rate) \in Nat
<1>1. units \odot price \in Nat
  BY DecimalNaturals
<1>. QED BY <1>1, DecimalNaturals DEF Cost

LEMMA FilledFacts ==
  ASSUME NEW p \in Portfolio, NEW intent \in SimulatedIntent,
         NEW o, o.units \in Nat, o.price \in Nat
  PROVE  Keeps(p, Filled(p, intent, o))
<1>1. CASE o.units = 0
  BY <1>1 DEF Filled, Keeps, Leaves
<1>2. CASE o.units # 0
  <2>. DEFINE delta == Signed(intent, o.units)
              fee == Cost(o.units, o.price, FeeRate)
              impact == IF config.model = "midpoint" THEN 0 ELSE Cost(o.units, o.price, ImpactRate)
  <2>1. delta \in Int /\ delta # 0
    BY <1>2 DEF Signed
  <2>2. fee \in Nat /\ impact \in Nat
    BY CostType, SimulationAssumption
  <2>3. intent.instrument \in Instruments
    BY DEF SimulatedIntent
  <2>4. Filled(p, intent, o) = ApplyFill(p, intent.instrument, delta, o.price, fee, impact)
    BY <1>2 DEF Filled
  <2>. HIDE DEF delta, fee, impact
  <2>. QED BY <2>1, <2>2, <2>3, <2>4, ApplyFillFacts
<1>. QED BY <1>1, <1>2
-----------------------------------------------------------------------------
(* The pending intents, one after the other                                 *)

Before(pending, n) == {pending[j].id : j \in 1..n}

(* What stands when the first n intents have met the event: the portfolio   *)
(* only changed in the ways it may, what was taken is what the budget lost, *)
(* and of each intent every unit is filled, dropped or pending.             *)
Met(p, pending, e, done, n) ==
  /\ Keeps(p, done.portfolio)
  /\ done.budget \in Int /\ done.taken \in Int /\ done.taken + done.budget = e.size
  /\ config.model = "bar" => done.budget >= 0
  /\ done.pending \in Seq(SimulatedIntent) /\ Distinct(done.pending)
  /\ Names(done.pending) \subseteq Before(pending, n)
  /\ DOMAIN done.filled = Before(pending, n) /\ DOMAIN done.dropped = Before(pending, n)
  /\ \A j \in 1..n :
       LET id == pending[j].id
       IN  /\ done.filled[id] \in Nat /\ done.dropped[id] \in Nat
           /\ done.filled[id] + done.dropped[id] + Outstanding(done.pending, id)
                = pending[j].quantity

LEMMA MeetIsMet ==
  ASSUME NEW p \in Portfolio, NEW e \in CanonicalEvent, NEW time \in Nat,
         NEW pending \in Seq(SimulatedIntent), Distinct(pending),
         NEW n \in 1..Len(pending), NEW done, Met(p, pending, e, done, n - 1)
  PROVE  Met(p, pending, e, Meet(done, pending[n], e, time), n)
<1>. DEFINE x    == pending[n]
            o    == Outcome(x, e, time, done.budget)
            rest == x.quantity - o.units
            next == Meet(done, x, e, time)
            stays == rest > 0 /\ o.rest = "pending"
            y    == Rest(x, o)
<1>1. /\ n \in DOMAIN pending /\ x \in SimulatedIntent /\ x.quantity \in Nat
      /\ \A j \in 1..n : j \in DOMAIN pending /\ pending[j] \in SimulatedIntent
  <2>1. \A j \in 1..n : j \in DOMAIN pending /\ pending[j] \in SimulatedIntent
    OBVIOUS
  <2>2. n \in 1..n /\ n \in DOMAIN pending /\ x \in SimulatedIntent
    OBVIOUS
  <2>. HIDE DEF x
  <2>3. x.quantity \in Nat
    BY <2>2 DEF SimulatedIntent
  <2>. QED BY <2>1, <2>2, <2>3
<1>2. x.id \notin Before(pending, n - 1)
  <2>1. \A j \in 1..(n - 1) : j \in DOMAIN pending /\ j # n
    OBVIOUS
  <2>. QED BY <1>1, <2>1 DEF Before, Distinct
<1>3. Before(pending, n) = Before(pending, n - 1) \cup {x.id}
  <2>1. 1..n = 1..(n - 1) \cup {n}
    OBVIOUS
  <2>. QED BY <2>1 DEF Before
<1>4. /\ Keeps(p, done.portfolio) /\ done.portfolio \in Portfolio
      /\ done.budget \in Int /\ done.taken \in Int /\ done.taken + done.budget = e.size
      /\ config.model = "bar" => done.budget >= 0
      /\ done.pending \in Seq(SimulatedIntent) /\ Distinct(done.pending)
      /\ Names(done.pending) \subseteq Before(pending, n - 1)
      /\ DOMAIN done.filled = Before(pending, n - 1) /\ DOMAIN done.dropped = Before(pending, n - 1)
  BY DEF Met, Keeps, Leaves
<1>5. \A j \in 1..(n - 1) :
        /\ done.filled[pending[j].id] \in Nat /\ done.dropped[pending[j].id] \in Nat
        /\ done.filled[pending[j].id] + done.dropped[pending[j].id]
             + Outstanding(done.pending, pending[j].id) = pending[j].quantity
  BY DEF Met
<1>. HIDE DEF x, Met
<1>6. /\ o.units \in Nat /\ o.price \in Nat /\ o.units <= x.quantity
      /\ config.model = "bar" => o.units <= done.budget
  BY <1>1, <1>4, OutcomeFacts
<1>. HIDE DEF o
<1>7. rest \in Nat
  BY <1>1, <1>6
<1>8. /\ next.portfolio = Filled(done.portfolio, x, o)
      /\ next.budget = done.budget - o.units
      /\ next.taken = done.taken + o.units
      /\ next.pending = IF stays THEN Append(done.pending, y) ELSE done.pending
      /\ next.filled = With(done.filled, x.id, o.units)
      /\ next.dropped = With(done.dropped, x.id, IF o.rest = "pending" THEN 0 ELSE rest)
  BY DEF Meet, o
<1>. HIDE DEF next
<1>9. Keeps(p, next.portfolio)
  BY <1>1, <1>4, <1>6, <1>8, FilledFacts, KeepsTransitive
<1>10. /\ next.budget \in Int /\ next.taken \in Int /\ next.taken + next.budget = e.size
       /\ config.model = "bar" => next.budget >= 0
  BY <1>4, <1>6, <1>8
<1>11. /\ DOMAIN next.filled = Before(pending, n) /\ DOMAIN next.dropped = Before(pending, n)
       /\ next.filled[x.id] = o.units
       /\ next.dropped[x.id] = IF o.rest = "pending" THEN 0 ELSE rest
       /\ \A id \in Before(pending, n - 1) :
            next.filled[id] = done.filled[id] /\ next.dropped[id] = done.dropped[id]
  BY <1>2, <1>3, <1>4, <1>8 DEF With
<1>12. stays => y \in SimulatedIntent /\ y.id = x.id /\ y.quantity = rest
  <2>1. SUFFICES ASSUME stays PROVE y \in SimulatedIntent /\ y.id = x.id /\ y.quantity = rest
    OBVIOUS
  <2>2. rest \in Nat \ {0}
    BY <1>7, <2>1
  <2>3. y = [x EXCEPT !.quantity = rest]
    <3>1. x = [x EXCEPT !.quantity = x.quantity]
      BY <1>1 DEF SimulatedIntent
    <3>. QED BY <1>1 DEF Rest, SimulatedIntent
  <2>. HIDE DEF y, rest
  <2>. QED BY <1>1, <2>2, <2>3 DEF SimulatedIntent
<1>. HIDE DEF y, rest
<1>13. /\ next.pending \in Seq(SimulatedIntent) /\ Distinct(next.pending)
       /\ Names(next.pending) \subseteq Before(pending, n)
       /\ Outstanding(next.pending, x.id) = IF stays THEN rest ELSE 0
       /\ \A id \in Before(pending, n - 1) :
            Outstanding(next.pending, id) = Outstanding(done.pending, id)
  <2>1. x.id \notin Names(done.pending)
    BY <1>2, <1>4
  <2>2. CASE stays
    <3>1. /\ Distinct(Append(done.pending, y))
          /\ Names(Append(done.pending, y)) = Names(done.pending) \cup {y.id}
          /\ \A id : Outstanding(Append(done.pending, y), id) =
                       IF id = y.id THEN y.quantity ELSE Outstanding(done.pending, id)
      BY <1>4, <1>12, <2>1, <2>2, OutstandingAppend
    <3>2. Append(done.pending, y) \in Seq(SimulatedIntent)
      BY <1>4, <1>12, <2>2
    <3>. HIDE DEF stays
    <3>. QED BY <1>2, <1>3, <1>4, <1>8, <1>12, <2>2, <3>1, <3>2
  <2>3. CASE ~ stays
    <3>. HIDE DEF stays
    <3>. QED BY <1>3, <1>4, <1>8, <2>1, <2>3, OutstandingNone
  <2>. QED BY <2>2, <2>3
<1>14. ASSUME NEW j \in 1..n
       PROVE  /\ next.filled[pending[j].id] \in Nat /\ next.dropped[pending[j].id] \in Nat
              /\ next.filled[pending[j].id] + next.dropped[pending[j].id]
                   + Outstanding(next.pending, pending[j].id) = pending[j].quantity
  <2>1. CASE j = n
    <3>1. pending[j] = x
      BY <2>1 DEF x
    <3>2. next.filled[x.id] \in Nat /\ next.dropped[x.id] \in Nat
      BY <1>6, <1>7, <1>11
    <3>3. x.quantity = o.units + rest
      BY <1>1, <1>6 DEF rest
    <3>4. next.filled[x.id] + next.dropped[x.id] + Outstanding(next.pending, x.id) = x.quantity
      BY <1>6, <1>7, <1>11, <1>13, <3>3
    <3>. QED BY <3>1, <3>2, <3>4
  <2>2. CASE j # n
    <3>1. j \in 1..(n - 1)
      BY <2>2
    <3>2. pending[j].id \in Before(pending, n - 1)
      BY <3>1 DEF Before
    <3>. QED BY <1>5, <1>11, <1>13, <3>1, <3>2
  <2>. QED BY <2>1, <2>2
<1>15. Met(p, pending, e, next, n)
  BY <1>9, <1>10, <1>11, <1>13, <1>14 DEF Met
<1>. QED BY <1>15 DEF next, x

(* The table that Evaluate fills.                                           *)
Meetings(met, p, pending, e, time) ==
  met = [n \in 0..Len(pending) |->
           IF n = 0 THEN Unmet(p, e) ELSE Meet(met[n - 1], pending[n], e, time)]

LEMMA EvaluateIs ==
  ASSUME NEW p, NEW pending, Len(pending) \in Nat, NEW e, NEW time
  PROVE  \E met : /\ Meetings(met, p, pending, e, time)
                  /\ Evaluate(p, pending, e, time) = met[Len(pending)]
<1>. DEFINE N == Len(pending)
            Table(met, k) == met = [n \in 0..k |-> IF n = 0 THEN Unmet(p, e)
                                                   ELSE Meet(met[n - 1], pending[n], e, time)]
            Good == {k \in 0..N : \E met : Table(met, k)}
<1>1. N \in Nat
  OBVIOUS
<1>. HIDE DEF N
<1>2. 0 \in Good
  <2>. DEFINE met == [n \in 0..0 |-> Unmet(p, e)]
  <2>1. Table(met, 0)
    OBVIOUS
  <2>2. 0 \in 0..N
    BY <1>1
  <2>. HIDE DEF Table, met
  <2>. QED BY <2>1, <2>2
<1>3. ASSUME NEW k \in 1..N, k - 1 \in Good PROVE k \in Good
  <2>1. PICK met : Table(met, k - 1)
    BY <1>3
  <2>. DEFINE new == [n \in 0..k |-> IF n < k THEN met[n]
                                     ELSE Meet(met[k - 1], pending[k], e, time)]
  <2>2. ASSUME NEW n \in 0..k
        PROVE  new[n] = IF n = 0 THEN Unmet(p, e) ELSE Meet(new[n - 1], pending[n], e, time)
    <3>1. n # 0 => n - 1 \in 0..k /\ new[n - 1] = met[n - 1]
      BY <1>1
    <3>2. CASE n < k
      <4>1. n \in 0..(k - 1)
        BY <1>1, <3>2
      <4>2. met[n] = IF n = 0 THEN Unmet(p, e) ELSE Meet(met[n - 1], pending[n], e, time)
        BY <2>1, <4>1
      <4>3. new[n] = met[n]
        BY <3>2
      <4>. HIDE DEF new
      <4>. QED BY <3>1, <4>2, <4>3
    <3>3. CASE n = k
      <4>1. new[n] = Meet(met[k - 1], pending[k], e, time) /\ n # 0
        BY <1>1, <3>3
      <4>. HIDE DEF new
      <4>. QED BY <3>1, <3>3, <4>1
    <3>. QED BY <1>1, <3>2, <3>3
  <2>3. new = [n \in 0..k |-> new[n]]
    OBVIOUS
  <2>. HIDE DEF new
  <2>4. Table(new, k)
    BY <2>2, <2>3
  <2>. QED BY <2>4
<1>. HIDE DEF Good
<1>4. N \in Good
  BY <1>1, <1>2, <1>3, UpTo
<1>5. \E met : Table(met, N)
  BY <1>4 DEF Good
<1>6. Evaluate(p, pending, e, time) = (CHOOSE met : Table(met, N))[N]
  BY DEF Evaluate, N
<1>. HIDE DEF Table
<1>7. Table(CHOOSE met : Table(met, N), N)
  BY <1>5
<1>8. \A met : Table(met, N) => Meetings(met, p, pending, e, time)
  BY DEF Meetings, Table, N
<1>. QED BY <1>6, <1>7, <1>8 DEF N

(* All pending intents have met the event.                                  *)
LEMMA EvaluateIsMet ==
  ASSUME NEW p \in Portfolio, NEW e \in CanonicalEvent, NEW time \in Nat,
         NEW pending \in Seq(SimulatedIntent), Distinct(pending)
  PROVE  Met(p, pending, e, Evaluate(p, pending, e, time), Len(pending))
<1>. DEFINE N == Len(pending)
<1>1. N \in Nat
  OBVIOUS
<1>2. PICK met : /\ Meetings(met, p, pending, e, time)
                 /\ Evaluate(p, pending, e, time) = met[N]
  BY <1>1, EvaluateIs
<1>3. met[0] = Unmet(p, e)
      /\ \A n \in 1..N : met[n] = Meet(met[n - 1], pending[n], e, time)
  <2>1. \A n \in 0..N : met[n] = IF n = 0 THEN Unmet(p, e)
                                 ELSE Meet(met[n - 1], pending[n], e, time)
    BY <1>2 DEF Meetings
  <2>2. 0 \in 0..N /\ \A n \in 1..N : n \in 0..N /\ n # 0
    OBVIOUS
  <2>. QED BY <2>1, <2>2
<1>. DEFINE Good == {n \in 0..N : Met(p, pending, e, met[n], n)}
<1>4. 0 \in Good
  <2>. DEFINE done == Unmet(p, e)
  <2>1. /\ done.portfolio = p /\ done.budget = e.size /\ done.taken = 0
        /\ done.pending = <<>> /\ done.filled = <<>> /\ done.dropped = <<>>
    BY DEF Unmet
  <2>. HIDE DEF done
  <2>2. Keeps(p, p)
    BY DEF Keeps, Leaves
  <2>3. e.size \in Nat
    BY DEF CanonicalEvent
  <2>4. Before(pending, 0) = {} /\ 1..0 = {}
    BY DEF Before
  <2>5. <<>> \in Seq(SimulatedIntent) /\ DOMAIN <<>> = {}
    OBVIOUS
  <2>6. Distinct(<<>>) /\ Names(<<>>) = {}
    BY <2>5 DEF Distinct, Names
  <2>7. Met(p, pending, e, done, 0)
    BY <2>1, <2>2, <2>3, <2>4, <2>5, <2>6 DEF Met
  <2>. QED BY <1>1, <1>3, <2>7 DEF done
<1>5. ASSUME NEW n \in 1..N, n - 1 \in Good PROVE n \in Good
  <2>1. Met(p, pending, e, met[n - 1], n - 1)
    BY <1>5
  <2>2. Met(p, pending, e, Meet(met[n - 1], pending[n], e, time), n)
    BY <2>1, MeetIsMet
  <2>. QED BY <1>3, <2>2
<1>. HIDE DEF Good, N
<1>6. N \in Good
  <2>1. \A n \in 1..N : n - 1 \in Good => n \in Good
    BY <1>5
  <2>2. \A n \in 0..N : n \in Good
    BY <1>1, <1>4, <2>1, UpTo
  <2>. QED BY <1>1, <2>2
<1>. QED BY <1>2, <1>6 DEF Good, N

-----------------------------------------------------------------------------
(* What is entered                                                          *)

(* The table that Entered fills.                                            *)
Entries(t, p, numbered) ==
  t = [n \in 0..Len(numbered) |->
         IF n = 0 THEN <<>>
         ELSE IF Allowed(p, numbered[n]) THEN Append(t[n - 1], numbered[n]) ELSE t[n - 1]]

LEMMA EnteredIs ==
  ASSUME NEW p, NEW numbered, Len(numbered) \in Nat
  PROVE  \E t : Entries(t, p, numbered) /\ Entered(p, numbered) = t[Len(numbered)]
<1>. DEFINE N == Len(numbered)
            Put(s, n) == IF Allowed(p, numbered[n]) THEN Append(s, numbered[n]) ELSE s
            Table(t, k) == t = [n \in 0..k |-> IF n = 0 THEN <<>>
                                               ELSE IF Allowed(p, numbered[n])
                                               THEN Append(t[n - 1], numbered[n]) ELSE t[n - 1]]
            Good == {k \in 0..N : \E t : Table(t, k)}
<1>1. N \in Nat
  OBVIOUS
<1>. HIDE DEF N
<1>2. 0 \in Good
  <2>. DEFINE t == [n \in 0..0 |-> <<>>]
  <2>1. Table(t, 0)
    OBVIOUS
  <2>2. 0 \in 0..N
    BY <1>1
  <2>. HIDE DEF Table, t
  <2>. QED BY <2>1, <2>2
<1>3. ASSUME NEW k \in 1..N, k - 1 \in Good PROVE k \in Good
  <2>1. PICK t : Table(t, k - 1)
    BY <1>3
  <2>. DEFINE new == [n \in 0..k |-> IF n < k THEN t[n] ELSE Put(t[k - 1], k)]
  <2>2. ASSUME NEW n \in 0..k
        PROVE  new[n] = IF n = 0 THEN <<>> ELSE Put(new[n - 1], n)
    <3>1. n # 0 => n - 1 \in 0..k /\ new[n - 1] = t[n - 1]
      BY <1>1
    <3>2. CASE n < k
      <4>1. n \in 0..(k - 1)
        BY <1>1, <3>2
      <4>2. t[n] = IF n = 0 THEN <<>> ELSE Put(t[n - 1], n)
        BY <2>1, <4>1
      <4>3. new[n] = t[n]
        BY <3>2
      <4>. HIDE DEF new, Put
      <4>. QED BY <3>1, <4>2, <4>3
    <3>3. CASE n = k
      <4>1. new[n] = Put(t[k - 1], k) /\ n # 0
        BY <1>1, <3>3
      <4>. HIDE DEF new, Put
      <4>. QED BY <3>1, <3>3, <4>1
    <3>. QED BY <1>1, <3>2, <3>3
  <2>3. new = [n \in 0..k |-> new[n]]
    OBVIOUS
  <2>. HIDE DEF new
  <2>4. Table(new, k)
    BY <2>2, <2>3
  <2>5. k \in 0..N
    BY <1>1
  <2>. HIDE DEF Table
  <2>. QED BY <2>4, <2>5
<1>. HIDE DEF Good
<1>4. N \in Good
  BY <1>1, <1>2, <1>3, UpTo
<1>5. \E t : Table(t, N)
  BY <1>4 DEF Good
<1>6. Entered(p, numbered) = (CHOOSE t : Table(t, N))[N]
  BY DEF Entered, N
<1>. HIDE DEF Table
<1>7. Table(CHOOSE t : Table(t, N), N)
  BY <1>5
<1>8. \A t : Table(t, N) => Entries(t, p, numbered)
  BY DEF Entries, Table, N
<1>. QED BY <1>6, <1>7, <1>8 DEF N

(* What is entered are intents of the list, each once, and only if the risk *)
(* policy allows one.                                                       *)
LEMMA EnteredFacts ==
  ASSUME NEW p, NEW s \in Seq(SimulatedIntent), Distinct(s)
  PROVE  /\ Entered(p, s) \in Seq(SimulatedIntent)
         /\ Distinct(Entered(p, s)) /\ Names(Entered(p, s)) \subseteq Names(s)
         /\ Names(Entered(p, s)) # {} => \E n \in DOMAIN s : Allowed(p, s[n])
<1>. DEFINE N == Len(s)
            Part(t, n) == /\ t \in Seq(SimulatedIntent)
                          /\ Distinct(t) /\ Names(t) \subseteq Before(s, n)
                          /\ Names(t) # {} => \E j \in 1..n : Allowed(p, s[j])
<1>1. N \in Nat /\ DOMAIN s = 1..N
  OBVIOUS
<1>2. PICK t : Entries(t, p, s) /\ Entered(p, s) = t[N]
  BY <1>1, EnteredIs
<1>3. t[0] = <<>>
      /\ \A n \in 1..N : t[n] = IF Allowed(p, s[n]) THEN Append(t[n - 1], s[n]) ELSE t[n - 1]
  <2>1. \A n \in 0..N : t[n] = IF n = 0 THEN <<>>
                               ELSE IF Allowed(p, s[n]) THEN Append(t[n - 1], s[n]) ELSE t[n - 1]
    BY <1>2 DEF Entries
  <2>2. 0 \in 0..N /\ \A n \in 1..N : n \in 0..N /\ n # 0
    OBVIOUS
  <2>. QED BY <2>1, <2>2
<1>. DEFINE Good == {n \in 0..N : Part(t[n], n)}
<1>4. 0 \in Good
  <2>1. <<>> \in Seq(SimulatedIntent) /\ DOMAIN <<>> = {}
    OBVIOUS
  <2>2. Distinct(<<>>) /\ Names(<<>>) = {}
    BY <2>1 DEF Distinct, Names
  <2>3. 0 \in 0..N
    BY <1>1
  <2>. QED BY <1>3, <2>1, <2>2, <2>3
<1>5. ASSUME NEW n \in 1..N, n - 1 \in Good PROVE n \in Good
  <2>1. Part(t[n - 1], n - 1)
    BY <1>5
  <2>2. /\ n \in 0..N /\ s[n] \in SimulatedIntent
        /\ 1..(n - 1) \subseteq 1..n /\ n \in 1..n
        /\ \A j \in 1..(n - 1) : j \in DOMAIN s /\ j # n
    BY <1>1
  <2>3. s[n].id \notin Before(s, n - 1)
    BY <1>1, <2>2 DEF Before, Distinct
  <2>4. Before(s, n - 1) \subseteq Before(s, n) /\ s[n].id \in Before(s, n)
    BY <2>2 DEF Before
  <2>5. CASE Allowed(p, s[n])
    <3>1. t[n] = Append(t[n - 1], s[n])
      BY <1>3, <2>5
    <3>2. s[n].id \notin Names(t[n - 1])
      BY <2>1, <2>3
    <3>3. Distinct(t[n]) /\ Names(t[n]) = Names(t[n - 1]) \cup {s[n].id}
      BY <2>1, <2>2, <3>1, <3>2, OutstandingAppend
    <3>4. t[n] \in Seq(SimulatedIntent)
      BY <2>1, <2>2, <3>1
    <3>. QED BY <2>1, <2>2, <2>4, <2>5, <3>3, <3>4
  <2>6. CASE ~ Allowed(p, s[n])
    <3>1. t[n] = t[n - 1]
      BY <1>3, <2>6
    <3>. QED BY <2>1, <2>2, <2>4, <3>1
  <2>. QED BY <2>5, <2>6
<1>. HIDE DEF Good, N
<1>6. N \in Good
  <2>1. \A n \in 1..N : n - 1 \in Good => n \in Good
    BY <1>5
  <2>. HIDE DEF Part
  <2>2. \A n \in 0..N : n \in Good
    BY <1>1, <1>4, <2>1, UpTo
  <2>. QED BY <1>1, <2>2
<1>7. Part(Entered(p, s), N)
  BY <1>2, <1>6 DEF Good
<1>8. Before(s, N) = Names(s)
  BY <1>1 DEF Before, Names
<1>. QED BY <1>1, <1>7, <1>8

LEMMA NumberedFacts ==
  ASSUME NEW b \in BookState, NEW proposed \in Seq(Proposal), NEW time \in Nat
  PROVE  LET s == Numbered(b, proposed, time)
         IN  /\ s \in Seq(SimulatedIntent) /\ Distinct(s)
             /\ Names(s) \subseteq (b.signals + 1)..(b.signals + Len(proposed))
<1>. DEFINE s == Numbered(b, proposed, time)
            N == Len(proposed)
<1>1. b.signals \in Nat /\ N \in Nat /\ DOMAIN proposed = 1..N /\ DOMAIN s = 1..N
  BY DEF BookState, Numbered
<1>2. ASSUME NEW n \in 1..N PROVE s[n] \in SimulatedIntent /\ s[n].id = b.signals + n
  <2>1. proposed[n] \in Proposal
    BY <1>1
  <2>. QED BY <1>1, <2>1 DEF Numbered, SimulatedIntent, Proposal
<1>3. s = [n \in 1..N |-> s[n]]
  BY <1>1 DEF Numbered
<1>. HIDE DEF s, N
<1>4. s \in Seq(SimulatedIntent)
  BY <1>1, <1>2, <1>3
<1>5. Distinct(s)
  BY <1>1, <1>2 DEF Distinct
<1>6. Names(s) \subseteq (b.signals + 1)..(b.signals + N)
  BY <1>1, <1>2 DEF Names
<1>. QED BY <1>4, <1>5, <1>6 DEF s, N
-----------------------------------------------------------------------------
(* What one event does                                                      *)

Begun(b, e, time) == Lifecycle(BeginEvent(b.portfolio, time \div DayLength), e)

MetBy(b, e, time) == Evaluate(Begun(b, e, time), b.pending, e, time)

After(b, e, time) == Marked(MetBy(b, e, time).portfolio, e)

New(b, e, time, proposed) == Entered(After(b, e, time), Numbered(b, proposed, time))

LEMMA DayFacts ==
  ASSUME NEW time \in Nat
  PROVE  time \div DayLength \in Nat
<1>1. DayLength \in Nat \ {0}
  BY SimulationAssumption
<1>. QED BY <1>1

LEMMA BegunFacts ==
  ASSUME NEW b \in BookState, NEW e \in CanonicalEvent, NEW time \in Nat
  PROVE  LET q   == Begun(b, e, time)
             day == time \div DayLength
         IN  /\ q \in Portfolio /\ q.day = day
             /\ q.dayStart = IF b.portfolio.day = day THEN b.portfolio.dayStart
                             ELSE Equity(b.portfolio)
             /\ q.conserved => b.portfolio.conserved
             /\ ~ DefinesHeld(b.portfolio, e) /\ Balanced(b.portfolio) => Balanced(q)
<1>. DEFINE p   == b.portfolio
            day == time \div DayLength
            r   == BeginEvent(p, day)
            q   == Lifecycle(r, e)
<1>1. p \in Portfolio /\ day \in Int /\ e.instrument \in Instruments
  BY DayFacts DEF BookState, CanonicalEvent
<1>. HIDE DEF p, day
<1>2. /\ r \in Portfolio /\ r.day = day
      /\ r.dayStart = IF p.day = day THEN p.dayStart ELSE Equity(p)
      /\ r.conserved = p.conserved
      /\ r.quantity = p.quantity /\ r.instruments = p.instruments
      /\ Balanced(p) => Balanced(r)
  BY <1>1, BeginEventFacts
<1>3. Accounted(r, e.instrument) = Accounted(p, e.instrument)
  BY <1>2 DEF Accounted
<1>. HIDE DEF r
<1>4. /\ Leaves(r, q)
      /\ ~ DefinesHeld(r, e) => Keeps(r, q)
  BY <1>2, LifecycleFacts
<1>. HIDE DEF q
<1>5. /\ q \in Portfolio /\ q.day = day
      /\ q.dayStart = IF p.day = day THEN p.dayStart ELSE Equity(p)
      /\ q.conserved => p.conserved
  BY <1>2, <1>4 DEF Leaves
<1>6. ~ DefinesHeld(p, e) /\ Balanced(p) => Balanced(q)
  BY <1>2, <1>3, <1>4 DEF Keeps, DefinesHeld
<1>. QED BY <1>5, <1>6 DEF Begun, p, q, r, day

LEMMA MetByFacts ==
  ASSUME NEW b \in BookState, Distinct(b.pending), NEW e \in CanonicalEvent, NEW time \in Nat
  PROVE  /\ Met(Begun(b, e, time), b.pending, e, MetBy(b, e, time), Len(b.pending))
         /\ Keeps(Begun(b, e, time), After(b, e, time))
<1>1. b.pending \in Seq(SimulatedIntent) /\ Begun(b, e, time) \in Portfolio
  BY BegunFacts DEF BookState
<1>2. Met(Begun(b, e, time), b.pending, e, MetBy(b, e, time), Len(b.pending))
  BY <1>1, EvaluateIsMet DEF MetBy
<1>3. Keeps(Begun(b, e, time), MetBy(b, e, time).portfolio)
  BY <1>2 DEF Met
<1>4. MetBy(b, e, time).portfolio \in Portfolio
  BY <1>3 DEF Keeps, Leaves
<1>5. Keeps(MetBy(b, e, time).portfolio, After(b, e, time))
  BY <1>4, MarkedFacts DEF After
<1>. QED BY <1>2, <1>3, <1>5, KeepsTransitive

(* The portfolio after the event: the day's equity at its first event is    *)
(* what its loss is measured from; nothing unbalances it but a definition.  *)
LEMMA AfterFacts ==
  ASSUME NEW b \in BookState, Distinct(b.pending), NEW e \in CanonicalEvent, NEW time \in Nat
  PROVE  LET q   == After(b, e, time)
             day == time \div DayLength
         IN  /\ q \in Portfolio /\ q.day = day
             /\ q.dayStart = IF b.portfolio.day = day THEN b.portfolio.dayStart
                             ELSE Equity(b.portfolio)
             /\ q.conserved => b.portfolio.conserved
             /\ ~ DefinesHeld(b.portfolio, e) /\ Balanced(b.portfolio) => Balanced(q)
<1>1. Keeps(Begun(b, e, time), After(b, e, time))
  BY MetByFacts
<1>. QED BY <1>1, BegunFacts DEF Keeps, Leaves

(* What is entered is new, and was allowed by the daily loss.               *)
LEMMA NewFacts ==
  ASSUME NEW b \in BookState, Distinct(b.pending), NEW e \in CanonicalEvent, NEW time \in Nat,
         NEW proposed \in Seq(Proposal)
  PROVE  LET new == New(b, e, time, proposed)
             q   == After(b, e, time)
         IN  /\ new \in Seq(SimulatedIntent) /\ Distinct(new)
             /\ Names(new) \subseteq (b.signals + 1)..(b.signals + Len(proposed))
             /\ Names(new) # {} => q.dayStart - Equity(q) < MaxDailyLoss
<1>. DEFINE s   == Numbered(b, proposed, time)
            q   == After(b, e, time)
            new == Entered(q, s)
<1>1. /\ s \in Seq(SimulatedIntent) /\ Distinct(s)
      /\ Names(s) \subseteq (b.signals + 1)..(b.signals + Len(proposed))
  BY NumberedFacts
<1>2. q \in Portfolio
  BY AfterFacts
<1>. HIDE DEF s, q
<1>3. /\ new \in Seq(SimulatedIntent) /\ Distinct(new) /\ Names(new) \subseteq Names(s)
      /\ Names(new) # {} => \E n \in DOMAIN s : Allowed(q, s[n])
  BY <1>1, EnteredFacts
<1>4. ASSUME \E n \in DOMAIN s : Allowed(q, s[n])
      PROVE  q.dayStart - Equity(q) < MaxDailyLoss
  <2>1. (q.dayStart -- Equity(q)) < MaxDailyLoss
    BY <1>4 DEF Allowed
  <2>2. q.dayStart \in Int /\ Equity(q) \in Int /\ MaxDailyLoss \in Nat
          /\ Rounded(MaxDailyLoss) = MaxDailyLoss
    BY <1>2, EquityType, SimulationAssumption DEF Portfolio
  <2>. QED BY <2>1, <2>2, RoundedBelow
<1>. HIDE DEF new
<1>5. new = New(b, e, time, proposed)
  BY DEF New, new, q, s
<1>. QED BY <1>1, <1>3, <1>4, <1>5 DEF q

(* Where the units of the intents are when the event is handled.            *)
LEMMA HandledIntents ==
  ASSUME NEW b \in BookState, Distinct(b.pending), Names(b.pending) \subseteq 1..b.signals,
         NEW e \in CanonicalEvent, NEW time \in Nat, NEW proposed \in Seq(Proposal)
  PROVE  LET done == Handled(b, e, time, proposed)
             old  == Names(b.pending)
             new  == Names(done.entered)
             now  == done.book.pending
         IN  /\ now \in Seq(SimulatedIntent) /\ Distinct(now) /\ Names(now) \subseteq old \cup new
             /\ DOMAIN done.filled = old /\ DOMAIN done.dropped = old
             /\ \A id \in old :
                  /\ done.filled[id] \in Nat /\ done.dropped[id] \in Nat
                  /\ done.filled[id] + done.dropped[id] + Outstanding(now, id)
                       = Outstanding(b.pending, id)
             /\ \A id \in new : /\ Outstanding(done.entered, id) \in Nat
                                /\ Outstanding(now, id) = Outstanding(done.entered, id)
             /\ done.taken \in Int /\ (config.model = "bar" => done.taken <= e.size)
<1>. DEFINE done == Handled(b, e, time, proposed)
            met  == MetBy(b, e, time)
            more == New(b, e, time, proposed)
            N    == Len(b.pending)
            s    == b.pending
            old  == Names(s)
            new  == Names(more)
            now  == met.pending \o more
<1>1. /\ done.filled = met.filled /\ done.dropped = met.dropped /\ done.taken = met.taken
      /\ done.entered = more /\ done.book.pending = now
  BY DEF Handled, MetBy, New, After, Begun
<1>2. Met(Begun(b, e, time), s, e, met, N)
  BY MetByFacts
<1>3. /\ more \in Seq(SimulatedIntent) /\ Distinct(more)
      /\ new \subseteq (b.signals + 1)..(b.signals + Len(proposed))
  BY NewFacts
<1>4. s \in Seq(SimulatedIntent) /\ b.signals \in Nat /\ e.size \in Nat
      /\ Distinct(s) /\ old \subseteq 1..b.signals
  BY DEF BookState, CanonicalEvent
<1>. HIDE DEF done, more
<1>. HIDE DEF met, s
<1>5. old \cap new = {}
  BY <1>3, <1>4
<1>6. N \in Nat /\ DOMAIN s = 1..N /\ Before(s, N) = old
  <2>1. N \in Nat /\ DOMAIN s = 1..N
    BY <1>4 DEF s
  <2>. QED BY <2>1 DEF Before, Names
<1>7. /\ met.budget \in Int /\ met.taken \in Int /\ met.taken + met.budget = e.size
      /\ config.model = "bar" => met.budget >= 0
      /\ met.pending \in Seq(SimulatedIntent) /\ Distinct(met.pending)
      /\ Names(met.pending) \subseteq old
      /\ DOMAIN met.filled = old /\ DOMAIN met.dropped = old
      /\ \A j \in 1..N :
           /\ met.filled[s[j].id] \in Nat /\ met.dropped[s[j].id] \in Nat
           /\ met.filled[s[j].id] + met.dropped[s[j].id] + Outstanding(met.pending, s[j].id)
                = s[j].quantity
  BY <1>2, <1>6 DEF Met
<1>. HIDE DEF N
<1>8. met.taken \in Int /\ (config.model = "bar" => met.taken <= e.size)
  BY <1>4, <1>7
<1>9. Names(met.pending) \cap new = {}
  BY <1>5, <1>7
<1>10. /\ now \in Seq(SimulatedIntent) /\ Distinct(now)
       /\ Names(now) = Names(met.pending) \cup new
       /\ \A id : Outstanding(now, id) = IF id \in new THEN Outstanding(more, id)
                                        ELSE Outstanding(met.pending, id)
  BY <1>3, <1>7, <1>9, OutstandingConcat
<1>11. ASSUME NEW id \in old
       PROVE  /\ met.filled[id] \in Nat /\ met.dropped[id] \in Nat
              /\ met.filled[id] + met.dropped[id] + Outstanding(now, id) = Outstanding(s, id)
  <2>1. PICK j \in DOMAIN s : id = s[j].id
    BY DEF Names
  <2>2. j \in 1..N /\ s[j] \in SimulatedIntent
    BY <1>4, <1>6
  <2>3. s[j].quantity \in Int
    BY <2>2 DEF SimulatedIntent
  <2>4. Outstanding(s, id) = s[j].quantity
    BY <1>4, <2>1, <2>3, OutstandingOne
  <2>5. Outstanding(now, id) = Outstanding(met.pending, id)
    BY <1>5, <1>10
  <2>. QED BY <1>7, <2>1, <2>2, <2>4, <2>5
<1>12. ASSUME NEW id \in new
       PROVE  Outstanding(more, id) \in Nat /\ Outstanding(now, id) = Outstanding(more, id)
  <2>1. PICK j \in DOMAIN more : id = more[j].id
    BY DEF Names
  <2>2. more[j] \in SimulatedIntent
    BY <1>3
  <2>3. more[j].quantity \in Nat
    BY <2>2 DEF SimulatedIntent
  <2>4. Outstanding(more, id) = more[j].quantity
    BY <1>3, <2>1, <2>3, OutstandingOne
  <2>. QED BY <1>10, <2>3, <2>4
<1>. HIDE DEF now
<1>13. /\ now \in Seq(SimulatedIntent) /\ Distinct(now) /\ Names(now) \subseteq old \cup new
  BY <1>7, <1>10
<1>. QED BY <1>1, <1>7, <1>8, <1>11, <1>12, <1>13 DEF done, s

(* The book after the event.                                                *)
LEMMA HandledBook ==
  ASSUME NEW b \in BookState, Distinct(b.pending), Names(b.pending) \subseteq 1..b.signals,
         b.sampled \subseteq 0..(b.offset - 1), b.offset < MaxEvents,
         NEW e \in CanonicalEvent, NEW time \in Nat, NEW proposed \in Seq(Proposal)
  PROVE  LET done == Handled(b, e, time, proposed)
             q    == done.book
         IN  /\ q \in BookState /\ q.portfolio = After(b, e, time)
             /\ done.entered = New(b, e, time, proposed)
             /\ q.offset = b.offset + 1 /\ q.time = time
             /\ q.signals = b.signals + Len(proposed)
             /\ q.sampled \subseteq 0..(q.offset - 1)
<1>. DEFINE done == Handled(b, e, time, proposed)
            q    == done.book
<1>1. /\ q = [portfolio |-> q.portfolio, pending |-> q.pending, signals |-> q.signals,
              offset |-> q.offset, time |-> q.time, sampled |-> q.sampled]
      /\ q.portfolio = After(b, e, time)
      /\ done.entered = New(b, e, time, proposed)
      /\ q.signals = b.signals + Len(proposed)
      /\ q.offset = b.offset + 1 /\ q.time = time
      /\ q.sampled \subseteq b.sampled \cup {b.offset}
  BY DEF Handled, MetBy, New, After, Begun
<1>2. q.pending \in Seq(SimulatedIntent)
  BY HandledIntents
<1>3. q.portfolio \in Portfolio
  BY <1>1, AfterFacts
<1>. HIDE DEF q, done
<1>4. /\ b.offset \in 0..MaxEvents /\ MaxEvents \in Nat /\ b.offset < MaxEvents
      /\ b.signals \in Nat /\ Len(proposed) \in Nat
  BY SimulationAssumption DEF BookState
<1>5. q.signals \in Nat /\ q.offset \in 0..MaxEvents
  BY <1>1, <1>4
<1>6. q.sampled \subseteq 0..(q.offset - 1)
  BY <1>1, <1>4
<1>7. q.sampled \in SUBSET Nat
  BY <1>6
<1>8. q \in BookState
  BY <1>1, <1>2, <1>3, <1>5, <1>7 DEF BookState
<1>. QED BY <1>1, <1>6, <1>8 DEF q, done
-----------------------------------------------------------------------------
(* The invariant                                                            *)

LEMMA OutstandingNat ==
  ASSUME NEW s \in Seq(SimulatedIntent), Distinct(s), NEW id
  PROVE  Outstanding(s, id) \in Nat
<1>1. CASE id \in Names(s)
  <2>1. PICK n \in DOMAIN s : id = s[n].id
    BY <1>1 DEF Names
  <2>2. s[n] \in SimulatedIntent
    OBVIOUS
  <2>3. s[n].quantity \in Nat
    BY <2>2 DEF SimulatedIntent
  <2>. QED BY <2>1, <2>3, OutstandingOne
<1>2. CASE id \notin Names(s)
  BY <1>2, OutstandingNone
<1>. QED BY <1>1, <1>2

(* Between two calls the checkpoint is all there is.                        *)
CheckpointIsHeld == status = "idle" => book = saved

(* What is pending was accepted, once.                                      *)
PendingIsAccepted == Distinct(book.pending) /\ Names(book.pending) \subseteq Ids

(* Every batch has an event, and fits what is left of the stream.           *)
BatchFits == status = "running" => book.offset + batch.left \in 1..MaxEvents

(* A worker that goes on has not failed an assertion.                       *)
WorkerIsConserved == status \in {"idle", "running"} => book.portfolio.conserved

(* The portfolio's day is that of the last event, and the equity its loss   *)
(* is measured from is the one that day began with.                         *)
DayIsOpened ==
  IF book.offset = 0 THEN book.portfolio.day = -1
  ELSE book.portfolio.day = book.time \div DayLength /\ book.portfolio.dayStart = opened

BalanceIsKept == ~ redefined => Balanced(book.portfolio)

Coherent ==
  /\ TypeOK /\ CheckpointIsHeld /\ PendingIsAccepted /\ BatchFits /\ WorkerIsConserved
  /\ DayIsOpened /\ BalanceIsKept /\ IntentsAreAccounted /\ BarVolumeIsShared

LEMMA InitCoherent == Init => Coherent
<1>. SUFFICES ASSUME Init PROVE Coherent
  OBVIOUS
<1>. USE DEF Init
<1>1. NewBook \in BookState /\ NewBook.sampled = {} /\ NewBook.pending = <<>>
      /\ NewBook.portfolio = NewPortfolio /\ NewBook.offset = 0 /\ NewBook.signals = 0
  <2>1. <<>> \in Seq(SimulatedIntent) /\ MaxEvents \in Nat
    BY SimulationAssumption
  <2>. QED BY <2>1, NewPortfolioFacts DEF NewBook, BookState
<1>2. Ids = {} /\ accepted \in [Ids -> Nat] /\ filled \in [Ids -> Nat] /\ dropped \in [Ids -> Nat]
  BY DEF Ids
<1>3. TypeOK
  <2>1. NoBatch \in [instruments : SUBSET Instruments, unseen : SUBSET Instruments,
                     left : 0..MaxEvents]
    BY SimulationAssumption DEF NoBatch
  <2>2. opened \in Int
    BY CashAssumption
  <2>3. \A b \in {book, saved} : b.sampled \subseteq 0..(b.offset - 1)
    BY <1>1
  <2>4. Ids \subseteq 1..book.signals
    BY <1>2
  <2>5. /\ config \in [model : Models, checkpointed : BOOLEAN]
        /\ status \in {"idle", "running", "done", "failed"} /\ status # "running"
        /\ batch = NoBatch /\ book = NewBook /\ saved = NewBook
        /\ taken \in Int /\ offered \in Nat
    OBVIOUS
  <2>6. redefined \in BOOLEAN
    OBVIOUS
  <2>. HIDE DEF Init
  <2>. QED BY <1>1, <1>2, <2>1, <2>2, <2>3, <2>4, <2>5, <2>6 DEF TypeOK
<1>4. CheckpointIsHeld /\ BatchFits
  BY DEF CheckpointIsHeld, BatchFits
<1>5. PendingIsAccepted
  BY <1>1 DEF PendingIsAccepted, Distinct, Names
<1>6. NewPortfolio.conserved /\ NewPortfolio.day = -1
  BY DEF NewPortfolio
<1>7. WorkerIsConserved /\ DayIsOpened /\ BalanceIsKept
  BY <1>1, <1>6, NewPortfolioFacts DEF WorkerIsConserved, DayIsOpened, BalanceIsKept
<1>8. IntentsAreAccounted /\ BarVolumeIsShared
  BY <1>2 DEF IntentsAreAccounted, BarVolumeIsShared
<1>. QED BY <1>3, <1>4, <1>5, <1>7, <1>8 DEF Coherent

(* Loading a checkpoint only asserts conservation.                          *)
LEMMA ImportFacts ==
  ASSUME NEW b \in BookState
  PROVE  LET q == Import(b)
         IN  /\ q \in BookState /\ q.portfolio = Asserted(b.portfolio)
             /\ q.pending = b.pending /\ q.signals = b.signals /\ q.offset = b.offset
             /\ q.time = b.time /\ q.sampled = b.sampled
<1>1. Asserted(b.portfolio) \in Portfolio
  BY AssertedFacts DEF BookState
<1>. HIDE DEF Portfolio
<1>. QED BY <1>1 DEF Import, BookState

LEMMA ExportFacts ==
  ASSUME NEW b \in BookState
  PROVE  Export(b) = b
BY DEF Export, BookState

LEMMA BeginBatchCoherent ==
  ASSUME Coherent, BeginBatch
  PROVE  Coherent'
<1>. USE DEF BeginBatch
<1>1. /\ book \in BookState /\ saved \in BookState /\ book = saved
      /\ book.sampled \subseteq 0..(book.offset - 1)
  BY DEF Coherent, TypeOK, CheckpointIsHeld
<1>2. /\ book' \in BookState /\ book'.portfolio = Asserted(book.portfolio)
      /\ book'.pending = book.pending /\ book'.signals = book.signals
      /\ book'.offset = book.offset /\ book'.time = book.time /\ book'.sampled = book.sampled
  BY <1>1, ImportFacts
<1>3. /\ book.portfolio \in Portfolio /\ book.offset \in 0..MaxEvents /\ MaxEvents \in Nat
  BY <1>1, SimulationAssumption DEF BookState
<1>4. /\ book'.portfolio.dayStart = book.portfolio.dayStart
      /\ book'.portfolio.day = book.portfolio.day
      /\ Balanced(book'.portfolio)
  BY <1>2, <1>3, AssertedFacts
<1>5. /\ batch' \in [instruments : SUBSET Instruments, unseen : SUBSET Instruments,
                     left : 0..MaxEvents]
      /\ book'.offset + batch'.left \in 1..MaxEvents
  <2>1. PICK given \in SUBSET Instruments, n \in 1..(MaxEvents - saved.offset) :
             batch' = [instruments |-> given, unseen |-> given, left |-> n]
    OBVIOUS
  <2>. QED BY <1>1, <1>2, <1>3, <2>1
<1>6. /\ accepted' = accepted /\ filled' = filled /\ dropped' = dropped /\ taken' = taken
      /\ offered' = offered /\ opened' = opened /\ redefined' = redefined
      /\ config' = config /\ saved' = saved /\ Ids' = Ids
      /\ status' = IF book'.portfolio.conserved THEN "running" ELSE "failed"
  BY DEF outcomes, Ids
<1>7. TypeOK'
  <2>1. \A b \in {book', saved'} : b.sampled \subseteq 0..(b.offset - 1)
    BY <1>1, <1>2, <1>6
  <2>. QED BY <1>1, <1>2, <1>5, <1>6, <2>1 DEF Coherent, TypeOK
<1>8. CheckpointIsHeld' /\ BatchFits' /\ WorkerIsConserved'
  BY <1>5, <1>6 DEF CheckpointIsHeld, BatchFits, WorkerIsConserved
<1>9. PendingIsAccepted'
  BY <1>2, <1>6 DEF Coherent, PendingIsAccepted
<1>10. DayIsOpened' /\ BalanceIsKept'
  BY <1>2, <1>4, <1>6 DEF Coherent, DayIsOpened, BalanceIsKept
<1>11. IntentsAreAccounted' /\ BarVolumeIsShared'
  BY <1>2, <1>6 DEF Coherent, IntentsAreAccounted, BarVolumeIsShared
<1>. QED BY <1>7, <1>8, <1>9, <1>10, <1>11 DEF Coherent

(* What stays when neither what is held nor the totals change.              *)
LEMMA SameCoherent ==
  ASSUME Coherent, UNCHANGED <<config, batch, book, outcomes>>,
         saved' \in BookState, saved'.sampled \subseteq 0..(saved'.offset - 1),
         status' \in {"idle", "running", "done", "failed"}, status' = "idle" => book = saved',
         status' = "running" => status = "running",
         status' = "idle" => status \in {"idle", "running"}
  PROVE  Coherent'
<1>1. /\ accepted' = accepted /\ filled' = filled /\ dropped' = dropped /\ taken' = taken
      /\ offered' = offered /\ opened' = opened /\ redefined' = redefined
      /\ config' = config /\ batch' = batch /\ book' = book /\ Ids' = Ids
  BY DEF outcomes, Ids
<1>2. TypeOK'
  BY <1>1 DEF Coherent, TypeOK
<1>3. CheckpointIsHeld' /\ BatchFits' /\ WorkerIsConserved'
  BY <1>1 DEF Coherent, CheckpointIsHeld, BatchFits, WorkerIsConserved
<1>4. PendingIsAccepted' /\ DayIsOpened' /\ BalanceIsKept'
  BY <1>1 DEF Coherent, PendingIsAccepted, DayIsOpened, BalanceIsKept
<1>5. IntentsAreAccounted' /\ BarVolumeIsShared'
  BY <1>1 DEF Coherent, IntentsAreAccounted, BarVolumeIsShared
<1>. QED BY <1>2, <1>3, <1>4, <1>5 DEF Coherent

LEMMA RaiseCoherent ==
  ASSUME Coherent, Raise
  PROVE  Coherent'
<1>1. saved' \in BookState /\ saved'.sampled \subseteq 0..(saved'.offset - 1)
  BY DEF Raise, Coherent, TypeOK
<1>. QED BY <1>1, SameCoherent DEF Raise

LEMMA SaveCheckpointCoherent ==
  ASSUME Coherent, SaveCheckpoint
  PROVE  Coherent'
<1>1. book \in BookState /\ book.sampled \subseteq 0..(book.offset - 1)
  BY DEF Coherent, TypeOK
<1>2. saved' = book
  BY <1>1, ExportFacts DEF SaveCheckpoint
<1>. QED BY <1>1, <1>2, SameCoherent DEF SaveCheckpoint

LEMMA EndReplayCoherent ==
  ASSUME Coherent, EndReplay
  PROVE  Coherent'
<1>. USE DEF EndReplay
<1>1. /\ book \in BookState /\ saved \in BookState
      /\ book.sampled \subseteq 0..(book.offset - 1)
      /\ saved.sampled \subseteq 0..(saved.offset - 1)
      /\ accepted \in [Ids -> Nat] /\ filled \in [Ids -> Nat] /\ dropped \in [Ids -> Nat]
  BY DEF Coherent, TypeOK
<1>2. book.offset \in 1..MaxEvents /\ book.pending \in Seq(SimulatedIntent)
      /\ book.sampled \subseteq Nat
  BY <1>1 DEF Coherent, BatchFits, BookState
<1>3. Distinct(book.pending)
  BY DEF Coherent, PendingIsAccepted
<1>4. /\ accepted' = accepted /\ filled' = filled /\ taken' = taken
      /\ offered' = offered /\ opened' = opened /\ redefined' = redefined
      /\ config' = config /\ saved' = saved /\ batch' = batch /\ Ids' = Ids /\ status' = "done"
      /\ dropped' = [id \in Ids |-> dropped[id] + Outstanding(book.pending, id)]
  BY DEF Ids
<1>5. /\ book' \in BookState /\ book'.portfolio = book.portfolio
      /\ book'.pending = <<>> /\ book'.signals = book.signals
      /\ book'.offset = book.offset /\ book'.time = book.time
      /\ book'.sampled = book.sampled \cup {book.offset - 1}
  <2>1. <<>> \in Seq(SimulatedIntent) /\ book.sampled \cup {book.offset - 1} \in SUBSET Nat
    BY <1>2
  <2>2. book' = [book EXCEPT !.pending = <<>>, !.sampled = book.sampled \cup {book.offset - 1}]
    BY <1>1 DEF BookState
  <2>. HIDE DEF EndReplay
  <2>. QED BY <1>1, <2>1, <2>2 DEF BookState
<1>6. dropped' \in [Ids -> Nat]
  <2>1. \A id \in Ids : Outstanding(book.pending, id) \in Nat
    BY <1>2, <1>3, OutstandingNat
  <2>. QED BY <1>1, <1>4, <2>1
<1>. HIDE DEF EndReplay
<1>7. TypeOK'
  <2>1. \A b \in {book', saved'} : b.sampled \subseteq 0..(b.offset - 1)
    BY <1>1, <1>2, <1>4, <1>5
  <2>. QED BY <1>1, <1>4, <1>5, <1>6, <2>1 DEF Coherent, TypeOK
<1>8. CheckpointIsHeld' /\ BatchFits' /\ WorkerIsConserved'
  BY <1>4 DEF CheckpointIsHeld, BatchFits, WorkerIsConserved
<1>9. Names(book'.pending) = {}
  BY <1>5 DEF Names
<1>10. PendingIsAccepted'
  BY <1>5, <1>9 DEF PendingIsAccepted, Distinct
<1>11. DayIsOpened' /\ BalanceIsKept'
  BY <1>4, <1>5 DEF Coherent, DayIsOpened, BalanceIsKept
<1>12. BarVolumeIsShared'
  BY <1>4 DEF Coherent, BarVolumeIsShared
<1>13. IntentsAreAccounted'
  <2>1. ASSUME NEW id \in Ids
        PROVE  accepted'[id] = filled'[id] + dropped'[id] + Outstanding(book'.pending, id)
    <3>1. accepted[id] = filled[id] + dropped[id] + Outstanding(book.pending, id)
      BY DEF Coherent, IntentsAreAccounted
    <3>2. Outstanding(book'.pending, id) = 0
      BY <1>9, OutstandingNone
    <3>3. dropped'[id] = dropped[id] + Outstanding(book.pending, id)
      BY <1>4
    <3>4. Outstanding(book.pending, id) \in Nat /\ filled[id] \in Nat /\ dropped[id] \in Nat
      BY <1>1, <1>2, <1>3, OutstandingNat
    <3>. QED BY <1>4, <3>1, <3>2, <3>3, <3>4
  <2>. QED BY <1>4, <2>1 DEF IntentsAreAccounted
<1>. QED BY <1>7, <1>8, <1>10, <1>11, <1>12, <1>13 DEF Coherent

(* The totals of the intents once an event is recorded.                     *)
LEMMA RecordFacts ==
  ASSUME NEW done, Record(done),
         accepted \in [Ids -> Nat], filled \in [Ids -> Nat], dropped \in [Ids -> Nat],
         NEW old \in SUBSET Ids, DOMAIN done.filled = old, DOMAIN done.dropped = old,
         \A id \in old : done.filled[id] \in Nat /\ done.dropped[id] \in Nat,
         \A id \in Names(done.entered) : Outstanding(done.entered, id) \in Nat
  PROVE  /\ Ids' = Ids \cup Names(done.entered) /\ taken' = done.taken
         /\ accepted' \in [Ids' -> Nat] /\ filled' \in [Ids' -> Nat] /\ dropped' \in [Ids' -> Nat]
         /\ \A id \in Ids :
              /\ accepted'[id] = accepted[id]
              /\ filled'[id] = filled[id] + IF id \in old THEN done.filled[id] ELSE 0
              /\ dropped'[id] = dropped[id] + IF id \in old THEN done.dropped[id] ELSE 0
         /\ \A id \in Names(done.entered) \ Ids :
              /\ accepted'[id] = Outstanding(done.entered, id)
              /\ filled'[id] = 0 /\ dropped'[id] = 0
<1>. DEFINE names == Ids \cup Names(done.entered)
<1>1. /\ accepted' = [id \in names |-> IF id \in Ids THEN accepted[id]
                                       ELSE Outstanding(done.entered, id)]
      /\ filled' = [id \in names |-> IF id \notin Ids THEN 0
                      ELSE filled[id] + IF id \in old THEN done.filled[id] ELSE 0]
      /\ dropped' = [id \in names |-> IF id \notin Ids THEN 0
                      ELSE dropped[id] + IF id \in old THEN done.dropped[id] ELSE 0]
      /\ taken' = done.taken
  BY DEF Record, Names
<1>2. Ids' = names
  BY <1>1 DEF Ids
<1>3. accepted' \in [names -> Nat]
  BY <1>1
<1>4. filled' \in [names -> Nat] /\ dropped' \in [names -> Nat]
  <2>1. \A id \in Ids : filled[id] \in Nat /\ dropped[id] \in Nat
    OBVIOUS
  <2>. QED BY <1>1, <2>1
<1>. QED BY <1>1, <1>2, <1>3, <1>4

(* An event: what the call holds, and the totals of the intents, change     *)
(* together.                                                                *)
LEMMA ObserveFacts ==
  ASSUME Coherent, NEW e \in Events[config.model], NEW time \in {book.time, book.time + 1},
         NEW proposed \in Proposals[config.model], Observe(e, time, proposed)
  PROVE  LET done == Handled(book, e, time, proposed)
             p    == book.portfolio
             q    == book'.portfolio
             day  == time \div DayLength
         IN  /\ e \in CanonicalEvent /\ time \in Nat /\ proposed \in Seq(Proposal)
             /\ book' = done.book /\ book' \in BookState
             /\ book.offset < MaxEvents /\ book'.offset = book.offset + 1 /\ book'.time = time
             /\ book'.sampled \subseteq 0..(book'.offset - 1)
             /\ book'.signals = book.signals + Len(proposed)
             /\ Names(book.pending) \subseteq Ids
             /\ Names(done.entered) \subseteq (book.signals + 1)..(book.signals + Len(proposed))
             /\ Names(done.entered) # {} => q.dayStart - Equity(q) < MaxDailyLoss
             /\ p \in Portfolio /\ q \in Portfolio /\ q.day = day
             /\ q.dayStart = IF p.day = day THEN p.dayStart ELSE Equity(p)
             /\ ~ DefinesHeld(p, e) /\ Balanced(p) => Balanced(q)
<1>. DEFINE done == Handled(book, e, time, proposed)
<1>1. book \in BookState /\ book.sampled \subseteq 0..(book.offset - 1)
      /\ Ids \subseteq 1..book.signals /\ config.model \in Models
  BY DEF Coherent, TypeOK
<1>2. e \in CanonicalEvent /\ proposed \in Seq(Proposal)
  BY <1>1, InputsAssumption
<1>3. book.time \in Nat /\ book.offset \in 0..MaxEvents /\ MaxEvents \in Nat
      /\ book.portfolio \in Portfolio
  BY <1>1, SimulationAssumption DEF BookState
<1>4. time \in Nat
  BY <1>3
<1>5. Distinct(book.pending) /\ Names(book.pending) \subseteq Ids
  BY DEF Coherent, PendingIsAccepted
<1>6. book.offset < MaxEvents
  <2>1. status = "running" /\ batch.left > 0
    BY DEF Observe
  <2>2. book.offset + batch.left \in 1..MaxEvents /\ batch.left \in 0..MaxEvents
    BY <2>1 DEF Coherent, BatchFits, TypeOK
  <2>. QED BY <1>3, <2>1, <2>2
<1>7. book' = done.book
  BY DEF Observe
<1>8. Names(book.pending) \subseteq 1..book.signals
  BY <1>1, <1>5
<1>9. /\ book' \in BookState /\ book'.portfolio = After(book, e, time)
      /\ done.entered = New(book, e, time, proposed)
      /\ book'.offset = book.offset + 1 /\ book'.time = time
      /\ book'.signals = book.signals + Len(proposed)
      /\ book'.sampled \subseteq 0..(book'.offset - 1)
  <2>1. /\ done.book \in BookState /\ done.book.portfolio = After(book, e, time)
        /\ done.entered = New(book, e, time, proposed)
        /\ done.book.offset = book.offset + 1 /\ done.book.time = time
        /\ done.book.signals = book.signals + Len(proposed)
        /\ done.book.sampled \subseteq 0..(done.book.offset - 1)
    BY <1>1, <1>2, <1>4, <1>5, <1>6, <1>8, HandledBook
  <2>. HIDE DEF done
  <2>. QED BY <1>7, <2>1
<1>. HIDE DEF done
<1>10. /\ Names(done.entered) \subseteq (book.signals + 1)..(book.signals + Len(proposed))
       /\ Names(done.entered) # {} =>
            book'.portfolio.dayStart - Equity(book'.portfolio) < MaxDailyLoss
  BY <1>1, <1>2, <1>4, <1>5, <1>9, NewFacts
<1>11. /\ book'.portfolio \in Portfolio /\ book'.portfolio.day = time \div DayLength
       /\ book'.portfolio.dayStart = IF book.portfolio.day = time \div DayLength
                                     THEN book.portfolio.dayStart ELSE Equity(book.portfolio)
       /\ ~ DefinesHeld(book.portfolio, e) /\ Balanced(book.portfolio) => Balanced(book'.portfolio)
  BY <1>1, <1>2, <1>4, <1>5, <1>9, AfterFacts
<1>. QED BY <1>2, <1>3, <1>4, <1>5, <1>6, <1>7, <1>9, <1>10, <1>11 DEF done

LEMMA ObserveTotals ==
  ASSUME Coherent, NEW e \in Events[config.model], NEW time \in {book.time, book.time + 1},
         NEW proposed \in Proposals[config.model], Observe(e, time, proposed)
  PROVE  LET new == Names(Handled(book, e, time, proposed).entered)
         IN  /\ Ids' = Ids \cup new
             /\ accepted' \in [Ids' -> Nat] /\ filled' \in [Ids' -> Nat] /\ dropped' \in [Ids' -> Nat]
             /\ Distinct(book'.pending) /\ Names(book'.pending) \subseteq Ids'
             /\ taken' \in Int /\ (config.model = "bar" => taken' <= e.size)
             /\ IntentsAreAccounted'
<1>. DEFINE done == Handled(book, e, time, proposed)
            new  == Names(done.entered)
            old  == Names(book.pending)
            now  == done.book.pending
<1>1. /\ book \in BookState /\ Ids \subseteq 1..book.signals
      /\ accepted \in [Ids -> Nat] /\ filled \in [Ids -> Nat] /\ dropped \in [Ids -> Nat]
  BY DEF Coherent, TypeOK
<1>2. /\ e \in CanonicalEvent /\ time \in Nat /\ proposed \in Seq(Proposal)
      /\ old \subseteq Ids
      /\ new \subseteq (book.signals + 1)..(book.signals + Len(proposed))
  BY ObserveFacts
<1>3. Distinct(book.pending)
  BY DEF Coherent, PendingIsAccepted
<1>4. book' = done.book /\ Record(done)
  BY DEF Observe
<1>5. /\ book.pending \in Seq(SimulatedIntent) /\ book.signals \in Nat
      /\ old \subseteq 1..book.signals
  BY <1>1, <1>2 DEF BookState
<1>6. /\ now \in Seq(SimulatedIntent) /\ Distinct(now) /\ Names(now) \subseteq old \cup new
      /\ DOMAIN done.filled = old /\ DOMAIN done.dropped = old
      /\ \A id \in old :
           /\ done.filled[id] \in Nat /\ done.dropped[id] \in Nat
           /\ done.filled[id] + done.dropped[id] + Outstanding(now, id)
                = Outstanding(book.pending, id)
      /\ \A id \in new : /\ Outstanding(done.entered, id) \in Nat
                         /\ Outstanding(now, id) = Outstanding(done.entered, id)
      /\ done.taken \in Int /\ (config.model = "bar" => done.taken <= e.size)
  BY <1>1, <1>2, <1>3, <1>5, HandledIntents
<1>. HIDE DEF done
<1>7. /\ Ids' = Ids \cup new /\ taken' = done.taken
      /\ accepted' \in [Ids' -> Nat] /\ filled' \in [Ids' -> Nat] /\ dropped' \in [Ids' -> Nat]
      /\ \A id \in Ids :
           /\ accepted'[id] = accepted[id]
           /\ filled'[id] = filled[id] + IF id \in old THEN done.filled[id] ELSE 0
           /\ dropped'[id] = dropped[id] + IF id \in old THEN done.dropped[id] ELSE 0
      /\ \A id \in new \ Ids : /\ accepted'[id] = Outstanding(done.entered, id)
                               /\ filled'[id] = 0 /\ dropped'[id] = 0
  <2>1. old \in SUBSET Ids
    BY <1>2
  <2>. HIDE DEF old, now
  <2>2. /\ DOMAIN done.filled = old /\ DOMAIN done.dropped = old
        /\ \A id \in old : done.filled[id] \in Nat /\ done.dropped[id] \in Nat
        /\ \A id \in new : Outstanding(done.entered, id) \in Nat
    BY <1>6
  <2>. QED BY <1>1, <1>4, <2>1, <2>2, RecordFacts
<1>. HIDE DEF now
<1>8. ASSUME NEW id \in Ids'
      PROVE  accepted'[id] = filled'[id] + dropped'[id] + Outstanding(now, id)
  <2>1. new \cap Ids = {} /\ new \cap old = {}
    BY <1>1, <1>2, <1>5
  <2>2. Outstanding(now, id) \in Nat
    BY <1>6, OutstandingNat
  <2>. HIDE DEF new, old
  <2>3. CASE id \in new
    BY <1>6, <1>7, <2>1, <2>2, <2>3
  <2>4. CASE id \in Ids
    <3>1. accepted[id] = filled[id] + dropped[id] + Outstanding(book.pending, id)
      BY <2>4 DEF Coherent, IntentsAreAccounted
    <3>2. filled[id] \in Nat /\ dropped[id] \in Nat
      BY <1>1, <2>4
    <3>3. CASE id \in old
      <4>1. /\ accepted'[id] = accepted[id]
            /\ filled'[id] = filled[id] + done.filled[id]
            /\ dropped'[id] = dropped[id] + done.dropped[id]
        BY <1>7, <2>4, <3>3
      <4>2. /\ done.filled[id] \in Nat /\ done.dropped[id] \in Nat
            /\ done.filled[id] + done.dropped[id] + Outstanding(now, id)
                 = Outstanding(book.pending, id)
        BY <1>6, <3>3
      <4>. QED BY <2>2, <3>1, <3>2, <4>1, <4>2
    <3>4. CASE id \notin old
      <4>1. Outstanding(book.pending, id) = 0
        BY <3>4, OutstandingNone DEF old
      <4>2. id \notin Names(now)
        BY <1>6, <2>1, <2>4, <3>4
      <4>3. Outstanding(now, id) = 0
        BY <4>2, OutstandingNone
      <4>. QED BY <1>7, <2>4, <3>1, <3>2, <3>4, <4>1, <4>3
    <3>. QED BY <3>3, <3>4
  <2>. QED BY <1>7, <2>3, <2>4
<1>9. book'.pending = now
  BY <1>4 DEF now
<1>10. IntentsAreAccounted'
  BY <1>8, <1>9 DEF IntentsAreAccounted
<1>. QED BY <1>2, <1>6, <1>7, <1>9, <1>10 DEF done

LEMMA ObserveCoherent ==
  ASSUME Coherent, NEW e \in Events[config.model], NEW time \in {book.time, book.time + 1},
         NEW proposed \in Proposals[config.model], Observe(e, time, proposed)
  PROVE  Coherent'
<1>. DEFINE day == time \div DayLength
            p   == book.portfolio
            q   == book'.portfolio
<1>1. /\ e \in CanonicalEvent /\ time \in Nat /\ proposed \in Seq(Proposal)
      /\ book' \in BookState
      /\ book.offset < MaxEvents /\ book'.offset = book.offset + 1 /\ book'.time = time
      /\ book'.sampled \subseteq 0..(book'.offset - 1)
      /\ book'.signals = book.signals + Len(proposed)
      /\ p \in Portfolio /\ q \in Portfolio /\ q.day = day
      /\ q.dayStart = IF p.day = day THEN p.dayStart ELSE Equity(p)
      /\ ~ DefinesHeld(p, e) /\ Balanced(p) => Balanced(q)
  BY ObserveFacts
<1>2. /\ Ids' \subseteq Ids \cup (book.signals + 1)..(book.signals + Len(proposed))
      /\ accepted' \in [Ids' -> Nat] /\ filled' \in [Ids' -> Nat] /\ dropped' \in [Ids' -> Nat]
      /\ Distinct(book'.pending) /\ Names(book'.pending) \subseteq Ids'
      /\ taken' \in Int /\ (config.model = "bar" => taken' <= e.size)
      /\ IntentsAreAccounted'
  <2>. DEFINE new == Names(Handled(book, e, time, proposed).entered)
  <2>1. new \subseteq (book.signals + 1)..(book.signals + Len(proposed))
    BY ObserveFacts
  <2>2. /\ Ids' = Ids \cup new
        /\ accepted' \in [Ids' -> Nat] /\ filled' \in [Ids' -> Nat] /\ dropped' \in [Ids' -> Nat]
        /\ Distinct(book'.pending) /\ Names(book'.pending) \subseteq Ids'
        /\ taken' \in Int /\ (config.model = "bar" => taken' <= e.size)
        /\ IntentsAreAccounted'
    BY ObserveTotals
  <2>. HIDE DEF new
  <2>. QED BY <2>1, <2>2
<1>3. /\ status = "running" /\ batch.left > 0
      /\ batch' = [batch EXCEPT !.left = @ - 1, !.unseen = @ \ {e.instrument}]
      /\ opened' = IF book.offset = 0 \/ day # book.time \div DayLength
                   THEN Equity(p) ELSE opened
      /\ offered' = e.size
      /\ redefined' = (redefined \/ DefinesHeld(p, e))
      /\ status' = IF q.conserved THEN "running" ELSE "failed"
      /\ config' = config /\ saved' = saved
  BY DEF Observe, DefinesHeld
<1>4. /\ book \in BookState /\ saved \in BookState /\ opened \in Int /\ redefined \in BOOLEAN
      /\ batch \in [instruments : SUBSET Instruments, unseen : SUBSET Instruments,
                    left : 0..MaxEvents]
      /\ saved.sampled \subseteq 0..(saved.offset - 1) /\ Ids \subseteq 1..book.signals
      /\ config \in [model : Models, checkpointed : BOOLEAN]
  BY DEF Coherent, TypeOK
<1>5. /\ book.offset \in 0..MaxEvents /\ book.signals \in Nat /\ MaxEvents \in Nat
      /\ book.time \in Nat /\ Len(proposed) \in Nat /\ e.size \in Nat /\ Equity(p) \in Int
  BY <1>1, <1>4, SimulationAssumption, EquityType DEF BookState, CanonicalEvent
<1>. HIDE DEF p, q, day
<1>6. /\ batch' \in [instruments : SUBSET Instruments, unseen : SUBSET Instruments,
                     left : 0..MaxEvents]
      /\ batch'.left = batch.left - 1
  <2>1. batch.left - 1 \in 0..MaxEvents /\ batch.unseen \ {e.instrument} \in SUBSET Instruments
    BY <1>3, <1>4, <1>5
  <2>2. batch' = [batch EXCEPT !.left = batch.left - 1, !.unseen = batch.unseen \ {e.instrument}]
    BY <1>3, <1>4
  <2>. QED BY <1>4, <2>1, <2>2
<1>7. book'.offset + batch'.left \in 1..MaxEvents
  <2>1. book.offset + batch.left \in 1..MaxEvents /\ batch.left \in 0..MaxEvents
    BY <1>3, <1>4 DEF Coherent, BatchFits
  <2>2. /\ book'.offset = book.offset + 1 /\ batch'.left = batch.left - 1
        /\ book.offset \in Int /\ batch.left \in Int
    BY <1>1, <1>5, <1>6, <2>1
  <2>. QED BY <2>1, <2>2
<1>8. TypeOK'
  <2>1. \A b \in {book', saved'} : b.sampled \subseteq 0..(b.offset - 1)
    BY <1>1, <1>3, <1>4
  <2>2. Ids' \subseteq 1..book'.signals
    <3>1. book'.signals = book.signals + Len(proposed)
      BY <1>1
    <3>. DEFINE n == Len(proposed)
    <3>2. Ids' \subseteq 1..book.signals \cup (book.signals + 1)..(book.signals + n)
      BY <1>2, <1>4
    <3>3. n \in Nat
      BY <1>5
    <3>. HIDE DEF n
    <3>4. 1..book.signals \cup (book.signals + 1)..(book.signals + n) \subseteq 1..(book.signals + n)
      BY <1>5, <3>3
    <3>. QED BY <3>1, <3>2, <3>4 DEF n
  <2>3. /\ config' \in [model : Models, checkpointed : BOOLEAN]
        /\ status' \in {"idle", "running", "done", "failed"}
        /\ saved' \in BookState /\ opened' \in Int /\ offered' \in Nat /\ redefined' \in BOOLEAN
    BY <1>3, <1>4, <1>5 DEF DefinesHeld
  <2>. QED BY <1>1, <1>2, <1>6, <1>7, <2>1, <2>2, <2>3 DEF TypeOK
<1>9. CheckpointIsHeld' /\ BatchFits' /\ WorkerIsConserved'
  BY <1>3, <1>7 DEF CheckpointIsHeld, BatchFits, WorkerIsConserved, q
<1>10. PendingIsAccepted' /\ IntentsAreAccounted'
  BY <1>2 DEF PendingIsAccepted
<1>11. BarVolumeIsShared'
  BY <1>2, <1>3 DEF BarVolumeIsShared
<1>12. BalanceIsKept'
  BY <1>1, <1>3 DEF Coherent, BalanceIsKept, p, q
<1>13. DayIsOpened'
  <2>1. book'.offset # 0
    BY <1>1, <1>5
  <2>2. q.dayStart = opened'
    <3>1. CASE book.offset = 0
      <4>1. p.day = -1
        BY <3>1 DEF Coherent, DayIsOpened, p
      <4>2. day \in Nat
        BY <1>1, DayFacts DEF day
      <4>. QED BY <1>1, <1>3, <3>1, <4>1, <4>2
    <3>2. CASE book.offset # 0
      <4>1. p.day = book.time \div DayLength /\ p.dayStart = opened
        BY <3>2 DEF Coherent, DayIsOpened, p
      <4>. QED BY <1>1, <1>3, <3>2, <4>1
    <3>. QED BY <3>1, <3>2
  <2>. QED BY <1>1, <2>1, <2>2 DEF DayIsOpened, q, day
<1>. QED BY <1>8, <1>9, <1>10, <1>11, <1>12, <1>13 DEF Coherent

LEMMA StutterCoherent ==
  ASSUME Coherent, UNCHANGED simulationVars
  PROVE  Coherent'
<1>1. saved' \in BookState /\ saved'.sampled \subseteq 0..(saved'.offset - 1)
      /\ status \in {"idle", "running", "done", "failed"}
  BY DEF simulationVars, Coherent, TypeOK
<1>2. status' = "idle" => book = saved'
  BY DEF simulationVars, Coherent, CheckpointIsHeld
<1>. QED BY <1>1, <1>2, SameCoherent DEF simulationVars

LEMMA NextCoherent == Coherent /\ [Next]_simulationVars => Coherent'
<1>. SUFFICES ASSUME Coherent, [Next]_simulationVars PROVE Coherent'
  OBVIOUS
<1>1. CASE BeginBatch
  BY <1>1, BeginBatchCoherent
<1>2. ASSUME NEW e \in Events[config.model], NEW time \in {book.time, book.time + 1},
             NEW proposed \in Proposals[config.model], Observe(e, time, proposed)
      PROVE  Coherent'
  BY <1>2, ObserveCoherent
<1>3. CASE Raise
  BY <1>3, RaiseCoherent
<1>4. CASE SaveCheckpoint
  BY <1>4, SaveCheckpointCoherent
<1>5. CASE EndReplay
  BY <1>5, EndReplayCoherent
<1>6. CASE UNCHANGED simulationVars
  BY <1>6, StutterCoherent
<1>. QED BY <1>1, <1>2, <1>3, <1>4, <1>5, <1>6 DEF Next

LEMMA AlwaysCoherent == Spec => []Coherent
BY InitCoherent, NextCoherent, PTL DEF Spec
-----------------------------------------------------------------------------
(* The theorems                                                             *)

(* Every variable keeps its type, and no call handles more events than the  *)
(* stream holds.                                                            *)
THEOREM SimulationTypes == Spec => []TypeOK
<1>1. Coherent => TypeOK
  BY DEF Coherent
<1>. QED BY <1>1, AlwaysCoherent, PTL

(* However many pending intents there are, over partial fills, misses,      *)
(* rejections and checkpoints no unit of an accepted intent is lost or      *)
(* filled twice (evaluate_fill, _evaluate_pending).                         *)
THEOREM UnitsAreAccounted == Spec => []IntentsAreAccounted
<1>1. Coherent => IntentsAreAccounted
  BY DEF Coherent
<1>. QED BY <1>1, AlwaysCoherent, PTL

(* All intents together take no more of a bar than its participation limit  *)
(* (BarFillModel.remaining).                                                *)
THEOREM VolumeIsShared == Spec => []BarVolumeIsShared
<1>1. Coherent => BarVolumeIsShared
  BY DEF Coherent
<1>. QED BY <1>1, AlwaysCoherent, PTL

(* The accounts balance exactly after every event, as long as no instrument *)
(* is redefined while it is held: whatever the rounding does, what does not *)
(* assert conservation does not disturb it.                                 *)
THEOREM AccountsBalance == Spec => []BooksBalance
<1>1. Coherent => BooksBalance
  BY DEF Coherent, BalanceIsKept, Balanced, BooksBalance
<1>. QED BY <1>1, AlwaysCoherent, PTL

(* So a checkpoint that was saved always loads: the assertion with which    *)
(* from_state ends holds of it.                                             *)
CheckpointsLoad == status = "idle" /\ ~ redefined => Import(saved).portfolio.conserved

THEOREM CheckpointsAreLoaded == Spec => []CheckpointsLoad
<1>1. ASSUME Coherent PROVE CheckpointsLoad
  <2>1. SUFFICES ASSUME status = "idle", ~ redefined
                 PROVE  Import(saved).portfolio.conserved
    BY DEF CheckpointsLoad
  <2>2. saved \in BookState /\ saved.portfolio.conserved /\ Balanced(saved.portfolio)
    BY <1>1, <2>1 DEF Coherent, TypeOK, CheckpointIsHeld, WorkerIsConserved, BalanceIsKept
  <2>3. saved.portfolio \in Portfolio
    BY <2>2 DEF BookState
  <2>4. Asserted(saved.portfolio).conserved
    BY <2>2, <2>3, AssertedFacts DEF Balanced
  <2>. QED BY <2>2, <2>4, ImportFacts
<1>. QED BY <1>1, AlwaysCoherent, PTL

(* An intent is only accepted while the equity is less than max_daily_loss  *)
(* below what the UTC day began with, however many batches and checkpoints  *)
(* the day is cut into, and although the policy subtracts with rounding     *)
(* (VersionedRiskPolicy.allow, AccountingPortfolio.begin_event).            *)
THEOREM LossIsLimited == Spec => LossLimitSpansTheDay
<1>. DEFINE Limited == DOMAIN accepted' # DOMAIN accepted =>
                         opened' - Equity(book'.portfolio) < MaxDailyLoss
<1>1. ASSUME Coherent, NEW e \in Events[config.model], NEW time \in {book.time, book.time + 1},
             NEW proposed \in Proposals[config.model], Observe(e, time, proposed)
      PROVE  Limited
  <2>. DEFINE new == Names(Handled(book, e, time, proposed).entered)
  <2>1. Ids' = Ids \cup new
    BY <1>1, ObserveTotals
  <2>2. /\ new # {} => book'.portfolio.dayStart - Equity(book'.portfolio) < MaxDailyLoss
        /\ book'.offset = book.offset + 1 /\ book.offset < MaxEvents
    BY <1>1, ObserveFacts
  <2>3. book'.portfolio.dayStart = opened'
    <3>1. Coherent'
      BY <1>1, ObserveCoherent
    <3>2. book.offset \in 0..MaxEvents
      BY <1>1 DEF Coherent, TypeOK, BookState
    <3>3. book'.offset # 0
      BY <2>2, <3>2, SimulationAssumption
    <3>. QED BY <3>1, <3>3 DEF Coherent, DayIsOpened
  <2>. HIDE DEF new
  <2>. QED BY <2>1, <2>2, <2>3 DEF Ids
<1>2. ASSUME Coherent, [Next]_simulationVars PROVE [Limited]_simulationVars
  <2>1. CASE \E e \in Events[config.model], time \in {book.time, book.time + 1},
                proposed \in Proposals[config.model] : Observe(e, time, proposed)
    BY <1>1, <1>2, <2>1
  <2>2. CASE BeginBatch \/ Raise \/ SaveCheckpoint \/ EndReplay
    BY <2>2 DEF BeginBatch, Raise, SaveCheckpoint, EndReplay, outcomes
  <2>. QED BY <1>2, <2>1, <2>2 DEF Next
<1>. QED BY <1>2, AlwaysCoherent, PTL DEF Spec, LossLimitSpansTheDay
=============================================================================
