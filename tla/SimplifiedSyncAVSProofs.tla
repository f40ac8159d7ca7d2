----------------------- MODULE SimplifiedSyncAVSProofs -----------------------
(***************************************************************************)
(* Proofs about the AVS service manager, for any operators, pools, answers *)
(* and parameters.                                                         *)
(***************************************************************************)
EXTENDS SimplifiedSyncAVS, FiniteSetTheorems, TLAPS

-----------------------------------------------------------------------------
(* Sums over the five chains *)

\* The term of chain i.
Term(D, f, i) == IF i \in D THEN f[i] ELSE 0

\* The sum is that of five numbers, of which those off the domain are zero.
LEMMA SumTerms ==
    ASSUME NEW D \in SUBSET (1 .. 5), NEW f \in [D -> Nat]
    PROVE  /\ SumOfFive(f) = Term(D, f, 1) + Term(D, f, 2) + Term(D, f, 3)
                                + Term(D, f, 4) + Term(D, f, 5)
           /\ Term(D, f, 1) \in Nat /\ Term(D, f, 2) \in Nat /\ Term(D, f, 3) \in Nat
           /\ Term(D, f, 4) \in Nat /\ Term(D, f, 5) \in Nat
           /\ \A c \in D : c \in {1, 2, 3, 4, 5} /\ f[c] = Term(D, f, c)
<1>1. DOMAIN f = D
  OBVIOUS
<1>2. SumOfFive(f) = Term(D, f, 1) + Term(D, f, 2) + Term(D, f, 3)
                        + Term(D, f, 4) + Term(D, f, 5)
  BY <1>1, Zenon DEF SumOfFive, Term
<1>3. \A i : Term(D, f, i) \in Nat
  BY DEF Term
<1>4. \A c \in D : c \in {1, 2, 3, 4, 5} /\ f[c] = Term(D, f, c)
  BY DEF Term
<1> QED BY <1>2, <1>3, <1>4

\* A sum of naturals is a natural that no term exceeds.
LEMMA SumNat ==
    ASSUME NEW D \in SUBSET (1 .. 5), NEW f \in [D -> Nat]
    PROVE  /\ SumOfFive(f) \in Nat
           /\ \A c \in D : f[c] <= SumOfFive(f)
           /\ (\A c \in D : f[c] = 0) => SumOfFive(f) = 0
<1>1. ASSUME NEW c \in D PROVE f[c] <= SumOfFive(f)
  <2>1. /\ c = 1 \/ c = 2 \/ c = 3 \/ c = 4 \/ c = 5
        /\ f[c] = Term(D, f, c)
    BY SumTerms
  <2> QED BY <2>1, SumTerms
<1>2. ASSUME \A c \in D : f[c] = 0 PROVE SumOfFive(f) = 0
  <2>1. \A i : Term(D, f, i) = 0
    BY <1>2 DEF Term
  <2> QED BY <2>1, SumTerms
<1> QED BY <1>1, <1>2, SumTerms

\* Terms that are at most, or at least, k times others have a sum that is.
LEMMA SumScaled ==
    ASSUME NEW D \in SUBSET (1 .. 5), NEW f \in [D -> Nat], NEW g \in [D -> Nat], NEW k \in Nat
    PROVE  /\ (\A c \in D : f[c] <= k * g[c]) => SumOfFive(f) <= k * SumOfFive(g)
           /\ (\A c \in D : f[c] >= k * g[c]) => SumOfFive(f) >= k * SumOfFive(g)
<1>f1. PICK t1 \in Nat : t1 = Term(D, f, 1)
  BY SumTerms
<1>f2. PICK t2 \in Nat : t2 = Term(D, f, 2)
  BY SumTerms
<1>f3. PICK t3 \in Nat : t3 = Term(D, f, 3)
  BY SumTerms
<1>f4. PICK t4 \in Nat : t4 = Term(D, f, 4)
  BY SumTerms
<1>f5. PICK t5 \in Nat : t5 = Term(D, f, 5)
  BY SumTerms
<1>g1. PICK u1 \in Nat : u1 = Term(D, g, 1)
  BY SumTerms
<1>g2. PICK u2 \in Nat : u2 = Term(D, g, 2)
  BY SumTerms
<1>g3. PICK u3 \in Nat : u3 = Term(D, g, 3)
  BY SumTerms
<1>g4. PICK u4 \in Nat : u4 = Term(D, g, 4)
  BY SumTerms
<1>g5. PICK u5 \in Nat : u5 = Term(D, g, 5)
  BY SumTerms
<1>1. /\ SumOfFive(f) = t1 + t2 + t3 + t4 + t5
      /\ SumOfFive(g) = u1 + u2 + u3 + u4 + u5
  BY <1>f1, <1>f2, <1>f3, <1>f4, <1>f5, <1>g1, <1>g2, <1>g3, <1>g4, <1>g5, SumTerms
<1>2. k * SumOfFive(g) = k * u1 + k * u2 + k * u3 + k * u4 + k * u5
  BY <1>1
<1>3. PICK w1 \in Nat, w2 \in Nat, w3 \in Nat, w4 \in Nat, w5 \in Nat :
         w1 = k * u1 /\ w2 = k * u2 /\ w3 = k * u3 /\ w4 = k * u4 /\ w5 = k * u5
  OBVIOUS
<1>4. k * 0 = 0 /\ 0 <= 0 /\ 0 >= 0
  OBVIOUS
<1>5. ASSUME \A c \in D : f[c] <= k * g[c] PROVE SumOfFive(f) <= k * SumOfFive(g)
  <2>1. ASSUME NEW i PROVE Term(D, f, i) <= k * Term(D, g, i)
    <3>1. CASE i \in D
      BY <1>5, <3>1 DEF Term
    <3>2. CASE i \notin D
      BY <1>4, <3>2 DEF Term
    <3> QED BY <3>1, <3>2
  <2>2. t1 <= w1 /\ t2 <= w2 /\ t3 <= w3 /\ t4 <= w4 /\ t5 <= w5
    BY <1>f1, <1>f2, <1>f3, <1>f4, <1>f5, <1>g1, <1>g2, <1>g3, <1>g4, <1>g5, <1>3, <2>1
  <2>3. t1 + t2 + t3 + t4 + t5 <= w1 + w2 + w3 + w4 + w5
    BY <2>2
  <2> QED BY <1>1, <1>2, <1>3, <2>3
<1>6. ASSUME \A c \in D : f[c] >= k * g[c] PROVE SumOfFive(f) >= k * SumOfFive(g)
  <2>1. ASSUME NEW i PROVE Term(D, f, i) >= k * Term(D, g, i)
    <3>1. CASE i \in D
      BY <1>6, <3>1 DEF Term
    <3>2. CASE i \notin D
      BY <1>4, <3>2 DEF Term
    <3> QED BY <3>1, <3>2
  <2>2. t1 >= w1 /\ t2 >= w2 /\ t3 >= w3 /\ t4 >= w4 /\ t5 >= w5
    BY <1>f1, <1>f2, <1>f3, <1>f4, <1>f5, <1>g1, <1>g2, <1>g3, <1>g4, <1>g5, <1>3, <2>1
  <2>3. t1 + t2 + t3 + t4 + t5 >= w1 + w2 + w3 + w4 + w5
    BY <2>2
  <2> QED BY <1>1, <1>2, <1>3, <2>3
<1> QED BY <1>5, <1>6

-----------------------------------------------------------------------------
(* The metrics of a pool *)

\* What a pool's mapping of chain states can hold.
States == [Chains -> PoolStates \cup {NoPoolState}]

\* The fields of a chain state are numbers.
LEMMA StateNumbers ==
    ASSUME NEW states \in States, NEW c \in Chains
    PROVE  /\ states[c].totalLiquidity \in Nat
           /\ states[c].price \in Nat
           /\ states[c].timestamp \in Nat
<1>1. states[c] \in PoolStates \cup {NoPoolState}
  BY DEF States
<1>2. CASE states[c] \in PoolStates
  BY <1>2, AVSAssumption
<1>3. CASE states[c] = NoPoolState
  BY <1>3 DEF NoPoolState
<1> QED BY <1>1, <1>2, <1>3

\* The chains that are counted, and the numbers that the first loop adds up.
LEMMA LiveLemma ==
    ASSUME NEW states \in States
    PROVE  /\ LiveChains(states) \in SUBSET (1 .. 5) /\ LiveChains(states) \subseteq Chains
           /\ IsFiniteSet(LiveChains(states)) /\ Cardinality(LiveChains(states)) \in Nat
           /\ LiveChains(states) # {} => Cardinality(LiveChains(states)) > 0
           /\ [c \in LiveChains(states) |-> states[c].totalLiquidity]
                  \in [LiveChains(states) -> Nat]
           /\ [c \in LiveChains(states) |-> states[c].price * states[c].totalLiquidity]
                  \in [LiveChains(states) -> Nat]
           /\ TotalOf(states) \in Nat /\ WeightedOf(states) \in Nat
<1>1. LiveChains(states) \in SUBSET (1 .. 5) /\ LiveChains(states) \subseteq Chains
  BY DEF LiveChains
<1>2. IsFiniteSet(LiveChains(states)) /\ Cardinality(LiveChains(states)) \in Nat
  <2>1. IsFiniteSet(1 .. 5)
    <3>1. PICK n \in Nat : n = 5
      OBVIOUS
    <3>2. IsFiniteSet(1 .. n)
      BY FS_Interval
    <3> QED BY <3>1, <3>2
  <2> QED BY <1>1, <2>1, FS_Subset, FS_CardinalityType
<1>3. LiveChains(states) # {} => Cardinality(LiveChains(states)) > 0
  BY <1>2, FS_EmptySet
<1>4. [c \in LiveChains(states) |-> states[c].totalLiquidity] \in [LiveChains(states) -> Nat]
  BY <1>1, StateNumbers
<1>5. ASSUME NEW c \in LiveChains(states)
      PROVE  states[c].price * states[c].totalLiquidity \in Nat
  <2>1. states[c].price \in Nat /\ states[c].totalLiquidity \in Nat
    BY <1>1, StateNumbers
  <2> QED BY <2>1
<1>6. [c \in LiveChains(states) |-> states[c].price * states[c].totalLiquidity]
          \in [LiveChains(states) -> Nat]
  BY <1>5
<1> QED BY <1>1, <1>2, <1>3, <1>4, <1>6, SumNat DEF TotalOf, WeightedOf

\* The imbalance of one chain is a number, and the next number is too large.
LEMMA ImbalanceLemma ==
    ASSUME NEW actual \in Nat, NEW expected \in Nat
    PROVE  /\ calculateImbalance(actual, expected) \in Nat
           /\ expected > 0 =>
                /\ (actual - expected) * PERCENTAGE_PRECISION
                      < (calculateImbalance(actual, expected) + 1) * expected
                /\ (expected - actual) * PERCENTAGE_PRECISION
                      < (calculateImbalance(actual, expected) + 1) * expected
                /\ \/ calculateImbalance(actual, expected) * expected
                         <= (actual - expected) * PERCENTAGE_PRECISION
                   \/ calculateImbalance(actual, expected) * expected
                         <= (expected - actual) * PERCENTAGE_PRECISION
<1>1. PICK diff \in Nat : /\ diff = Max({actual - expected, expected - actual})
                          /\ diff >= actual - expected /\ diff >= expected - actual
                          /\ diff = actual - expected \/ diff = expected - actual
  <2>1. CASE actual >= expected
    <3>1. Max({actual - expected, expected - actual}) = actual - expected
      BY <2>1 DEF Max
    <3> QED BY <2>1, <3>1
  <2>2. CASE actual < expected
    <3>1. Max({actual - expected, expected - actual}) = expected - actual
      BY <2>2 DEF Max
    <3> QED BY <2>2, <3>1
  <2> QED BY <2>1, <2>2
<1>2. CASE expected = 0
  BY <1>2 DEF calculateImbalance
<1>3. CASE expected > 0
  <2>1. PICK scaled \in Nat : scaled = diff * PERCENTAGE_PRECISION
    BY AVSAssumption
  <2>2. calculateImbalance(actual, expected) = scaled \div expected
    BY <1>1, <1>3, <2>1 DEF calculateImbalance
  <2>3. PICK q \in Nat : q = scaled \div expected
    BY <1>3
  <2>4. scaled < (q + 1) * expected
    BY <1>3, <2>3
  <2>5. /\ (actual - expected) * PERCENTAGE_PRECISION <= scaled
        /\ (expected - actual) * PERCENTAGE_PRECISION <= scaled
    BY <1>1, <2>1, AVSAssumption
  <2>6. /\ (actual - expected) * PERCENTAGE_PRECISION \in Int
        /\ (expected - actual) * PERCENTAGE_PRECISION \in Int
        /\ (q + 1) * expected \in Int
    BY AVSAssumption
  <2>7. q * expected <= scaled
    BY <1>3, <2>3
  <2>8. \/ scaled = (actual - expected) * PERCENTAGE_PRECISION
        \/ scaled = (expected - actual) * PERCENTAGE_PRECISION
    BY <1>1, <2>1
  <2>9. \/ q * expected <= (actual - expected) * PERCENTAGE_PRECISION
        \/ q * expected <= (expected - actual) * PERCENTAGE_PRECISION
    BY <2>7, <2>8
  <2> QED BY <2>2, <2>3, <2>4, <2>5, <2>6, <2>9
<1> QED BY <1>2, <1>3

\* The larger of two numbers.
LEMMA Larger == ASSUME NEW a \in Nat, NEW b \in Nat
                PROVE  \E m \in Nat : m >= a /\ m >= b /\ (m = a \/ m = b)
OBVIOUS

\* Five numbers have a largest.
LEMMA LargestOfFive ==
    ASSUME NEW D \in SUBSET (1 .. 5), NEW f \in [D -> Nat]
    PROVE  \E m \in {0} \cup {f[c] : c \in D} :
              m \in Nat /\ m >= 0 /\ \A c \in D : m >= f[c]
<1> DEFINE S == {0} \cup {f[c] : c \in D}
<1>1. \A i : Term(D, f, i) \in S /\ Term(D, f, i) \in Nat
  BY DEF Term
<1>2. \A c \in D : c \in {1, 2, 3, 4, 5} /\ f[c] = Term(D, f, c)
  BY SumTerms
<1> HIDE DEF S
<1>4. PICK a \in Nat : a >= Term(D, f, 1) /\ a >= Term(D, f, 2) /\ (a = Term(D, f, 1) \/ a = Term(D, f, 2))
  BY <1>1, Larger
<1>5. PICK b \in Nat : b >= a /\ b >= Term(D, f, 3) /\ (b = a \/ b = Term(D, f, 3))
  BY <1>1, Larger
<1>6. PICK d \in Nat : d >= b /\ d >= Term(D, f, 4) /\ (d = b \/ d = Term(D, f, 4))
  BY <1>1, Larger
<1>7. PICK e \in Nat : e >= d /\ e >= Term(D, f, 5) /\ (e = d \/ e = Term(D, f, 5))
  BY <1>1, Larger
<1>8. e \in S
  BY <1>1, <1>4, <1>5, <1>6, <1>7
<1>9. /\ e >= Term(D, f, 1) /\ e >= Term(D, f, 2) /\ e >= Term(D, f, 3)
      /\ e >= Term(D, f, 4) /\ e >= Term(D, f, 5)
  BY <1>1, <1>4, <1>5, <1>6, <1>7
<1>10. \A c \in D : e >= f[c]
  BY <1>2, <1>9
<1> QED BY <1>8, <1>10 DEF S

\* The largest of the imbalances is one of them.
LEMMA MaxImbalanceLemma ==
    ASSUME NEW states \in States, TotalOf(states) > 0,
           NEW expected, expected = TotalOf(states) \div Cardinality(LiveChains(states))
    PROVE  /\ expected \in Nat
           /\ Max(ImbalancesOf(states)) \in Nat
           /\ \A c \in LiveChains(states) :
                 calculateImbalance(states[c].totalLiquidity, expected)
                     <= Max(ImbalancesOf(states))
           /\ \E c \in LiveChains(states) :
                 calculateImbalance(states[c].totalLiquidity, expected)
                     = Max(ImbalancesOf(states))
<1>1. LiveChains(states) # {}
  <2> SUFFICES ASSUME LiveChains(states) = {} PROVE TotalOf(states) = 0
    OBVIOUS
  <2> QED BY LiveLemma, SumNat DEF TotalOf
<1>2. expected \in Nat
  <2>1. PICK total \in Nat, n \in Nat : /\ total = TotalOf(states)
                                        /\ n = Cardinality(LiveChains(states)) /\ n > 0
    BY <1>1, LiveLemma
  <2> QED BY <2>1
<1>3. PICK f : f = [c \in LiveChains(states) |->
                       calculateImbalance(states[c].totalLiquidity, expected)]
  OBVIOUS
<1>4. f \in [LiveChains(states) -> Nat]
  BY <1>2, <1>3, LiveLemma, StateNumbers, ImbalanceLemma
<1>5. PICK m \in {0} \cup {f[c] : c \in LiveChains(states)} :
         m \in Nat /\ m >= 0 /\ \A c \in LiveChains(states) : m >= f[c]
  BY <1>4, LiveLemma, LargestOfFive
<1>6. ImbalancesOf(states) = {0} \cup {f[c] : c \in LiveChains(states)}
  BY <1>3 DEF ImbalancesOf
<1>7. m \in ImbalancesOf(states) /\ \A y \in ImbalancesOf(states) : m >= y
  BY <1>5, <1>6
<1>8. /\ Max(ImbalancesOf(states)) \in ImbalancesOf(states)
      /\ \A y \in ImbalancesOf(states) : Max(ImbalancesOf(states)) >= y
  BY <1>7 DEF Max
<1>9. ImbalancesOf(states) \subseteq Nat
  BY <1>4, <1>6
<1>10. \A c \in LiveChains(states) : f[c] \in ImbalancesOf(states)
  BY <1>6
<1>11. PICK x \in Nat : x = Max(ImbalancesOf(states))
  BY <1>8, <1>9
<1>12. \A c \in LiveChains(states) : f[c] <= x
  BY <1>4, <1>8, <1>10, <1>11
<1>13. \E c \in LiveChains(states) : f[c] = x
  <2>1. CASE x = 0
    BY <1>1, <1>4, <1>12, <2>1
  <2>2. CASE x # 0
    BY <1>6, <1>8, <1>11, <2>2
  <2> QED BY <2>1, <2>2
<1> QED BY <1>2, <1>3, <1>11, <1>12, <1>13

\* The metrics that _recalculateAggregatedMetrics leaves: numbers, a total that
\* covers every chain and an average between the prices of the chains that
\* have liquidity.
LEMMA AverageLemma ==
    ASSUME NEW states \in States, NEW m, m = recalculateAggregatedMetrics(states),
           NEW priced, priced = {c \in LiveChains(states) : states[c].totalLiquidity > 0}
    PROVE  /\ m.totalLiquidity = TotalOf(states)
           /\ m.totalLiquidity \in Nat /\ m.weightedAveragePrice \in Nat
           /\ priced = {} => m.totalLiquidity = 0 /\ m.weightedAveragePrice = 0
           /\ priced # {} =>
                /\ \E c \in priced : states[c].price <= m.weightedAveragePrice
                /\ \E c \in priced : states[c].price >= m.weightedAveragePrice
                /\ \A c \in priced : states[c].totalLiquidity <= m.totalLiquidity
<1>1. PICK live : live = LiveChains(states)
  OBVIOUS
<1>2. PICK f : f = [c \in live |-> states[c].price * states[c].totalLiquidity]
  OBVIOUS
<1>3. PICK g : g = [c \in live |-> states[c].totalLiquidity]
  OBVIOUS
<1>4. live \in SUBSET (1 .. 5) /\ f \in [live -> Nat] /\ g \in [live -> Nat]
  BY <1>1, <1>2, <1>3, LiveLemma
<1>5. PICK T \in Nat : T = TotalOf(states) /\ T = SumOfFive(g)
  BY <1>1, <1>3, LiveLemma DEF TotalOf
<1>6. PICK W \in Nat : W = WeightedOf(states) /\ W = SumOfFive(f)
  BY <1>1, <1>2, LiveLemma DEF WeightedOf
<1>7. \A c \in live : /\ states[c].price \in Nat /\ states[c].totalLiquidity \in Nat
                      /\ f[c] = states[c].price * states[c].totalLiquidity
                      /\ g[c] = states[c].totalLiquidity
  BY <1>1, <1>2, <1>3, LiveLemma, StateNumbers
<1>8. CASE priced = {}
  <2>1. \A c \in live : g[c] = 0 /\ f[c] = 0
    <3> SUFFICES ASSUME NEW c \in live PROVE g[c] = 0 /\ f[c] = 0
      OBVIOUS
    <3>1. states[c].totalLiquidity = 0
      BY <1>1, <1>7, <1>8
    <3> QED BY <1>7, <3>1
  <2>2. T = 0 /\ W = 0
    BY <1>4, <1>5, <1>6, <2>1, SumNat
  <2> QED BY <1>5, <1>6, <1>8, <2>2 DEF recalculateAggregatedMetrics
<1>9. CASE priced # {}
  <2>1. PICK p \in priced : TRUE
    BY <1>9
  <2>2. priced \subseteq live
    BY <1>1
  <2>3. \A c \in priced : states[c].totalLiquidity <= T
    BY <1>4, <1>5, <1>7, <2>2, SumNat
  <2>4. states[p].totalLiquidity \in Nat /\ states[p].totalLiquidity > 0
    BY <1>7, <2>2
  <2>5. T > 0
    BY <2>1, <2>3, <2>4
  <2>6. PICK A \in Nat : A = W \div T
    BY <2>5
  <2>7. A * T <= W /\ W < (A + 1) * T
    BY <2>5, <2>6
  <2>8. m.totalLiquidity = T /\ m.weightedAveragePrice = A
    BY <1>5, <1>6, <2>5, <2>6 DEF recalculateAggregatedMetrics
  <2>9. \E c \in priced : states[c].price <= A
    <3> SUFFICES ASSUME \A c \in priced : ~(states[c].price <= A) PROVE FALSE
      OBVIOUS
    <3>0. PICK k \in Nat : k = A + 1
      OBVIOUS
    <3>1. ASSUME NEW c \in live PROVE f[c] >= k * g[c]
      <4>1. PICK x \in Nat, l \in Nat : x = states[c].price /\ l = states[c].totalLiquidity
        BY <1>7
      <4>2. CASE l = 0
        <5>1. x * l = 0 /\ k * l = 0
          BY <4>2
        <5> QED BY <1>7, <4>1, <5>1
      <4>3. CASE l > 0
        <5>1. x >= k
          BY <1>1, <3>0, <4>1, <4>3
        <5>2. x * l >= k * l
          BY <5>1
        <5> QED BY <1>7, <4>1, <5>2
      <4> QED BY <4>2, <4>3
    <3>2. W >= k * T
      BY <1>4, <1>5, <1>6, <3>1, SumScaled
    <3>3. k * T \in Nat /\ W < k * T
      BY <2>7, <3>0
    <3> QED BY <3>2, <3>3
  <2>10. \E c \in priced : states[c].price >= A
    <3> SUFFICES ASSUME \A c \in priced : ~(states[c].price >= A) PROVE FALSE
      OBVIOUS
    <3>1. PICK x \in Nat : x = states[p].price /\ ~(x >= A)
      BY <1>7, <2>2
    <3>2. PICK B \in Nat : A = B + 1
      BY <3>1
    <3>3. ASSUME NEW c \in live PROVE f[c] <= B * g[c]
      <4>1. PICK y \in Nat, l \in Nat : y = states[c].price /\ l = states[c].totalLiquidity
        BY <1>7
      <4>2. CASE l = 0
        <5>1. y * l = 0 /\ B * l = 0
          BY <4>2
        <5> QED BY <1>7, <4>1, <5>1
      <4>3. CASE l > 0
        <5>1. y <= B
          BY <1>1, <3>2, <4>1, <4>3
        <5>2. y * l <= B * l
          BY <5>1
        <5> QED BY <1>7, <4>1, <5>2
      <4> QED BY <4>2, <4>3
    <3>4. W <= B * T
      BY <1>4, <1>5, <1>6, <3>3, SumScaled
    <3>5. A * T = B * T + T /\ B * T \in Nat
      BY <3>2
    <3> QED BY <2>5, <2>7, <3>4, <3>5
  <2> QED BY <1>5, <1>9, <2>3, <2>8, <2>9, <2>10
<1> QED BY <1>8, <1>9

\* The imbalance that _recalculateAggregatedMetrics leaves is that of the
\* furthest chain.
LEMMA WorstLemma ==
    ASSUME NEW states \in States, NEW m, m = recalculateAggregatedMetrics(states),
           NEW expected, expected = m.totalLiquidity \div Cardinality(LiveChains(states))
    PROVE  /\ m.maxImbalance \in Nat
           /\ m.totalLiquidity > 0 /\ expected > 0 =>
                 /\ \A c \in LiveChains(states) :
                       /\ (states[c].totalLiquidity - expected) * PERCENTAGE_PRECISION
                             < (m.maxImbalance + 1) * expected
                       /\ (expected - states[c].totalLiquidity) * PERCENTAGE_PRECISION
                             < (m.maxImbalance + 1) * expected
                 /\ \E c \in LiveChains(states) :
                       \/ m.maxImbalance * expected
                             <= (states[c].totalLiquidity - expected) * PERCENTAGE_PRECISION
                       \/ m.maxImbalance * expected
                             <= (expected - states[c].totalLiquidity) * PERCENTAGE_PRECISION
<1>1. m.totalLiquidity = TotalOf(states) /\ TotalOf(states) \in Nat
  BY AverageLemma
<1>2. CASE ~(TotalOf(states) > 0)
  <2>1. m.maxImbalance = 0
    BY <1>2 DEF recalculateAggregatedMetrics
  <2> QED BY <1>1, <1>2, <2>1
<1>3. CASE TotalOf(states) > 0
  <2>1. m.maxImbalance = Max(ImbalancesOf(states))
    BY <1>3 DEF recalculateAggregatedMetrics
  <2>2. expected = TotalOf(states) \div Cardinality(LiveChains(states))
    BY <1>1
  <2>3. expected \in Nat /\ m.maxImbalance \in Nat
    BY <1>3, <2>1, <2>2, MaxImbalanceLemma
  <2>4. ASSUME expected > 0, NEW c \in LiveChains(states)
        PROVE  /\ (states[c].totalLiquidity - expected) * PERCENTAGE_PRECISION
                      < (m.maxImbalance + 1) * expected
               /\ (expected - states[c].totalLiquidity) * PERCENTAGE_PRECISION
                      < (m.maxImbalance + 1) * expected
    <3>1. PICK l \in Nat : l = states[c].totalLiquidity
      BY LiveLemma, StateNumbers
    <3>2. PICK i \in Nat : i = calculateImbalance(l, expected)
      BY <2>3, ImbalanceLemma
    <3>3. PICK x \in Nat : x = m.maxImbalance
      BY <2>3
    <3>4. i <= x
      BY <1>3, <2>1, <2>2, <3>1, <3>2, <3>3, MaxImbalanceLemma
    <3>5. /\ (l - expected) * PERCENTAGE_PRECISION < (i + 1) * expected
          /\ (expected - l) * PERCENTAGE_PRECISION < (i + 1) * expected
      BY <2>3, <2>4, <3>2, ImbalanceLemma
    <3>6. (i + 1) * expected <= (x + 1) * expected
      BY <2>3, <3>4
    <3>7. PICK a \in Int, b \in Int, d \in Int, e \in Int :
             /\ a = (l - expected) * PERCENTAGE_PRECISION
             /\ b = (expected - l) * PERCENTAGE_PRECISION
             /\ d = (i + 1) * expected /\ e = (x + 1) * expected
      BY <2>3, AVSAssumption
    <3>8. a < e /\ b < e
      BY <3>5, <3>6, <3>7
    <3> QED BY <3>1, <3>3, <3>7, <3>8
  <2>5. ASSUME expected > 0
        PROVE  \E c \in LiveChains(states) :
                  \/ m.maxImbalance * expected
                        <= (states[c].totalLiquidity - expected) * PERCENTAGE_PRECISION
                  \/ m.maxImbalance * expected
                        <= (expected - states[c].totalLiquidity) * PERCENTAGE_PRECISION
    <3>1. PICK c \in LiveChains(states) :
             calculateImbalance(states[c].totalLiquidity, expected) = m.maxImbalance
      BY <1>3, <2>1, <2>2, MaxImbalanceLemma
    <3>2. states[c].totalLiquidity \in Nat
      BY LiveLemma, StateNumbers
    <3> QED BY <2>3, <2>5, <3>1, <3>2, ImbalanceLemma
  <2> QED BY <2>3, <2>4, <2>5
<1> QED BY <1>1, <1>2, <1>3

-----------------------------------------------------------------------------
(* The invariant *)

\* The records of the mappings.
Info    == [stakeAmount : Nat, isRegistered : BOOLEAN, taskResponseCount : Nat,
            slashingCount : Nat]
Metrics == [totalLiquidity : Nat, weightedAveragePrice : Nat, maxImbalance : Nat]
Entry   == [deadline : Nat, status : {"PENDING", "COMPLETED", "EXPIRED"}]

\* The stored metrics of a pool are what its stored chain states give.
MetricsFollow ==
    \A p \in Pools : aggregatedMetrics[p] = recalculateAggregatedMetrics(chainStates[p])

\* The tasks that o has an accepted answer for.
Answered(o) == {t \in Tasks : <<t, o>> \in taskResponses}

IInv == TypeOK /\ MetricsFollow /\ CreditOncePerTask

\* A task is one of finitely many.
LEMMA AnsweredFinite ==
    ASSUME NEW S \in SUBSET Tasks PROVE IsFiniteSet(S) /\ Cardinality(S) \in Nat
<1>1. IsFiniteSet(Tasks)
  BY FS_Interval, AVSAssumption DEF Tasks
<1> QED BY <1>1, FS_Subset, FS_CardinalityType

\* The metrics of any chain states are metrics.
LEMMA MetricsType ==
    ASSUME NEW states \in States PROVE recalculateAggregatedMetrics(states) \in Metrics
<1>1. PICK m : m = recalculateAggregatedMetrics(states)
  OBVIOUS
<1>2. m.totalLiquidity \in Nat /\ m.weightedAveragePrice \in Nat
  BY <1>1, AverageLemma
<1>3. m.maxImbalance \in Nat
  BY <1>1, WorstLemma
<1>4. m = [totalLiquidity |-> m.totalLiquidity,
           weightedAveragePrice |-> m.weightedAveragePrice,
           maxImbalance |-> m.maxImbalance]
  BY <1>1 DEF recalculateAggregatedMetrics
<1> QED BY <1>1, <1>2, <1>3, <1>4 DEF Metrics

\* The constructor's state: the metrics of an unknown pool are those of five
\* empty chains.
LEMMA InitLemma == Init => IInv
<1> SUFFICES ASSUME Init PROVE IInv
  OBVIOUS
<1>1. TypeOK
  <2>1. NoOperator \in Info /\ NoMetrics \in Metrics /\ NoRequest \in Entry
    BY DEF NoOperator, Info, NoMetrics, Metrics, NoRequest, Entry
  <2>2. /\ operatorInfo \in [Operators -> Info] /\ rebalancingTasks \in [RequestIds -> Entry]
        /\ chainStates \in [Pools -> States] /\ aggregatedMetrics \in [Pools -> Metrics]
    BY <2>1 DEF Init, States
  <2>3. /\ now \in Nat /\ latestTaskNum \in 0 .. MaxTasks /\ taskDeadline \in [Tasks -> Nat]
        /\ taskResponses \subseteq Tasks \X Operators
        /\ slashingPenaltyRate \in Nat /\ maxSlashingPenalty \in Nat
    BY AVSAssumption DEF Init
  <2>4. paused \in BOOLEAN
    BY Zenon DEF Init
  <2> QED BY <2>2, <2>3, <2>4 DEF TypeOK, Info, Metrics, Entry, States
<1>2. MetricsFollow
  <2> SUFFICES ASSUME NEW p \in Pools
               PROVE  NoMetrics = recalculateAggregatedMetrics([c \in Chains |-> NoPoolState])
    BY DEF Init, MetricsFollow
  <2>1. PICK states : states = [c \in Chains |-> NoPoolState]
    OBVIOUS
  <2>2. states \in States
    BY <2>1 DEF States
  <2>3. LiveChains(states) = {}
    BY <2>1 DEF LiveChains, NoPoolState
  <2>4. TotalOf(states) = 0
    BY <2>2, <2>3, LiveLemma, SumNat DEF TotalOf
  <2>5. WeightedOf(states) = 0
    BY <2>2, <2>3, LiveLemma, SumNat DEF WeightedOf
  <2> QED BY <2>1, <2>4, <2>5 DEF recalculateAggregatedMetrics, NoMetrics
<1>3. CreditOncePerTask
  <2> SUFFICES ASSUME NEW o \in Operators
               PROVE  operatorInfo[o].taskResponseCount <= Cardinality(Answered(o))
    BY DEF CreditOncePerTask, Answered
  <2>1. operatorInfo[o].taskResponseCount = 0
    BY DEF Init, NoOperator
  <2>2. Cardinality(Answered(o)) \in Nat
    BY AnsweredFinite DEF Answered
  <2> QED BY <2>1, <2>2
<1> QED BY <1>1, <1>2, <1>3 DEF IInv

\* A call that changes one operator's record and no answer: the credits stay
\* covered if the operator has no more of them than before.
LEMMA OneOperator ==
    ASSUME IInv, NEW o \in Operators, NEW info \in Info,
           operatorInfo' = [operatorInfo EXCEPT ![o] = info],
           info.taskResponseCount <= operatorInfo[o].taskResponseCount,
           UNCHANGED <<now, taskVars, rebalancingTasks, poolVars, paramVars, paused>>
    PROVE  IInv'
<1>1. operatorInfo \in [Operators -> Info]
  BY DEF IInv, TypeOK, Info
<1>2. /\ operatorInfo' \in [Operators -> Info] /\ operatorInfo'[o] = info
      /\ \A w \in Operators : w # o => operatorInfo'[w] = operatorInfo[w]
  BY <1>1
<1>3. TypeOK'
  BY <1>2 DEF IInv, TypeOK, Info, taskVars, poolVars, paramVars
<1>4. MetricsFollow'
  BY DEF IInv, MetricsFollow, poolVars
<1>5. CreditOncePerTask'
  <2> SUFFICES ASSUME NEW w \in Operators
               PROVE  operatorInfo'[w].taskResponseCount <= Cardinality(Answered(w))
    BY DEF CreditOncePerTask, Answered, taskVars
  <2>1. operatorInfo[w].taskResponseCount <= Cardinality(Answered(w))
    BY DEF IInv, CreditOncePerTask, Answered
  <2>2. Cardinality(Answered(w)) \in Nat
    BY AnsweredFinite DEF Answered
  <2>3. operatorInfo[w] \in Info /\ operatorInfo'[w] \in Info
    BY <1>1, <1>2
  <2>4. PICK a \in Nat, b \in Nat, n \in Nat :
           /\ a = operatorInfo[w].taskResponseCount
           /\ b = operatorInfo'[w].taskResponseCount
           /\ n = Cardinality(Answered(w))
    BY <2>2, <2>3 DEF Info
  <2>5. b <= a
    BY <1>2, <2>4
  <2> QED BY <2>1, <2>4, <2>5
<1> QED BY <1>3, <1>4, <1>5 DEF IInv

\* A call that changes neither operators nor answers nor pools.
LEMMA OthersKept ==
    ASSUME IInv, TypeOK', UNCHANGED <<operatorInfo, taskResponses, poolVars>>
    PROVE  IInv'
<1>1. MetricsFollow'
  BY DEF IInv, MetricsFollow, poolVars
<1>2. CreditOncePerTask'
  BY DEF IInv, CreditOncePerTask
<1> QED BY <1>1, <1>2 DEF IInv

\* An accepted answer: one more credit, one more answered task, and the pool's
\* metrics after the pool's state.
LEMMA ValidLemma ==
    ASSUME IInv, NEW t \in Tasks, NEW o \in Operators, NEW p \in Pools, NEW c \in Chains,
           NEW s \in PoolStates, respondValid(t, o, p, c, s)
    PROVE  IInv'
<1>1. /\ <<t, o>> \notin taskResponses
      /\ taskResponses' = taskResponses \cup {<<t, o>>}
      /\ operatorInfo' = [operatorInfo EXCEPT ![o].taskResponseCount = @ + 1]
      /\ UNCHANGED <<now, latestTaskNum, taskDeadline, rebalancingTasks,
                     slashingPenaltyRate, maxSlashingPenalty, paused>>
  BY DEF respondValid, MayRespond, paramVars
<1>2. PICK states : states = [chainStates[p] EXCEPT ![c] = s]
  OBVIOUS
<1>3. /\ chainStates' = [chainStates EXCEPT ![p] = states]
      /\ aggregatedMetrics' = [aggregatedMetrics EXCEPT ![p] =
                                  recalculateAggregatedMetrics(states)]
  BY <1>2 DEF respondValid, updateGlobalPoolState
<1>4. /\ operatorInfo \in [Operators -> Info] /\ chainStates \in [Pools -> States]
      /\ aggregatedMetrics \in [Pools -> Metrics] /\ taskResponses \subseteq Tasks \X Operators
  BY DEF IInv, TypeOK, Info, States, Metrics
<1>5. states \in States
  BY <1>2, <1>4 DEF States
<1>6. /\ chainStates' \in [Pools -> States] /\ aggregatedMetrics' \in [Pools -> Metrics]
      /\ chainStates'[p] = states
      /\ aggregatedMetrics'[p] = recalculateAggregatedMetrics(states)
      /\ \A q \in Pools : q # p => /\ chainStates'[q] = chainStates[q]
                                   /\ aggregatedMetrics'[q] = aggregatedMetrics[q]
  BY <1>3, <1>4, <1>5, MetricsType
<1>7. PICK info : info = [operatorInfo[o] EXCEPT !.taskResponseCount = @ + 1]
  OBVIOUS
<1>8. info \in Info /\ info.taskResponseCount = operatorInfo[o].taskResponseCount + 1
  BY <1>4, <1>7 DEF Info
<1>9. operatorInfo' = [operatorInfo EXCEPT ![o] = info]
  BY <1>1, <1>7
<1>10. /\ operatorInfo' \in [Operators -> Info] /\ operatorInfo'[o] = info
       /\ \A w \in Operators : w # o => operatorInfo'[w] = operatorInfo[w]
  BY <1>4, <1>8, <1>9
<1>11. TypeOK'
  <2>1. taskResponses' \subseteq Tasks \X Operators
    BY <1>1, <1>4
  <2> QED BY <1>1, <1>6, <1>10, <2>1 DEF IInv, TypeOK, Info, States, Metrics
<1>12. MetricsFollow'
  BY <1>6 DEF IInv, MetricsFollow
<1>13. CreditOncePerTask'
  <2> SUFFICES ASSUME NEW w \in Operators
               PROVE  operatorInfo'[w].taskResponseCount
                          <= Cardinality({x \in Tasks : <<x, w>> \in taskResponses'})
    BY DEF CreditOncePerTask
  <2>1. operatorInfo[w].taskResponseCount <= Cardinality(Answered(w))
    BY DEF IInv, CreditOncePerTask, Answered
  <2>2. Cardinality(Answered(w)) \in Nat /\ IsFiniteSet(Answered(w))
    BY AnsweredFinite DEF Answered
  <2>3. CASE w # o
    <3>1. {x \in Tasks : <<x, w>> \in taskResponses'} = Answered(w)
      BY <1>1, <2>3 DEF Answered
    <3> QED BY <1>10, <2>1, <2>3, <3>1
  <2>4. CASE w = o
    <3>1. /\ {x \in Tasks : <<x, w>> \in taskResponses'} = Answered(w) \cup {t}
          /\ t \notin Answered(w)
      BY <1>1, <2>4 DEF Answered
    <3>2. Cardinality(Answered(w) \cup {t}) = Cardinality(Answered(w)) + 1
      BY <2>2, <3>1, FS_AddElement
    <3>3. operatorInfo[w].taskResponseCount \in Nat
      BY <1>4 DEF Info
    <3>4. PICK a \in Nat, n \in Nat : /\ a = operatorInfo[w].taskResponseCount
                                     /\ n = Cardinality(Answered(w))
      BY <2>2, <3>3
    <3>5. a + 1 <= n + 1
      BY <2>1, <3>4
    <3>6. operatorInfo'[w].taskResponseCount = a + 1
      BY <1>8, <1>10, <2>4, <3>4
    <3> QED BY <3>1, <3>2, <3>4, <3>5, <3>6
  <2> QED BY <2>3, <2>4
<1> QED BY <1>11, <1>12, <1>13 DEF IInv

\* Every call preserves the invariant.
LEMMA NextLemma == IInv /\ [Next]_vars => IInv'
<1> SUFFICES ASSUME IInv, [Next]_vars PROVE IInv'
  OBVIOUS
<1>f. operatorInfo \in [Operators -> Info] /\ rebalancingTasks \in [RequestIds -> Entry]
  BY DEF IInv, TypeOK, Info, Entry
<1>1. CASE createStateUpdateTask
  <2>1. TypeOK'
    <3>1. latestTaskNum' \in 0 .. MaxTasks
      BY <1>1, AVSAssumption DEF IInv, TypeOK, createStateUpdateTask
    <3>2. taskDeadline' \in [Tasks -> Nat]
      <4>1. PICK deadline \in Nat : deadline = now + TASK_RESPONSE_WINDOW
        BY AVSAssumption DEF IInv, TypeOK
      <4>2. taskDeadline' = [taskDeadline EXCEPT ![latestTaskNum + 1] = deadline]
        BY <1>1, <4>1 DEF createStateUpdateTask
      <4> QED BY <4>1, <4>2 DEF IInv, TypeOK
    <3> QED BY <1>1, <3>1, <3>2 DEF IInv, TypeOK, createStateUpdateTask, poolVars, paramVars
  <2> QED BY <1>1, <2>1, OthersKept DEF createStateUpdateTask
<1>2. ASSUME NEW t \in Tasks, NEW o \in Operators, respondInvalid(t, o) PROVE IInv'
  <2>1. PICK info : info = handleInvalidTaskResponse(operatorInfo[o])
    OBVIOUS
  <2>2. info = [operatorInfo[o] EXCEPT !.slashingCount = @ + 1]
    BY <2>1 DEF handleInvalidTaskResponse, CallerIsOwner
  <2>3. info \in Info /\ info.taskResponseCount = operatorInfo[o].taskResponseCount
    BY <1>f, <2>2 DEF Info
  <2>4. operatorInfo[o].taskResponseCount \in Nat
    BY <1>f DEF Info
  <2>5. info.taskResponseCount <= operatorInfo[o].taskResponseCount
    BY <2>3, <2>4
  <2> QED BY <1>2, <2>1, <2>3, <2>5, OneOperator DEF respondInvalid
<1>3. ASSUME NEW r \in Routes, createRebalancingTask(r) PROVE IInv'
  <2>1. PICK entry : entry = [deadline |-> now + TASK_RESPONSE_WINDOW, status |-> "PENDING"]
    OBVIOUS
  <2>2. entry \in Entry
    BY <2>1, AVSAssumption DEF IInv, TypeOK, Entry
  <2>3. rebalancingTasks' = [rebalancingTasks EXCEPT ![<<r, now>>] = entry]
    BY <1>3, <2>1 DEF createRebalancingTask
  <2>4. rebalancingTasks' \in [RequestIds -> Entry]
    BY <1>f, <2>2, <2>3
  <2>5. TypeOK'
    BY <1>3, <2>4 DEF IInv, TypeOK, Entry, createRebalancingTask, taskVars, poolVars, paramVars
  <2> QED BY <1>3, <2>5, OthersKept DEF createRebalancingTask, taskVars
<1>4. ASSUME NEW o \in Operators, NEW r \in RequestIds, executeRebalancingTask(o, r) PROVE IInv'
  <2>1. PICK status \in {"EXPIRED", "COMPLETED"} :
           status = IF now > rebalancingTasks[r].deadline THEN "EXPIRED" ELSE "COMPLETED"
    OBVIOUS
  <2>2. PICK entry : entry = [rebalancingTasks[r] EXCEPT !.status = status]
    OBVIOUS
  <2>3. entry \in Entry
    BY <1>f, <2>2 DEF Entry
  <2>4. rebalancingTasks' = [rebalancingTasks EXCEPT ![r] = entry]
    BY <1>4, <2>1, <2>2 DEF executeRebalancingTask
  <2>5. rebalancingTasks' \in [RequestIds -> Entry]
    BY <1>f, <2>3, <2>4
  <2>6. TypeOK'
    BY <1>4, <2>5 DEF IInv, TypeOK, Entry, executeRebalancingTask, taskVars, poolVars, paramVars
  <2> QED BY <1>4, <2>6, OthersKept DEF executeRebalancingTask, taskVars
<1>5. ASSUME NEW o \in Operators, registerOperator(o) PROVE IInv'
  <2>1. NewOperator \in Info /\ NewOperator.taskResponseCount = 0
    BY AVSAssumption DEF NewOperator, Info
  <2>2. operatorInfo[o].taskResponseCount \in Nat
    BY <1>f DEF Info
  <2>3. NewOperator.taskResponseCount <= operatorInfo[o].taskResponseCount
    BY <2>1, <2>2
  <2> QED BY <1>5, <2>1, <2>3, OneOperator DEF registerOperator
<1>6. ASSUME NEW o \in Operators, deregisterOperator(o) PROVE IInv'
  <2>1. PICK info : info = [operatorInfo[o] EXCEPT !.isRegistered = FALSE]
    OBVIOUS
  <2>2. info \in Info /\ info.taskResponseCount = operatorInfo[o].taskResponseCount
    BY <1>f, <2>1 DEF Info
  <2>3. operatorInfo[o].taskResponseCount \in Nat
    BY <1>f DEF Info
  <2>4. info.taskResponseCount <= operatorInfo[o].taskResponseCount
    BY <2>2, <2>3
  <2>5. operatorInfo' = [operatorInfo EXCEPT ![o] = info]
    BY <1>6, <2>1 DEF deregisterOperator
  <2> QED BY <1>6, <2>2, <2>4, <2>5, OneOperator DEF deregisterOperator
<1>7. ASSUME NEW o \in Operators, NEW a \in 0 .. OPERATOR_STAKE_MINIMUM + 1, slashOperator(o, a)
      PROVE  IInv'
  <2>1. PICK info : info = Slashed(operatorInfo[o], a)
    OBVIOUS
  <2>2. a \in Nat /\ a <= operatorInfo[o].stakeAmount /\ operatorInfo[o].stakeAmount \in Nat
    BY <1>f, <1>7, AVSAssumption DEF slashOperator, SlashAllowed, Info
  <2>3. info \in Info /\ info.taskResponseCount = operatorInfo[o].taskResponseCount
    <3>1. PICK old \in Info : old = operatorInfo[o]
      BY <1>f
    <3>2. old.stakeAmount - a \in Nat /\ old.slashingCount + 1 \in Nat
      BY <2>2, <3>1 DEF Info
    <3>3. info = [old EXCEPT !.stakeAmount = old.stakeAmount - a,
                             !.slashingCount = old.slashingCount + 1]
      BY <2>1, <3>1 DEF Slashed
    <3> QED BY <3>1, <3>2, <3>3 DEF Info
  <2>4. operatorInfo[o].taskResponseCount \in Nat
    BY <1>f DEF Info
  <2>5. info.taskResponseCount <= operatorInfo[o].taskResponseCount
    BY <2>3, <2>4
  <2> QED BY <1>7, <2>1, <2>3, <2>5, OneOperator DEF slashOperator
<1>8. ASSUME \/ \E rate \in PenaltyRates, max \in PenaltyRates : updateSlashingParameters(rate, max)
             \/ \E b \in BOOLEAN : setPaused(b)
             \/ Tick
             \/ UNCHANGED vars
      PROVE  IInv'
  <2>1. UNCHANGED <<taskVars, rebalancingTasks, operatorInfo, poolVars>>
    BY <1>8 DEF updateSlashingParameters, setPaused, Tick, vars, taskVars, poolVars
  <2>2. /\ now' \in Nat /\ paused' \in BOOLEAN
        /\ slashingPenaltyRate' \in Nat /\ maxSlashingPenalty' \in Nat
    BY <1>8, AVSAssumption DEF updateSlashingParameters, setPaused, Tick, vars, IInv, TypeOK, paramVars
  <2>3. TypeOK'
    BY <2>1, <2>2 DEF IInv, TypeOK, taskVars, poolVars
  <2> QED BY <2>1, <2>3, OthersKept DEF taskVars
<1> QED BY <1>1, <1>2, <1>3, <1>4, <1>5, <1>6, <1>7, <1>8, ValidLemma DEF Next

\* The invariant holds in every reachable state.
THEOREM Invariance == Spec => []IInv
BY InitLemma, NextLemma, PTL DEF Spec

\* After any sequence of accepted answers a pool's stored average lies between
\* the prices of its chains that have liquidity, and its total covers each of
\* them (_updateGlobalPoolState, _recalculateAggregatedMetrics).
THEOREM MetricsTheorem == Spec => []MetricsAreCurrent
<1>1. IInv => MetricsAreCurrent
  <2> SUFFICES ASSUME IInv PROVE MetricsAreCurrent
    OBVIOUS
  <2> SUFFICES ASSUME NEW p \in Pools,
                      NEW m, m = aggregatedMetrics[p],
                      NEW priced,
                      priced = {c \in Live(p) : chainStates[p][c].totalLiquidity > 0}
               PROVE  /\ priced = {} => m.totalLiquidity = 0 /\ m.weightedAveragePrice = 0
                      /\ priced # {} =>
                           /\ \E c \in priced : chainStates[p][c].price <= m.weightedAveragePrice
                           /\ \E c \in priced : chainStates[p][c].price >= m.weightedAveragePrice
                           /\ \A c \in priced : chainStates[p][c].totalLiquidity <= m.totalLiquidity
    BY DEF MetricsAreCurrent, IInv
  <2>1. PICK states : states = chainStates[p]
    OBVIOUS
  <2>2. states \in States /\ m = recalculateAggregatedMetrics(states)
    BY <2>1 DEF IInv, TypeOK, States, MetricsFollow
  <2>3. priced = {c \in LiveChains(states) : states[c].totalLiquidity > 0}
    BY <2>1 DEF Live
  <2> QED BY <2>1, <2>2, <2>3, AverageLemma
<1> QED BY <1>1, Invariance, PTL

\* The stored imbalance of a pool is that of its furthest chain, as exactly as
\* the integer division of _calculateImbalance can tell.
THEOREM ImbalanceTheorem == Spec => []ImbalanceIsWorst
<1>1. IInv => ImbalanceIsWorst
  <2> SUFFICES ASSUME IInv, NEW p \in Pools,
                      NEW m, m = aggregatedMetrics[p],
                      NEW expected, expected = m.totalLiquidity \div Cardinality(Live(p)),
                      m.totalLiquidity > 0, expected > 0
               PROVE  /\ \A c \in Live(p) :
                            /\ (chainStates[p][c].totalLiquidity - expected) * PERCENTAGE_PRECISION
                                  < (m.maxImbalance + 1) * expected
                            /\ (expected - chainStates[p][c].totalLiquidity) * PERCENTAGE_PRECISION
                                  < (m.maxImbalance + 1) * expected
                      /\ \E c \in Live(p) :
                            \/ m.maxImbalance * expected
                                  <= (chainStates[p][c].totalLiquidity - expected) * PERCENTAGE_PRECISION
                            \/ m.maxImbalance * expected
                                  <= (expected - chainStates[p][c].totalLiquidity) * PERCENTAGE_PRECISION
    BY DEF ImbalanceIsWorst
  <2>1. PICK states : states = chainStates[p]
    OBVIOUS
  <2>2. states \in States /\ m = recalculateAggregatedMetrics(states)
    BY <2>1 DEF IInv, TypeOK, States, MetricsFollow
  <2>3. Live(p) = LiveChains(states)
    BY <2>1 DEF Live
  <2> QED BY <2>1, <2>2, <2>3, WorstLemma
<1> QED BY <1>1, Invariance, PTL

\* An operator has no more credits than tasks it has an accepted answer for,
\* also when it was registered again in between.
THEOREM CreditTheorem == Spec => []CreditOncePerTask
<1>1. IInv => CreditOncePerTask
  BY DEF IInv
<1> QED BY <1>1, Invariance, PTL

\* After the block of its creation, a rebalancing request that
\* executeRebalancingTask settled keeps its status.
THEOREM SettleTheorem == Spec => RequestsSettle
<1>1. IInv /\ [Next]_vars => [RequestsSettleStep]_vars
  <2> SUFFICES ASSUME IInv, Next, NEW r \in RequestIds,
                      rebalancingTasks[r].status # "PENDING", now > r[2]
               PROVE  rebalancingTasks'[r].status = rebalancingTasks[r].status
    BY DEF RequestsSettleStep
  <2>1. rebalancingTasks \in [RequestIds -> Entry] /\ now \in Nat
    BY DEF IInv, TypeOK, Entry
  <2>2. CASE rebalancingTasks' = rebalancingTasks
    BY <2>2
  <2>3. ASSUME NEW route \in Routes, createRebalancingTask(route)
        PROVE  rebalancingTasks'[r] = rebalancingTasks[r]
    <3>1. r # <<route, now>>
      BY <2>1
    <3> QED BY <2>1, <2>3, <3>1 DEF createRebalancingTask
  <2>4. ASSUME NEW o \in Operators, NEW q \in RequestIds, executeRebalancingTask(o, q)
        PROVE  rebalancingTasks'[r] = rebalancingTasks[r]
    <3>1. r # q
      BY <2>4 DEF executeRebalancingTask, MayExecute
    <3> QED BY <2>1, <2>4, <3>1 DEF executeRebalancingTask
  <2> QED BY <2>2, <2>3, <2>4 DEF Next, createStateUpdateTask, respondValid, respondInvalid,
             registerOperator, deregisterOperator, slashOperator, updateSlashingParameters,
             setPaused, Tick
<1> QED BY <1>1, Invariance, PTL DEF Spec, RequestsSettle

=============================================================================
