---------------------------- MODULE PoolPredictor ----------------------------
(***************************************************************************)
(* What src/AVS/pkg/state/predictor.go computes from a GlobalPoolState.    *)
(* Strengths are in per cent and confidences in tenths; the code has both  *)
(* as floating-point numbers.  Div of Go's big.Int rounds down for a       *)
(* positive divisor, as \div does.                                         *)
(***************************************************************************)
EXTENDS PoolMetrics

CONSTANT MinAmount      \* the smallest rebalancing amount, one token

ASSUME PredictorAssumption == MinAmount \in Nat

calculateAverage(chainStates) ==
    SumFunction([c \in DOMAIN chainStates |-> chainStates[c].price])
        \div Cardinality(DOMAIN chainStates)

\* Its square root is the same code as in the aggregator.
calculateStandardDeviation(chainStates) ==
    sqrt(PriceVariance(chainStates, calculateAverage(chainStates)))

Sideways == [direction |-> "sideways", strength |-> 0]

\* Which side of the average most prices are on, unless they deviate by less
\* than one per cent of it.
calculateTrendDirection(chainStates) ==
    LET mean  == calculateAverage(chainStates)
        n     == Cardinality(DOMAIN chainStates)
        above == Cardinality({c \in DOMAIN chainStates : chainStates[c].price > mean})
    IN  IF calculateStandardDeviation(chainStates) < mean \div 100 THEN Sideways
        ELSE IF 10 * above > 6 * n
             THEN [direction |-> "up", strength |-> (100 * above) \div n]
        ELSE IF 10 * above < 4 * n
             THEN [direction |-> "down", strength |-> (100 * (n - above)) \div n]
        ELSE Sideways

\* From the coefficient of variation, in per cent.
calculateTrendConfidence(chainStates) ==
    LET mean == calculateAverage(chainStates)
        cv   == (calculateStandardDeviation(chainStates) * 100) \div mean
    IN  IF mean = 0 THEN 0
        ELSE CASE cv > 10             -> 0
               [] cv > 5 /\ cv <= 10  -> 5
               [] cv > 2 /\ cv <= 5   -> 8
               [] OTHER               -> 10

\* Mutant: without the cap.
ChangePercentUncapped(trend, trust, timeHorizon) ==
    (trend.strength * timeHorizon * trust) \div 3000

\* Over five minutes the full strength; at most ten per cent.
calculatePriceChangePercent(trend, trust, timeHorizon) ==
    LET change == (trend.strength * timeHorizon * trust) \div 3000
    IN  IF change > 10 THEN 10 ELSE change

\* From a price that is not zero; never negative.
predictPrice(average, trend, trust, timeHorizon) ==
    LET change == (average * calculatePriceChangePercent(trend, trust, timeHorizon)) \div 100
    IN  CASE trend.direction = "up"       -> average + change
          [] trend.direction = "down"     -> IF change > average THEN 1 ELSE average - change
          [] trend.direction = "sideways" -> average

\* Half the relative change of the price, if there is a price to change.
predictLiquidity(total, average, predictedPrice) ==
    LET percent == ((predictedPrice - average) * 100) \div average
        predicted == total + (total * percent) \div 200
    IN  IF average = 0 THEN total ELSE IF predicted < 0 THEN 1 ELSE predicted

\* The two factors of calculateConfidence, in tenths.
ChainFactor(chainCount) == IF chainCount >= 3 THEN 10 ELSE IF chainCount = 2 THEN 8 ELSE 5

FreshnessFactor(age) ==
    IF age < 60 THEN 10 ELSE IF age < 300 THEN 9 ELSE IF age < 600 THEN 8 ELSE 6

calculateImbalancePercent(imbalance, total) ==
    IF total = 0 THEN 0 ELSE (imbalance * 100) \div total

\* Mutant: the other bound first.
RebalancingAmountMaxFirst(total, imbalance) == Max({Min({imbalance \div 2, total \div 10}), MinAmount})

\* Half the imbalance, raised to the smallest amount, then cut to a tenth of
\* the liquidity.
calculateRebalancingAmount(total, imbalance) ==
    Min({Max({imbalance \div 2, MinAmount}), total \div 10})

=============================================================================
