----------------------------- MODULE PoolMetrics -----------------------------
(***************************************************************************)
(* The arithmetic that both Go aggregators (src/AVS/pkg/state/aggregator.go*)
(* and src/AVS/aggregator/aggregator.go) do on the chain states of a pool. *)
(* A chain state is a record [liquidity, price, block]; chainStates is a   *)
(* function from the chains that reported.  The code ranges over a Go map, *)
(* in any order; every fold here is over a set.                            *)
(***************************************************************************)
EXTENDS Integers, FiniteSetsExt, Functions

CONSTANTS
    Chains,
    ChainStates         \* what the chains report: [liquidity, price, block]

ASSUME ReportAssumption == ChainStates \subseteq [liquidity : Nat, price : Nat, block : Nat]

\* Mutant: the search stops below an exact root.
sqrtBelow(n) ==
    LET search[s \in [left : 0 .. n + 1, right : -1 .. n, result : 0 .. n]] ==
            LET mid == (s.left + s.right) \div 2
            IN  IF s.left > s.right THEN s.result
                ELSE IF mid * mid < n THEN search[[s EXCEPT !.left = mid + 1, !.result = mid]]
                ELSE search[[s EXCEPT !.right = mid - 1]]
    IN  IF n <= 0 THEN 0 ELSE search[[left |-> 0, right |-> n, result |-> 0]]

\* Binary search for the root; s is the state of its loop.
sqrt(n) ==
    LET search[s \in [left : 0 .. n + 1, right : -1 .. n, result : 0 .. n]] ==
            LET mid == (s.left + s.right) \div 2
            IN  IF s.left > s.right THEN s.result
                ELSE IF mid * mid <= n THEN search[[s EXCEPT !.left = mid + 1, !.result = mid]]
                ELSE search[[s EXCEPT !.right = mid - 1]]
    IN  IF n <= 0 THEN 0 ELSE search[[left |-> 0, right |-> n, result |-> 0]]

Abs(x) == IF x < 0 THEN -x ELSE x

TotalLiquidity(chainStates) ==
    SumFunction([c \in DOMAIN chainStates |-> chainStates[c].liquidity])

\* calculateWeightedAveragePrice fails when this has no weight to divide by.
WeightedAveragePrice(chainStates) ==
    SumFunction([c \in DOMAIN chainStates |-> chainStates[c].price * chainStates[c].liquidity])
        \div TotalLiquidity(chainStates)

PriceVariance(chainStates, mean) ==
    SumFunction([c \in DOMAIN chainStates |->
                    (chainStates[c].price - mean) * (chainStates[c].price - mean)])
        \div Cardinality(DOMAIN chainStates)

ImbalanceScore(chainStates, mean) ==
    IF Cardinality(DOMAIN chainStates) < 2 THEN 0
    ELSE sqrt(PriceVariance(chainStates, mean))

LatestBlock(chainStates) ==
    Max({0} \cup {chainStates[c].block : c \in DOMAIN chainStates})

\* How far the chains are from an even share of the liquidity, added up.
Deviation(chainStates, expected) ==
    SumFunction([c \in DOMAIN chainStates |-> Abs(chainStates[c].liquidity - expected)])

\* The same when the share is worked out at once; one chain has none.
LiquidityDeviation(chainStates, total) ==
    IF Cardinality(DOMAIN chainStates) < 2 THEN 0
    ELSE Deviation(chainStates, total \div Cardinality(DOMAIN chainStates))

=============================================================================
