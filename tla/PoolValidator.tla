---------------------------- MODULE PoolValidator ----------------------------
(***************************************************************************)
(* What src/AVS/pkg/state/validator.go decides about a chain's report,     *)
(* given the GlobalPoolState it already has.  Signatures are left out.     *)
(***************************************************************************)
EXTENDS PoolMetrics

CONSTANTS
    Criteria,           \* [maxPriceDeviation, maxLiquidityChange, maxTimeGap]
    Word                \* one more than the largest uint64

ASSUME ValidatorAssumption ==
    /\ Criteria \in [maxPriceDeviation : Nat, maxLiquidityChange : Nat, maxTimeGap : Nat]
    /\ Word \in Nat /\ Word > Criteria.maxTimeGap

\* From an average that is not zero.
validatePriceDeviation(report, average) ==
    Abs(report.price - average) <= Criteria.maxPriceDeviation

validateLiquidityChange(report, chain, chainStates) ==
    chain \in DOMAIN chainStates =>
        Abs(report.liquidity - chainStates[chain].liquidity) <= Criteria.maxLiquidityChange

\* Mutant: a signed difference.
AgeSigned(timestamp, now) == now - timestamp

\* uint64 subtraction: a timestamp ahead of the clock is a huge age.
Age(timestamp, now) == (now - timestamp) % Word

validateTimestamp(timestamp, now) == Age(timestamp, now) <= Criteria.maxTimeGap

\* 0.9, then 0.8, then 0.6 as x passes three limits, in thousandths.
Discount(x, first, second, third) ==
    (IF x > first THEN 9 ELSE 10) * (IF x > second THEN 8 ELSE 10) * (IF x > third THEN 6 ELSE 10)

\* The limits of calculateConfidence for the age, in seconds.
AgeDiscount(age) == Discount(age, 300, 600, 1800)

=============================================================================
