-------------------------- MODULE MCStateAggregator --------------------------
EXTENDS StateAggregator, TLC

State(l, p, b) == [liquidity |-> l, price |-> p, block |-> b]

\* An empty chain, a small one and a large one with a price ten per cent off:
\* three chains have a trend up or down, two of them never have.
ThreeStates == {State(0, 1000, 1), State(40, 1000, 3), State(105, 1100, 2)}

DefaultCriteria == [maxPriceDeviation |-> 60, maxLiquidityChange |-> 70, maxTimeGap |-> 300]

Symmetry == Permutations(Updaters) \cup Permutations(Chains)

=============================================================================
