------------------------- MODULE MCSimplifiedSyncAVS -------------------------
EXTENDS SimplifiedSyncAVS, TLC

State(l, p, t) == [totalLiquidity |-> l, price |-> p, timestamp |-> t]

\* An empty pool and two pools that differ in size and price.
ThreeStates == {State(0, 7, 1), State(1, 2, 1), State(5, 9, 1)}
OneState   == {State(5, 9, 1)}

OperatorSymmetry == Permutations(Operators)

=============================================================================
