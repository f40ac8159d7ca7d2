------------------------ MODULE MCSyncHookAggregator ------------------------
EXTENDS SyncHookAggregator, TLC

State(l, p, b) == [liquidity |-> l, price |-> p, block |-> b]

\* An empty pool, and two that differ in size, price and block.
ThreeStates == {State(0, 5, 1), State(1, 2, 3), State(3, 9, 2)}
OneState    == {State(3, 9, 2)}

=============================================================================
