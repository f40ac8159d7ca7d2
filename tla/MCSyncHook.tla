------------------------------ MODULE MCSyncHook ------------------------------
EXTENDS SyncHook

\* No knowledge, the same price, and a price too far away.
Answers == {[totalLiquidity |-> 0, averagePrice |-> 0],
            [totalLiquidity |-> 3, averagePrice |-> 1],
            [totalLiquidity |-> 1, averagePrice |-> 2]}

TwoChains == <<1, 42161>>

PoolSymmetry == Permutations(Pools)

=============================================================================
