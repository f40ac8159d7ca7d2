\* One pool that is reported once and aggregated in every period.
CONSTANTS
    Tasks = {t1}
    Operators = {o1, o2}
    Pools = {p1}
    Chains = {c1, c2}
    ChainStates <- OneState
    Quorums = {1}
    MaxStateAge = 1
    RebalancingThreshold = 5
    MaxTime = 2
SPECIFICATION ProcessSpec
PROPERTIES StalePoolsAreRemoved
\* The process stops after Stop.
CHECK_DEADLOCK FALSE
