\* One task with quorum one or two and two operators; one pool on two chains;
\* two periods, of which the second expires the task.
CONSTANTS
    Tasks = {t1}
    Operators = {o1, o2}
    Pools = {p1}
    Chains = {c1, c2}
    ChainStates <- ThreeStates
    Quorums = {1, 2}
    MaxStateAge = 0
    RebalancingThreshold = 5
    MaxTime = 2
SPECIFICATION FairProcessSpec
INVARIANTS ConsensusCountedOnce
PROPERTIES UpdatedMetricsAreSound TasksSettle
\* The process stops after Stop.
CHECK_DEADLOCK FALSE
