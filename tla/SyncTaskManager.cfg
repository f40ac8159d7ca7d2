\* Two tasks on two chains with every kind of input: task types and timeouts in
\* and out of range, results too short for the type, a fee that is changed and
\* is too high for the callers.  An operator has room for one task, so it
\* is full while another task is pending; tasks are created in different
\* blocks, so their deadlines differ.  No symmetry, because of the liveness.
CONSTANTS
    Operators = {op1, op2}
    NoOperator = NoOperator
    Chains = {1, 10}
    TypeInputs = {0, 3}
    Timeouts = {0, 1}
    Results = {0, 16}
    Configs <- TwoConfigs
    Payments = {1}
    MAX_TASKS_PER_OPERATOR = 1
    MIN_TASK_TIMEOUT = 1
    MAX_TASK_TIMEOUT = 1
    MaxTasks = 2
    MaxBlock = 3
    SweepArrays <- ShortArrays
SPECIFICATION FairSpec
INVARIANTS IInv IndexesAgree DeadlineHonoured SweepIsTheLoop
PROPERTIES HeldTasksAreReleased LifecycleSpec
