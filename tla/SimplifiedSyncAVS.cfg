\* Two tasks, two operators, two chains: the order and
\* the overwriting of answers, rejected answers, re-registration between
\* answers, and requests created and executed in two block times; a deadline is
\* the block time itself, so the second time is late.
CONSTANTS
    Operators = {o1, o2}
    Pools = {p1}
    Chains = {1, 2}
    PoolStates <- ThreeStates
    Verdicts = {"valid", "invalid"}
    Routes = {r1}
    PenaltyRates = {5}
    PERCENTAGE_PRECISION = 100
    MAX_SLASHING_PENALTY = 5
    OPERATOR_STAKE_MINIMUM = 1
    TASK_RESPONSE_WINDOW = 0
    InitialPenaltyRate = 5
    MaxTasks = 2
    MaxTime = 2
    MaxSlashes = 1
SPECIFICATION Spec
SYMMETRY OperatorSymmetry
INVARIANTS MetricsAreCurrent ImbalanceIsWorst CreditOncePerTask
PROPERTIES RequestsSettle
