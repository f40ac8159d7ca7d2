\* Two recorders and three calls: enough for one lost update and one more
\* call, a reset with a recorder in the middle, and two alerts with one id.
CONSTANTS
    Recorders = {r1, r2}
    AlertTypes = {"rebalancing_failure", "other"}
    FailureType = "rebalancing_failure"
    Nanos = {1}
    ResetLimit = 1
    Expiry = 1
    HealthWindow = 1
    Never <- LongAgo
    MaxCalls = 3
    MaxTime = 2
SPECIFICATION FairSpec
INVARIANTS NothingInvented AlertsAccountedFor
PROPERTY AlertsExpire
CHECK_DEADLOCK FALSE
