\* Two callers and two handlers, channels of one place that fill up, and a
\* clock that passes the retention (a length of zero keeps the boundary).
CONSTANTS
    Callers = {c1, c2}
    Handlers <- TwoHandlers
    Severities = {"critical"}
    MetricInputs <- TwoInputs
    ChannelSize = 1
    Retention = 0
    None = None
    MaxAlerts = 2
    MaxTime = 1
SPECIFICATION FairSpec
INVARIANTS ToldOnce NoNewsLost OpenAlertsKept
PROPERTY NewsArrives
CHECK_DEADLOCK FALSE
