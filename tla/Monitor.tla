------------------------------- MODULE Monitor -------------------------------
(***************************************************************************)
(* The monitor, src/AVS/pkg/monitoring/monitor.go, and the metrics         *)
(* collector, src/AVS/pkg/monitoring/metrics.go, of one process.  Both     *)
(* constructors register their metrics by name in the process-wide         *)
(* Prometheus registry, which panics when a name is taken.  Goroutines     *)
(* record what happens in Prometheus counters, which are atomic, and in    *)
(* the PerformanceTracker, whose fields nothing protects: x++ is a read    *)
(* and a later write, and the performance goroutine resets four of them    *)
(* one by one.  Alerts are kept in a map under a mutex; their ids are read *)
(* from the clock before it is taken.                                      *)
(*                                                                         *)
(* Left out: latencies, amounts, texts and the uptime gauge, which only    *)
(* one goroutine writes.                                                   *)
(***************************************************************************)
EXTENDS Integers, FiniteSets

CONSTANTS
    Recorders,          \* goroutines that call the Record functions and CreateAlert
    AlertTypes,         \* the types that CreateAlert is given
    FailureType,        \* the one of them that RecordRebalancingFailure gives it
    Nanos,              \* the nanoseconds of a second
    ResetLimit,         \* state updates after which counters reset, 1000
    Expiry,             \* when an open alert is resolved by itself, 24 h
    HealthWindow,       \* without an update for longer: unhealthy, 5 min
    Never,              \* the zero time.Time, before all others
    MaxCalls,           \* bound: calls of the recorders
    MaxTime             \* bound: the last value of the clock

ASSUME MonitorAssumption ==
    /\ {ResetLimit, Expiry, HealthWindow, MaxCalls, MaxTime} \subseteq Nat
    /\ Never \in Int /\ Never < -HealthWindow
    /\ FailureType \in AlertTypes

\* The fields of the tracker that count, in the order they are reset.
Counters == {"StateUpdates", "RebalancingOps", "SuccessfulOps", "FailedOps"}
ResetOrder == <<"StateUpdates", "RebalancingOps", "SuccessfulOps", "FailedOps">>

\* The id of an alert: its type and a reading of the clock.
AlertIds == AlertTypes \X (0 .. MaxTime) \X Nanos

VARIABLES
    built,              \* the collectors constructed so far
    registry,           \* names in the Prometheus registry
    panicked,
    ctx,                \* "new" before Start, "running", "cancelled"
    now,                \* in seconds
    recorder,           \* recorder => [at, counter, read, time, id]
    prometheus,         \* counter => times it was raised
    tracker,            \* counter => its field of the PerformanceTracker
    lastUpdate,         \* the LastUpdate field
    resetting,          \* the performance goroutine: next field to reset, or 0
    alerts,             \* the alerts by id: [created, resolved, resolvedAt]
    direct,             \* history: calls of CreateAlert by other code
    repeated            \* history: readings of the clock that gave an old id

vars == <<built, registry, panicked, ctx, now, recorder, prometheus, tracker,
          lastUpdate, resetting, alerts, direct, repeated>>
process == <<built, registry, panicked, ctx>>
counts  == <<prometheus, tracker, lastUpdate>>
history == <<direct, repeated>>

NoId == << >>
Idle == [at |-> "idle", counter |-> "StateUpdates", read |-> 0, time |-> 0, id |-> NoId]

Init ==
    /\ built = {} /\ registry = {} /\ panicked = FALSE
    /\ ctx = "new" /\ now = 0
    /\ recorder = [r \in Recorders |-> Idle]
    /\ prometheus = [k \in Counters |-> 0]
    /\ tracker = [k \in Counters |-> 0]
    /\ lastUpdate = Never
    /\ resetting = 0
    /\ alerts = << >>
    /\ direct = 0 /\ repeated = 0

-----------------------------------------------------------------------------
(* Construction *)

MonitorNames ==
    {"pool_states_total", "rebalancing_requests_total", "rebalancing_success_total",
     "rebalancing_failures_total", "state_update_latency_seconds",
     "operator_uptime_seconds"}

\* The thirty-one names of NewMetrics: the six it shares with the monitor, and
\* one that stands for the twenty-five it does not share.
MetricsNames == MonitorNames \cup {"operator_status"}

\* promauto panics at the first name that is taken.
Register(collector, names) ==
    /\ ~panicked
    /\ IF names \cap registry = {}
       THEN /\ registry' = registry \cup names
            /\ built' = built \cup {collector}
            /\ UNCHANGED panicked
       ELSE /\ panicked' = TRUE
            /\ UNCHANGED <<registry, built>>

NewMonitor ==
    /\ Register("Monitor", MonitorNames)
    /\ UNCHANGED <<ctx, now, recorder, counts, resetting, alerts, history>>

NewMetrics ==
    /\ Register("Metrics", MetricsNames)
    /\ UNCHANGED <<ctx, now, recorder, counts, resetting, alerts, history>>

Alive == ~panicked /\ "Monitor" \in built

Start ==
    /\ Alive /\ ctx = "new"
    /\ ctx' = "running"
    /\ UNCHANGED <<built, registry, panicked, now, recorder, counts, resetting, alerts, history>>

\* The goroutines end at their next select.
Cancel ==
    /\ ctx = "running"
    /\ ctx' = "cancelled"
    /\ UNCHANGED <<built, registry, panicked, now, recorder, counts, resetting, alerts, history>>

-----------------------------------------------------------------------------
(* RecordStateUpdate, -RebalancingRequest, -RebalancingSuccess, -Failure *)

Calls == prometheus["StateUpdates"] + prometheus["RebalancingOps"]
       + prometheus["SuccessfulOps"] + prometheus["FailedOps"] + direct

\* The Prometheus counter is raised, and x++ reads its field.
Record(r, k) ==
    /\ Alive /\ recorder[r].at = "idle" /\ Calls < MaxCalls
    /\ prometheus' = [prometheus EXCEPT ![k] = @ + 1]
    /\ recorder' = [recorder EXCEPT ![r] =
                       [Idle EXCEPT !.at = "write", !.counter = k, !.read = tracker[k]]]
    /\ UNCHANGED <<process, now, tracker, lastUpdate, resetting, alerts, history>>

\* Mutant: the failure is counted among the successes.
CountedAsSuccess(r) ==
    IF recorder[r].counter = "FailedOps" THEN "SuccessfulOps" ELSE recorder[r].counter

Counted(r) == recorder[r].counter

\* Mutant: only the first failure makes an alert.
AfterCountFirst(r) ==
    CASE recorder[r].counter = "StateUpdates" -> "stamp"
      [] recorder[r].counter = "FailedOps" /\ recorder[r].read = 0 -> "alert"
      [] OTHER                                -> "idle"

\* An update reads the clock, a failure goes on to its alert.
AfterCount(r) ==
    CASE recorder[r].counter = "StateUpdates" -> "stamp"
      [] recorder[r].counter = "FailedOps"    -> "alert"
      [] OTHER                                -> "idle"

\* x++ writes its field.
Write(r) ==
    /\ ~panicked /\ recorder[r].at = "write"
    /\ tracker' = [tracker EXCEPT ![Counted(r)] = recorder[r].read + 1]
    /\ recorder' = [recorder EXCEPT ![r] =
                       CASE AfterCount(r) = "stamp" -> [Idle EXCEPT !.at = "stamp", !.time = now]
                         [] AfterCount(r) = "alert" -> [Idle EXCEPT !.at = "alert", !.counter = "FailedOps"]
                         [] OTHER                   -> Idle]
    /\ UNCHANGED <<process, now, prometheus, lastUpdate, resetting, alerts, history>>

Stamp(r) ==
    /\ ~panicked /\ recorder[r].at = "stamp"
    /\ lastUpdate' = recorder[r].time
    /\ recorder' = [recorder EXCEPT ![r] = Idle]
    /\ UNCHANGED <<process, now, prometheus, tracker, resetting, alerts, history>>

-----------------------------------------------------------------------------
(* CreateAlert *)

\* CreateAlert is exported: other code calls it too.
CallCreateAlert(r) ==
    /\ Alive /\ recorder[r].at = "idle" /\ Calls < MaxCalls
    /\ recorder' = [recorder EXCEPT ![r] = [Idle EXCEPT !.at = "alert"]]
    /\ direct' = direct + 1
    /\ UNCHANGED <<process, now, counts, resetting, alerts, repeated>>

\* The ids that are stored, or read and not yet stored.
InFlight == {recorder[r].id : r \in {q \in Recorders : recorder[q].at \in {"build", "store"}}}
Named    == DOMAIN alerts \cup InFlight

AlertId(type, nano) == <<type, now, nano>>

\* The id is read from the clock, before anything is locked.
TakeAlertId(r, type, nano) ==
    /\ ~panicked /\ recorder[r].at = "alert"
    /\ recorder[r].counter = "FailedOps" => type = FailureType
    /\ recorder' = [recorder EXCEPT ![r].at = "build", ![r].id = AlertId(type, nano)]
    /\ repeated' = IF AlertId(type, nano) \in Named THEN repeated + 1 ELSE repeated
    /\ UNCHANGED <<process, now, counts, resetting, alerts, direct>>

\* The Timestamp of the alert is a second reading.
BuildAlert(r) ==
    /\ ~panicked /\ recorder[r].at = "build"
    /\ recorder' = [recorder EXCEPT ![r].at = "store", ![r].time = now]
    /\ UNCHANGED <<process, now, counts, resetting, alerts, history>>

\* Under the mutex.  An alert that has the id already is replaced.
StoreAlert(r) ==
    LET id == recorder[r].id IN
    /\ ~panicked /\ recorder[r].at = "store"
    /\ alerts' = [i \in DOMAIN alerts \cup {id} |->
                     IF i = id
                     THEN [created |-> recorder[r].time, resolved |-> FALSE, resolvedAt |-> 0]
                     ELSE alerts[i]]
    /\ recorder' = [recorder EXCEPT ![r] = Idle]
    /\ UNCHANGED <<process, now, counts, resetting, history>>

-----------------------------------------------------------------------------
(* Alerts, the performance goroutine and the health check *)

\* An alert that is resolved is resolved again, at a later time.
ResolveAlert(id) ==
    /\ Alive /\ id \in DOMAIN alerts
    /\ alerts' = [alerts EXCEPT ![id].resolved = TRUE, ![id].resolvedAt = now]
    /\ UNCHANGED <<process, now, recorder, counts, resetting, history>>

\* Mutant: the difference is taken the wrong way round.
ExpiredSwapped(id) == ~alerts[id].resolved /\ alerts[id].created - now > Expiry

Expired(id) == ~alerts[id].resolved /\ now - alerts[id].created > Expiry

\* A tick of processAlerts; processCriticalAlerts only logs.
processExpiredAlerts ==
    /\ ctx = "running" /\ ~panicked
    /\ \E id \in DOMAIN alerts : Expired(id)
    /\ alerts' = [i \in DOMAIN alerts |->
                     IF Expired(i) THEN [alerts[i] EXCEPT !.resolved = TRUE, !.resolvedAt = now]
                     ELSE alerts[i]]
    /\ UNCHANGED <<process, now, recorder, counts, resetting, history>>

\* A tick of monitorPerformance that finds enough updates.
calculatePerformanceMetrics ==
    /\ ctx = "running" /\ ~panicked /\ resetting = 0
    /\ tracker["StateUpdates"] > ResetLimit
    /\ resetting' = 1
    /\ UNCHANGED <<process, now, recorder, counts, alerts, history>>

\* The four assignments, one by one.
ResetCounter ==
    /\ resetting # 0 /\ ~panicked
    /\ tracker' = [tracker EXCEPT ![ResetOrder[resetting]] = 0]
    /\ resetting' = (resetting + 1) % 5
    /\ UNCHANGED <<process, now, recorder, prometheus, lastUpdate, alerts, history>>

Tick ==
    /\ Alive /\ now < MaxTime
    /\ now' = now + 1
    /\ UNCHANGED <<process, recorder, counts, resetting, alerts, history>>

RecorderStep(r) ==
    \/ Write(r) \/ Stamp(r) \/ BuildAlert(r) \/ StoreAlert(r)
    \/ \E type \in AlertTypes, n \in Nanos : TakeAlertId(r, type, n)

Next ==
    \/ NewMonitor \/ NewMetrics \/ Start \/ Cancel \/ Tick
    \/ \E r \in Recorders :
          RecorderStep(r) \/ CallCreateAlert(r) \/ \E k \in Counters : Record(r, k)
    \/ \E id \in DOMAIN alerts : ResolveAlert(id)
    \/ processExpiredAlerts \/ calculatePerformanceMetrics \/ ResetCounter

Spec == Init /\ [][Next]_vars

\* Time passes, and the ticks of processAlerts come.
FairSpec ==
    /\ Spec
    /\ WF_vars(Tick) /\ WF_vars(processExpiredAlerts)
    /\ \A r \in Recorders : WF_vars(RecorderStep(r))

-----------------------------------------------------------------------------
(* Properties *)

\* HealthCheck says "unhealthy".
Unhealthy == now - lastUpdate > HealthWindow

\* Two recorders and the reset race on every field of the tracker, so counts
\* are lost and a reset is undone, but nothing is ever counted that did not
\* happen: no field exceeds its Prometheus counter, and the health check does
\* not say "healthy" before there was an update.
NothingInvented ==
    /\ \A k \in Counters : tracker[k] <= prometheus[k]
    /\ ~Unhealthy => prometheus["StateUpdates"] > 0

\* Where the alerts of failures and of other calls go: every one of them is in
\* the map or about to be, unless its reading of the clock repeated an id; so
\* losses of the FailedOps field, resets, resolutions and expiries cost no
\* alert, and a repeated id costs one.
Called == prometheus["FailedOps"] + direct
Unnamed ==
    {r \in Recorders : \/ recorder[r].at = "alert"
                       \/ recorder[r].at = "write" /\ recorder[r].counter = "FailedOps"}

AlertsAccountedFor ==
    Called = Cardinality(Named) + repeated + Cardinality(Unnamed)

\* An alert that nobody resolves is resolved by the expiry while the monitor
\* runs (unless it is created, or replaced under the same id, so late that the
\* clock's bound comes first).
InTime(id) == id \in DOMAIN alerts /\ alerts[id].created + Expiry < MaxTime

AlertsExpire ==
    \A id \in {i \in AlertIds : i[2] + Expiry < MaxTime} :
        (ctx = "running" /\ InTime(id)) ~>
            (panicked \/ ctx = "cancelled" \/ ~InTime(id) \/ alerts[id].resolved)

=============================================================================
