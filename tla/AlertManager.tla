---------------------------- MODULE AlertManager ----------------------------
(***************************************************************************)
(* The alert manager, src/AVS/pkg/monitoring/alerts.go.  Callers create    *)
(* and resolve alerts from any goroutine; the alerts are kept in a map     *)
(* under a mutex, and the news of them goes through two bounded channels   *)
(* to one goroutine that calls the handlers.  A second goroutine deletes   *)
(* old resolved alerts.                                                    *)
(*                                                                         *)
(* A section under the mutex is one step.  CreateAlert stores the alert    *)
(* under the mutex and sends the news after it, so it takes two steps, and *)
(* the handlers are called one after the other.  An alert's id, its type   *)
(* and the nanosecond, is a number that is used once.  Handlers are added  *)
(* before Start.  Texts, tags and metadata are left out.                   *)
(***************************************************************************)
EXTENDS Integers, SequencesExt, FiniteSetsExt

CONSTANTS
    Callers,            \* goroutines that create and resolve alerts
    Handlers,           \* the handlers, in the order they are added
    Severities,         \* severities that CreateAlert is called with
    MetricInputs,       \* what CheckThresholds is called with
    ChannelSize,        \* the capacity of both channels, 100 in the code
    Retention,          \* how long a resolved alert is kept, seven days
    None,               \* no alert
    MaxAlerts,          \* bound: alerts ever created
    MaxTime             \* bound: the last value of the clock

ASSUME AlertAssumption ==
    /\ ChannelSize \in Nat \ {0} /\ Retention \in Nat
    /\ MaxAlerts \in Nat /\ MaxTime \in Nat /\ None \notin Nat
    \* A handler is an entry of the list: code that is added twice is two.
    /\ Handlers \in Seq(Range(Handlers)) /\ IsInjective(Handlers)

VARIABLES
    now,
    ctx,                \* "new" before Start, "running", "cancelled"
    alerts,             \* id => [severity, resolved, resolvedAt]
    nextId,
    todo,               \* caller => severities of alerts it has yet to create
    sending,            \* caller => the alert it has stored and not yet sent
    alertChan,
    resolveChan,
    handlers,           \* the handlers in the order they were added
    current,            \* what the processing goroutine is at: the news and
                        \* the handlers still to be called; "select", "done"
    cleaner,            \* the cleanup goroutine: "off", "on", "done"
    heard,              \* handler => the news it was called with, in order
    dropped,            \* news that met a full channel
    resolutions         \* <<id, time>> of every ResolveAlert that succeeded

vars == <<now, ctx, alerts, nextId, todo, sending, alertChan, resolveChan,
          handlers, current, cleaner, heard, dropped, resolutions>>
store    == <<alerts, nextId>>
calls    == <<todo, sending>>
channels == <<alertChan, resolveChan>>
loops    == <<current, cleaner>>
history  == <<heard, dropped, resolutions>>

Created == 1 .. nextId - 1
Idle    == [at |-> "select", news |-> None, left |-> << >>]

\* NewAlertManager.
Init ==
    /\ now = Retention
    /\ ctx = "new"
    /\ alerts = << >> /\ nextId = 1
    /\ todo = [c \in Callers |-> << >>]
    /\ sending = [c \in Callers |-> None]
    /\ alertChan = << >> /\ resolveChan = << >>
    /\ handlers = << >>
    /\ current = [Idle EXCEPT !.at = "off"]
    /\ cleaner = "off"
    /\ heard = [h \in Range(Handlers) |-> << >>]
    /\ dropped = {}
    /\ resolutions = {}

AddHandler ==
    /\ ctx = "new"
    /\ Len(handlers) < Len(Handlers)
    /\ handlers' = Append(handlers, Handlers[Len(handlers) + 1])
    /\ UNCHANGED <<now, ctx, store, calls, channels, loops, history>>

Start ==
    /\ ctx = "new"
    /\ ctx' = "running"
    /\ current' = Idle
    /\ cleaner' = "on"
    /\ UNCHANGED <<now, handlers, store, calls, channels, history>>

-----------------------------------------------------------------------------
(* Creating alerts *)

Free(c) == todo[c] = << >> /\ sending[c] = None

\* CreateAlert from a caller's own code.
CallCreateAlert(c, severity) ==
    /\ Free(c)
    /\ todo' = [todo EXCEPT ![c] = <<severity>>]
    /\ UNCHANGED <<now, ctx, sending, handlers, store, channels, loops, history>>

\* GetDefaultThresholds, in per cent and seconds.
DefaultThresholds ==
    [price_deviation |-> 10, liquidity_imbalance |-> 20, response_time |-> 30,
     error_rate |-> 5, uptime |-> 99, memory_usage |-> 80, cpu_usage |-> 80]

\* The seven checks, in the order of the code, with the severity of each.
Checks ==
    << <<"price_deviation", "high">>, <<"liquidity_imbalance", "high">>,
       <<"response_time", "medium">>, <<"error_rate", "high">>,
       <<"uptime", "critical">>, <<"memory_usage", "medium">>,
       <<"cpu_usage", "medium">> >>

\* A missing metric is not checked; uptime must not fall below its threshold,
\* the others must not rise above theirs.
Beyond(metrics, type) ==
    /\ type \in DOMAIN metrics
    /\ IF type = "uptime" THEN metrics[type] < DefaultThresholds[type]
                          ELSE metrics[type] > DefaultThresholds[type]

CheckThresholds(c, metrics) ==
    LET exceeded == SelectSeq(Checks, LAMBDA k : Beyond(metrics, k[1])) IN
    /\ Free(c)
    /\ todo' = [todo EXCEPT ![c] = [i \in DOMAIN exceeded |-> exceeded[i][2]]]
    /\ UNCHANGED <<now, ctx, sending, handlers, store, channels, loops, history>>

\* CreateAlert, under the mutex: the alert is in the map.
StoreAlert(c) ==
    /\ todo[c] # << >> /\ sending[c] = None
    /\ nextId <= MaxAlerts
    /\ alerts' = [i \in DOMAIN alerts \cup {nextId} |->
                     IF i = nextId
                     THEN [severity |-> Head(todo[c]), resolved |-> FALSE, resolvedAt |-> 0]
                     ELSE alerts[i]]
    /\ nextId' = nextId + 1
    /\ sending' = [sending EXCEPT ![c] = nextId]
    /\ todo' = [todo EXCEPT ![c] = Tail(@)]
    /\ UNCHANGED <<now, ctx, handlers, channels, loops, history>>

\* CreateAlert, after the mutex: a send that never waits.
SendAlert(c) ==
    /\ sending[c] # None
    /\ IF Len(alertChan) < ChannelSize
       THEN /\ alertChan' = Append(alertChan, sending[c])
            /\ UNCHANGED dropped
       ELSE /\ dropped' = dropped \cup {<<"alert", sending[c]>>}
            /\ UNCHANGED alertChan
    /\ sending' = [sending EXCEPT ![c] = None]
    /\ UNCHANGED <<now, ctx, todo, resolveChan, handlers, heard, resolutions, store,
                   loops>>

-----------------------------------------------------------------------------
(* Resolving alerts *)

\* Mutant: an alert is resolved as often as it is asked for.
ResolvableKnown(id) == id \in DOMAIN alerts

\* ResolveAlert returns an error for an alert it does not know or that is
\* resolved.
Resolvable(id) == id \in DOMAIN alerts /\ ~alerts[id].resolved

\* ResolveAlert, all of it under the mutex.
ResolveAlert(id) ==
    /\ Resolvable(id)
    /\ alerts' = [alerts EXCEPT ![id].resolved = TRUE, ![id].resolvedAt = now]
    /\ IF Len(resolveChan) < ChannelSize
       THEN /\ resolveChan' = Append(resolveChan, id)
            /\ UNCHANGED dropped
       ELSE /\ dropped' = dropped \cup {<<"resolved", id>>}
            /\ UNCHANGED resolveChan
    /\ resolutions' = resolutions \cup {<<id, now>>}
    /\ UNCHANGED <<now, ctx, nextId, alertChan, handlers, heard, calls, loops>>

\* Mutant: age alone decides.
OldAnyway(id) == alerts[id].resolvedAt < now - Retention

\* What cleanupOldAlerts deletes.
Old(id) == alerts[id].resolved /\ alerts[id].resolvedAt < now - Retention

cleanupOldAlerts ==
    /\ cleaner = "on"
    /\ alerts' = [i \in {j \in DOMAIN alerts : ~Old(j)} |-> alerts[i]]
    /\ UNCHANGED <<now, ctx, nextId, handlers, calls, channels, loops, history>>

-----------------------------------------------------------------------------
(* processAlerts *)

\* The select takes either channel when both are ready.
TakeAlert ==
    /\ current.at = "select" /\ alertChan # << >>
    /\ current' = [at |-> "handle", news |-> <<"alert", Head(alertChan)>>, left |-> handlers]
    /\ alertChan' = Tail(alertChan)
    /\ UNCHANGED <<now, ctx, resolveChan, handlers, cleaner, store, calls, history>>

TakeResolved ==
    /\ current.at = "select" /\ resolveChan # << >>
    /\ current' = [at |-> "handle", news |-> <<"resolved", Head(resolveChan)>>, left |-> handlers]
    /\ resolveChan' = Tail(resolveChan)
    /\ UNCHANGED <<now, ctx, alertChan, handlers, cleaner, store, calls, history>>

\* Mutant: the handlers after one that fails are not called.
AfterHandlerStop(err) ==
    IF err \/ Len(current.left) = 1 THEN Idle ELSE [current EXCEPT !.left = Tail(@)]

\* Mutant: the goroutine ends when a handler fails.
AfterHandlerDie(err) ==
    IF err THEN [Idle EXCEPT !.at = "done"]
    ELSE IF Len(current.left) = 1 THEN Idle ELSE [current EXCEPT !.left = Tail(@)]

\* A handler's error is logged and the next handler is called.
AfterHandler(err) ==
    IF Len(current.left) = 1 THEN Idle ELSE [current EXCEPT !.left = Tail(@)]

\* handleAlert and handleAlertResolved, one handler.
CallHandler(err) ==
    /\ current.at = "handle" /\ current.left # << >>
    /\ heard' = [heard EXCEPT ![Head(current.left)] = Append(@, current.news)]
    /\ current' = AfterHandler(err)
    /\ UNCHANGED <<now, ctx, handlers, cleaner, dropped, resolutions, store, calls,
                   channels>>

NoHandler ==
    /\ current.at = "handle" /\ current.left = << >>
    /\ current' = Idle
    /\ UNCHANGED <<now, ctx, handlers, cleaner, store, calls, channels, history>>

Cancel ==
    /\ ctx = "running"
    /\ ctx' = "cancelled"
    /\ UNCHANGED <<now, handlers, store, calls, channels, loops, history>>

\* Both goroutines end at their next select; what is queued stays queued.
EndProcessing ==
    /\ ctx = "cancelled" /\ current.at = "select"
    /\ current' = [Idle EXCEPT !.at = "done"]
    /\ UNCHANGED <<now, ctx, handlers, cleaner, store, calls, channels, history>>

EndCleanup ==
    /\ ctx = "cancelled" /\ cleaner = "on"
    /\ cleaner' = "done"
    /\ UNCHANGED <<now, ctx, handlers, current, store, calls, channels, history>>

Tick ==
    /\ now < Retention + MaxTime
    /\ now' = now + 1
    /\ UNCHANGED <<ctx, handlers, store, calls, channels, loops, history>>

Processing == TakeAlert \/ TakeResolved \/ NoHandler \/ \E err \in BOOLEAN : CallHandler(err)

Next ==
    \/ AddHandler \/ Start \/ Cancel \/ Tick
    \/ \E c \in Callers :
          \/ \E s \in Severities : CallCreateAlert(c, s)
          \/ \E metrics \in MetricInputs : CheckThresholds(c, metrics)
          \/ StoreAlert(c) \/ SendAlert(c)
    \/ \E id \in Created : ResolveAlert(id)
    \/ cleanupOldAlerts \/ Processing \/ EndProcessing \/ EndCleanup

Spec == Init /\ [][Next]_vars

\* The runtime schedules every goroutine that can run.
FairSpec ==
    /\ Spec
    /\ WF_vars(Processing)
    /\ \A c \in Callers : WF_vars(SendAlert(c))

-----------------------------------------------------------------------------
(* Properties *)

\* GetAlerts without a limit, by severity ("" for any) and state.
GetAlerts(severity, resolved) ==
    {id \in DOMAIN alerts : /\ severity = "" \/ alerts[id].severity = severity
                            /\ alerts[id].resolved = resolved}

GetActiveAlerts == GetAlerts("", FALSE)

GetCriticalAlerts == GetAlerts("critical", FALSE)

\* GetAlertStats: total, active and resolved alerts, and those of a severity.
GetAlertStats ==
    [total    |-> Cardinality(DOMAIN alerts),
     active   |-> Cardinality({id \in DOMAIN alerts : ~alerts[id].resolved}),
     resolved |-> Cardinality({id \in DOMAIN alerts : alerts[id].resolved}),
     critical |-> Cardinality({id \in DOMAIN alerts : alerts[id].severity = "critical"})]

\* Where a piece of news can be on its way to the handlers.
OnItsWay(news) ==
    \/ news[1] = "alert" /\ \E c \in Callers : sending[c] = news[2]
    \/ news[1] = "alert" /\ \E i \in DOMAIN alertChan : alertChan[i] = news[2]
    \/ news[1] = "resolved" /\ \E i \in DOMAIN resolveChan : resolveChan[i] = news[2]
    \/ current.at = "handle" /\ current.news = news

Heard(h, news) == \E i \in DOMAIN heard[h] : heard[h][i] = news

\* What has been reported so far.
Reported ==
    {<<"alert", id>> : id \in Created} \cup {<<"resolved", r[1]>> : r \in resolutions}

\* Creators, resolvers, the cleanup and two channels read in any order: a
\* handler is never told the same news twice, is told of nothing that was not
\* reported, and news that was dropped at a full channel or is still on its way
\* has not reached it.
ToldOnce ==
    \A h \in Range(Handlers) :
        /\ \A i, j \in DOMAIN heard[h] : heard[h][i] = heard[h][j] => i = j
        /\ \A i \in DOMAIN heard[h] : heard[h][i] \in Reported \ dropped

\* News that met room in its channel is never lost: unless it is on its way,
\* every handler has been told, whatever other handlers returned.
NoNewsLost ==
    \A news \in Reported \ dropped :
        OnItsWay(news) \/ \A i \in DOMAIN handlers : Heard(handlers[i], news)

\* The cleanup never takes an alert that is still open: the statistics count
\* every alert that nobody has resolved, the critical ones are among them, and
\* an alert that is gone was resolved longer than Retention ago.
OpenAlertsKept ==
    /\ GetAlertStats.active = Cardinality(Created) - Cardinality(resolutions)
    /\ GetAlertStats.total = GetAlertStats.active + GetAlertStats.resolved
    /\ GetCriticalAlerts \subseteq GetActiveAlerts
    /\ \A id \in Created \ DOMAIN alerts :
          \E r \in resolutions : r[1] = id /\ r[2] < now - Retention

\* An alert that is stored reaches every handler or is dropped, unless the
\* manager is not running; a handler that fails does not end the processing.
NewsArrives ==
    \A id \in 1 .. MaxAlerts :
        (\E c \in Callers : sending[c] = id) ~>
            \/ ctx # "running"
            \/ <<"alert", id>> \in dropped
            \/ \A i \in DOMAIN handlers : Heard(handlers[i], <<"alert", id>>)

=============================================================================
