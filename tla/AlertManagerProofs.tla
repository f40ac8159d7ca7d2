-------------------------- MODULE AlertManagerProofs --------------------------
(***************************************************************************)
(* Proofs about the alert manager, for any callers, handlers, channel      *)
(* sizes and retention.                                                    *)
(***************************************************************************)
EXTENDS AlertManager, FiniteSetTheorems, SequenceTheorems, TLAPS

(***************************************************************************)
(* The map of alerts                                                       *)
(***************************************************************************)

Open == {id \in DOMAIN alerts : ~alerts[id].resolved}

IsAlert(a) ==
    /\ DOMAIN a = {"severity", "resolved", "resolvedAt"}
    /\ a.resolved \in BOOLEAN /\ a.resolvedAt \in Nat

StoreTyped ==
    /\ now \in Nat /\ nextId \in Nat \ {0}
    /\ DOMAIN alerts \subseteq Created
    /\ \A id \in DOMAIN alerts : IsAlert(alerts[id])
    /\ resolutions \subseteq Created \X Nat

\* The alerts in the map and the history of resolutions: an alert is marked
\* resolved exactly when it was resolved, and one that is gone was resolved
\* long enough ago.
ResolutionsKept ==
    /\ \A id \in DOMAIN alerts :
          IF alerts[id].resolved THEN <<id, alerts[id].resolvedAt>> \in resolutions
                                 ELSE \A r \in resolutions : r[1] # id
    /\ \A id \in Created \ DOMAIN alerts :
          \E r \in resolutions : r[1] = id /\ r[2] < now - Retention

OpenCounted ==
    /\ IsFiniteSet(resolutions)
    /\ Cardinality(Open) = Cardinality(Created) - Cardinality(resolutions)

StoreInv == StoreTyped /\ ResolutionsKept /\ OpenCounted

-----------------------------------------------------------------------------

\* The sets of ids are finite.
LEMMA IdsFinite ==
    ASSUME StoreTyped
    PROVE  /\ IsFiniteSet(Created) /\ Cardinality(Created) = nextId - 1
           /\ IsFiniteSet(DOMAIN alerts)
           /\ IsFiniteSet(Open) /\ Cardinality(Open) \in Nat
<1>1. IsFiniteSet(1 .. nextId - 1) /\ Cardinality(1 .. nextId - 1) = nextId - 1
  <2>1. nextId - 1 \in Nat /\ 1 \in Int /\ nextId - 1 \in Int
    BY DEF StoreTyped
  <2> QED BY <2>1, FS_Interval
<1>2. IsFiniteSet(DOMAIN alerts)
  BY <1>1, FS_Subset DEF StoreTyped, Created
<1>3. Open \subseteq DOMAIN alerts
  BY DEF Open
<1> QED BY <1>1, <1>2, <1>3, FS_Subset, FS_CardinalityType DEF Created

\* An empty map.
LEMMA StoreInit == Init => StoreInv
<1> SUFFICES ASSUME Init PROVE StoreInv
  OBVIOUS
<1>1. Created = {} /\ DOMAIN alerts = {} /\ Open = {} /\ resolutions = {}
  BY DEF Init, Created, Open
<1>2. StoreTyped
  BY <1>1, AlertAssumption DEF Init, StoreTyped
<1>3. ResolutionsKept
  BY <1>1 DEF ResolutionsKept
<1>4. OpenCounted
  BY <1>1, FS_EmptySet DEF OpenCounted
<1> QED BY <1>2, <1>3, <1>4 DEF StoreInv

\* Steps that do not touch the map; time may pass.
LEMMA StoreQuiet ==
    ASSUME StoreInv, UNCHANGED <<alerts, nextId, resolutions>>, now' \in {now, now + 1}
    PROVE  StoreInv'
<1>1. StoreTyped' /\ Created' = Created /\ Open' = Open
  BY DEF StoreInv, StoreTyped, Created, Open
<1>2. ResolutionsKept'
  <2>1. ASSUME NEW r \in resolutions, r[2] < now - Retention
        PROVE  r[2] < now' - Retention
    BY <2>1, AlertAssumption DEF StoreInv, StoreTyped
  <2> QED BY <1>1, <2>1 DEF StoreInv, ResolutionsKept
<1>3. OpenCounted'
  BY <1>1 DEF StoreInv, OpenCounted
<1> QED BY <1>1, <1>2, <1>3 DEF StoreInv

\* CreateAlert: the new id is not in the map, and the alert is open.
LEMMA StoreCreate ==
    ASSUME StoreInv, NEW c \in Callers, StoreAlert(c)
    PROVE  StoreInv'
<1>0. /\ DOMAIN alerts' = DOMAIN alerts \cup {nextId}
      /\ alerts'[nextId] = [severity |-> Head(todo[c]), resolved |-> FALSE, resolvedAt |-> 0]
      /\ nextId' = nextId + 1
      /\ UNCHANGED <<now, resolutions>>
  BY DEF StoreAlert, history
<1>1. nextId \in Nat \ {0} /\ nextId \notin Created /\ Created' = Created \cup {nextId}
  BY <1>0 DEF StoreInv, StoreTyped, Created
<1>2. \A id \in DOMAIN alerts : id # nextId /\ alerts'[id] = alerts[id]
  BY <1>1 DEF StoreAlert, StoreInv, StoreTyped
<1>3. \A r \in resolutions : r[1] \in Created
  BY DEF StoreInv, StoreTyped
<1>4. StoreTyped'
  <2>1. DOMAIN alerts' \subseteq Created' /\ resolutions' \subseteq Created' \X Nat
    BY <1>0, <1>1 DEF StoreInv, StoreTyped
  <2>2. IsAlert(alerts'[nextId])
    BY <1>0 DEF IsAlert
  <2>3. \A j \in DOMAIN alerts' : IsAlert(alerts'[j])
    BY <1>0, <1>2, <2>2 DEF StoreInv, StoreTyped
  <2>4. now' \in Nat /\ nextId' \in Nat \ {0}
    BY <1>0, <1>1 DEF StoreInv, StoreTyped
  <2> QED BY <2>1, <2>3, <2>4 DEF StoreTyped
<1>5. ResolutionsKept'
  <2>1. ~alerts'[nextId].resolved /\ \A r \in resolutions : r[1] # nextId
    BY <1>0, <1>1, <1>3
  <2>2. Created' \ DOMAIN alerts' = Created \ DOMAIN alerts
    BY <1>0, <1>1
  <2> QED BY <1>0, <1>2, <2>1, <2>2 DEF StoreInv, ResolutionsKept
<1>6. OpenCounted'
  <2>1. Open' = Open \cup {nextId} /\ nextId \notin Open
    BY <1>0, <1>1, <1>2 DEF Open
  <2>2. Cardinality(Open') = Cardinality(Open) + 1
    BY <2>1, IdsFinite, FS_AddElement DEF StoreInv
  <2>3. Cardinality(Created') = Cardinality(Created) + 1
    BY <1>1, IdsFinite, FS_AddElement DEF StoreInv
  <2>4. /\ Cardinality(Open) \in Nat /\ Cardinality(resolutions) \in Nat
        /\ Cardinality(Created) \in Nat
    BY IdsFinite, FS_CardinalityType DEF StoreInv, OpenCounted
  <2> QED BY <1>0, <2>2, <2>3, <2>4 DEF StoreInv, OpenCounted
<1> QED BY <1>4, <1>5, <1>6 DEF StoreInv

\* ResolveAlert: an open alert, so one that was never resolved.
LEMMA StoreResolve ==
    ASSUME StoreInv, NEW id \in Created, ResolveAlert(id)
    PROVE  StoreInv' /\ \A r \in resolutions : r[1] # id
<1>0. /\ id \in DOMAIN alerts /\ ~alerts[id].resolved
      /\ alerts' = [alerts EXCEPT ![id].resolved = TRUE, ![id].resolvedAt = now]
      /\ resolutions' = resolutions \cup {<<id, now>>}
      /\ UNCHANGED <<now, nextId>>
  BY DEF ResolveAlert, Resolvable
<1>1. \A r \in resolutions : r[1] # id
  BY <1>0 DEF StoreInv, ResolutionsKept
<1>2. /\ DOMAIN alerts' = DOMAIN alerts
      /\ IsAlert(alerts'[id])
      /\ alerts'[id].resolved = TRUE /\ alerts'[id].resolvedAt = now
      /\ \A j \in DOMAIN alerts : j # id => alerts'[j] = alerts[j]
  BY <1>0 DEF StoreInv, StoreTyped, IsAlert
<1>3. StoreTyped' /\ Created' = Created
  <2>1. \A j \in DOMAIN alerts' : IsAlert(alerts'[j])
    BY <1>2 DEF StoreInv, StoreTyped
  <2>2. resolutions' \subseteq Created \X Nat /\ Created' = Created
    BY <1>0 DEF StoreInv, StoreTyped, Created
  <2> QED BY <1>0, <1>2, <2>1, <2>2 DEF StoreInv, StoreTyped
<1>4. ResolutionsKept'
  <2>1. ASSUME NEW j \in DOMAIN alerts
        PROVE  IF alerts'[j].resolved THEN <<j, alerts'[j].resolvedAt>> \in resolutions'
                                      ELSE \A r \in resolutions' : r[1] # j
    <3>1. CASE j = id
      BY <1>0, <1>2, <3>1
    <3>2. CASE j # id
      BY <1>0, <1>2, <3>2 DEF StoreInv, ResolutionsKept
    <3> QED BY <3>1, <3>2
  <2> QED BY <1>0, <1>2, <1>3, <2>1 DEF StoreInv, ResolutionsKept
<1>5. OpenCounted'
  <2>1. Open' = Open \ {id} /\ id \in Open
    BY <1>0, <1>2 DEF Open
  <2>2. Cardinality(Open') = Cardinality(Open) - 1
    BY <2>1, IdsFinite, FS_RemoveElement DEF StoreInv
  <2>3. <<id, now>> \notin resolutions
    BY <1>1
  <2>4. /\ IsFiniteSet(resolutions')
        /\ Cardinality(resolutions') = Cardinality(resolutions) + 1
    BY <1>0, <2>3, FS_AddElement DEF StoreInv, OpenCounted
  <2>5. /\ Cardinality(Open) \in Nat /\ Cardinality(resolutions) \in Nat
        /\ Cardinality(Created) \in Nat
    BY IdsFinite, FS_CardinalityType DEF StoreInv, OpenCounted
  <2> QED BY <1>3, <2>2, <2>4, <2>5 DEF StoreInv, OpenCounted
<1> QED BY <1>1, <1>3, <1>4, <1>5 DEF StoreInv

\* cleanupOldAlerts: what it takes was resolved, and long ago.
LEMMA StoreCleanup ==
    ASSUME StoreInv, cleanupOldAlerts
    PROVE  StoreInv'
<1>0. /\ DOMAIN alerts' = {j \in DOMAIN alerts : ~Old(j)}
      /\ \A j \in DOMAIN alerts' : alerts'[j] = alerts[j]
      /\ UNCHANGED <<now, nextId, resolutions>>
  BY DEF cleanupOldAlerts, history
<1>1. StoreTyped' /\ Created' = Created
  BY <1>0 DEF StoreInv, StoreTyped, Created
<1>2. Open' = Open
  BY <1>0 DEF Open, Old
<1>3. ResolutionsKept'
  <2>1. ASSUME NEW j \in Created \ DOMAIN alerts'
        PROVE  \E r \in resolutions : r[1] = j /\ r[2] < now - Retention
    <3>1. CASE j \in DOMAIN alerts
      <4>1. alerts[j].resolved /\ alerts[j].resolvedAt < now - Retention
        BY <1>0, <3>1 DEF Old
      <4>2. <<j, alerts[j].resolvedAt>> \in resolutions
        BY <3>1, <4>1 DEF StoreInv, ResolutionsKept
      <4> QED BY <4>1, <4>2
    <3>2. CASE j \notin DOMAIN alerts
      BY <3>2 DEF StoreInv, ResolutionsKept
    <3> QED BY <3>1, <3>2
  <2> QED BY <1>0, <1>1, <2>1 DEF StoreInv, ResolutionsKept
<1>4. OpenCounted'
  BY <1>0, <1>1, <1>2 DEF StoreInv, OpenCounted
<1> QED BY <1>1, <1>3, <1>4 DEF StoreInv

\* Every step preserves the invariant of the map.
LEMMA StoreNext == StoreInv /\ [Next]_vars => StoreInv'
<1> SUFFICES ASSUME StoreInv, [Next]_vars PROVE StoreInv'
  OBVIOUS
<1> USE DEF store, calls, channels, loops, history
<1>1. CASE AddHandler \/ Start \/ Cancel \/ Tick \/ EndProcessing \/ EndCleanup
  BY <1>1, StoreQuiet DEF AddHandler, Start, Cancel, Tick, EndProcessing, EndCleanup
<1>2. ASSUME NEW c \in Callers, NEW s \in Severities, CallCreateAlert(c, s) PROVE StoreInv'
  BY <1>2, StoreQuiet DEF CallCreateAlert
<1>3. ASSUME NEW c \in Callers, NEW m \in MetricInputs, CheckThresholds(c, m) PROVE StoreInv'
  BY <1>3, StoreQuiet DEF CheckThresholds
<1>4. ASSUME NEW c \in Callers, StoreAlert(c) PROVE StoreInv'
  BY <1>4, StoreCreate
<1>5. ASSUME NEW c \in Callers, SendAlert(c) PROVE StoreInv'
  BY <1>5, StoreQuiet DEF SendAlert
<1>6. CASE cleanupOldAlerts \/ \E id \in Created : ResolveAlert(id)
  BY <1>6, StoreCleanup, StoreResolve
<1>7. CASE Processing
  <2>1. CASE TakeAlert \/ TakeResolved \/ NoHandler
    BY <2>1, StoreQuiet DEF TakeAlert, TakeResolved, NoHandler
  <2>2. ASSUME NEW err \in BOOLEAN, CallHandler(err) PROVE StoreInv'
    BY <2>2, StoreQuiet DEF CallHandler
  <2> QED BY <1>7, <2>1, <2>2 DEF Processing
<1>8. CASE UNCHANGED vars
  BY <1>8, StoreQuiet DEF vars
<1> QED
  BY <1>1, <1>2, <1>3, <1>4, <1>5, <1>6, <1>7, <1>8 DEF Next

\* The invariant of the map holds in every reachable state.
THEOREM StoreInvariance == Spec => []StoreInv
BY StoreInit, StoreNext, PTL DEF Spec

\* cleanupOldAlerts never takes an open alert, GetAlertStats counts every
\* alert that nobody has resolved, and an alert that is gone was resolved
\* longer than the retention ago.
THEOREM OpenTheorem == Spec => []OpenAlertsKept
<1>1. StoreInv => OpenAlertsKept
  <2> SUFFICES ASSUME StoreInv PROVE OpenAlertsKept
    OBVIOUS
  <2> DEFINE Closed == {id \in DOMAIN alerts : alerts[id].resolved}
  <2>1. GetAlertStats.active = Cardinality(Created) - Cardinality(resolutions)
    BY DEF GetAlertStats, StoreInv, OpenCounted, Open
  <2>2. GetAlertStats.total = GetAlertStats.active + GetAlertStats.resolved
    <3>1. DOMAIN alerts = Open \cup Closed /\ Open \cap Closed = {}
      BY DEF Open
    <3>2. IsFiniteSet(Open) /\ IsFiniteSet(Closed)
      BY <3>1, IdsFinite, FS_Subset DEF StoreInv
    <3>3. Cardinality(DOMAIN alerts)
              = Cardinality(Open) + Cardinality(Closed) - Cardinality(Open \cap Closed)
      BY <3>1, <3>2, FS_Union
    <3>4. Cardinality(Open \cap Closed) = 0
      BY <3>1, FS_EmptySet
    <3>5. Cardinality(Open) \in Nat /\ Cardinality(Closed) \in Nat
      BY <3>2, FS_CardinalityType
    <3>6. Cardinality(DOMAIN alerts) = Cardinality(Open) + Cardinality(Closed)
      BY <3>3, <3>4, <3>5
    <3> QED BY <3>6 DEF GetAlertStats, Open
  <2>3. GetCriticalAlerts \subseteq GetActiveAlerts
    BY DEF GetCriticalAlerts, GetActiveAlerts, GetAlerts
  <2> QED
    BY <2>1, <2>2, <2>3 DEF OpenAlertsKept, StoreInv, ResolutionsKept
<1> QED BY <1>1, StoreInvariance, PTL

(***************************************************************************)
(* The news on its way to the handlers                                     *)
(***************************************************************************)

News == {"alert", "resolved"} \X Nat

Member(s, x) == \E i \in DOMAIN s : s[i] = x

\* News that is in a channel, or with a caller that is about to send it; and
\* the news that the processing goroutine calls the handlers with.
Queued(n) ==
    \/ n[1] = "alert" /\ \E c \in Callers : sending[c] = n[2]
    \/ n[1] = "alert" /\ Member(alertChan, n[2])
    \/ n[1] = "resolved" /\ Member(resolveChan, n[2])

InHand(n) == current.at = "handle" /\ current.news = n

NewsTyped ==
    /\ sending \in [Callers -> Nat \cup {None}]
    /\ alertChan \in Seq(Nat) /\ resolveChan \in Seq(Nat)
    /\ handlers \in Seq(Range(Handlers)) /\ Len(handlers) <= Len(Handlers)
    /\ \A i \in DOMAIN handlers : handlers[i] = Handlers[i]
    /\ heard \in [Range(Handlers) -> Seq(News)]
    /\ current \in [at : {"off", "select", "handle", "done"}, news : News \cup {None},
                    left : Seq(Range(Handlers))]
    /\ ctx = "new" => current.at = "off"

\* While the goroutine handles news, the handlers left are the last ones.
LastHandlersLeft ==
    current.at = "handle" =>
        /\ current.news \in News
        /\ Len(current.left) <= Len(handlers)
        /\ \A i \in DOMAIN current.left :
              current.left[i] = handlers[Len(handlers) - Len(current.left) + i]

\* No alert is in two places of the way, or twice in one.
InOnePlace ==
    /\ \A c, d \in Callers : sending[c] = sending[d] /\ sending[c] # None => c = d
    /\ IsInjective(alertChan) /\ IsInjective(resolveChan)
    /\ \A c \in Callers : ~Member(alertChan, sending[c])

\* News that waits has not been heard, news in hand has been heard by the
\* handlers called so far, and all other news that was not dropped has been
\* heard by all.  Before Start everything waits.
NewsPlaced ==
    /\ \A n \in News : Queued(n) =>
          /\ n \in Reported \ dropped /\ ~InHand(n)
          /\ \A h \in Range(Handlers) : ~Heard(h, n)
    /\ dropped \subseteq Reported
    /\ \A n \in News : InHand(n) =>
          /\ n \in Reported \ dropped
          /\ \A i \in DOMAIN handlers :
                Heard(handlers[i], n) <=> i <= Len(handlers) - Len(current.left)
    /\ \A h \in Range(Handlers) : \A n \in News : Heard(h, n) => n \in Reported \ dropped
    /\ \A h \in Range(Handlers) : IsInjective(heard[h])
    /\ \A n \in Reported \ dropped :
          Queued(n) \/ InHand(n) \/ \A i \in DOMAIN handlers : Heard(handlers[i], n)
    /\ ctx = "new" => \A n \in Reported \ dropped : Queued(n)

NewsInv == NewsTyped /\ LastHandlersLeft /\ InOnePlace /\ NewsPlaced

-----------------------------------------------------------------------------

\* What a sequence holds after something is appended.
LEMMA AppendMember ==
    ASSUME NEW S, NEW s \in Seq(S), NEW e \in S
    PROVE  /\ Append(s, e) \in Seq(S)
           /\ \A x : Member(Append(s, e), x) <=> Member(s, x) \/ x = e
           /\ IsInjective(s) /\ ~Member(s, e) => IsInjective(Append(s, e))
<1>1. /\ Append(s, e) \in Seq(S)
      /\ DOMAIN s = 1 .. Len(s) /\ Len(s) \in Nat
      /\ DOMAIN Append(s, e) = 1 .. Len(s) + 1
      /\ Append(s, e)[Len(s) + 1] = e
      /\ \A i \in 1 .. Len(s) : Append(s, e)[i] = s[i]
  BY AppendProperties, LenProperties
<1>2. \A i \in 1 .. Len(s) + 1 : i \in 1 .. Len(s) \/ i = Len(s) + 1
  BY <1>1
<1>3. /\ Len(s) + 1 \in 1 .. Len(s) + 1
      /\ \A i \in 1 .. Len(s) : i \in 1 .. Len(s) + 1
  BY <1>1
<1>4. \A x : Member(Append(s, e), x) <=> Member(s, x) \/ x = e
  BY <1>1, <1>2, <1>3, Zenon DEF Member
<1>5. ASSUME IsInjective(s), ~Member(s, e)
      PROVE  IsInjective(Append(s, e))
  BY <1>1, <1>2, <1>5, Zenon DEF IsInjective, Member
<1> QED BY <1>1, <1>4, <1>5

\* What a sequence holds after its head is taken.
LEMMA TailMember ==
    ASSUME NEW S, NEW s \in Seq(S), s # << >>
    PROVE  /\ Tail(s) \in Seq(S) /\ Head(s) \in S
           /\ Member(s, Head(s))
           /\ IsInjective(s) =>
                 /\ IsInjective(Tail(s))
                 /\ \A x : Member(Tail(s), x) <=> Member(s, x) /\ x # Head(s)
<1>1. /\ Tail(s) \in Seq(S) /\ Head(s) \in S /\ Head(s) = s[1]
      /\ Len(s) \in Nat \ {0} /\ DOMAIN s = 1 .. Len(s)
      /\ DOMAIN Tail(s) = 1 .. Len(s) - 1
      /\ \A i \in 1 .. Len(s) - 1 : Tail(s)[i] = s[i + 1]
  BY HeadTailProperties, LenProperties, EmptySeq
<1>2. 1 \in 1 .. Len(s)
  BY <1>1
<1>3. ASSUME IsInjective(s)
      PROVE  IsInjective(Tail(s))
  <2> SUFFICES ASSUME NEW i \in 1 .. Len(s) - 1, NEW j \in 1 .. Len(s) - 1,
                      Tail(s)[i] = Tail(s)[j]
               PROVE  i = j
    BY <1>1, Zenon DEF IsInjective
  <2>1. i + 1 \in DOMAIN s /\ j + 1 \in DOMAIN s /\ s[i + 1] = s[j + 1]
    BY <1>1
  <2>2. i + 1 = j + 1
    BY <1>3, <2>1, Zenon DEF IsInjective
  <2> QED BY <2>2
<1>4. ASSUME IsInjective(s), NEW x
      PROVE  Member(Tail(s), x) <=> Member(s, x) /\ x # Head(s)
  <2>1. ASSUME Member(Tail(s), x) PROVE Member(s, x) /\ x # Head(s)
    <3>1. PICK i \in 1 .. Len(s) - 1 : Tail(s)[i] = x
      BY <1>1, <2>1, Zenon DEF Member
    <3>2. i + 1 \in DOMAIN s /\ s[i + 1] = x /\ i + 1 # 1
      BY <1>1, <3>1
    <3> QED BY <1>1, <1>2, <1>4, <3>2, Zenon DEF Member, IsInjective
  <2>2. ASSUME Member(s, x), x # Head(s) PROVE Member(Tail(s), x)
    <3>1. PICK i \in 1 .. Len(s) : s[i] = x
      BY <1>1, <2>2, Zenon DEF Member
    <3>2. i - 1 \in 1 .. Len(s) - 1 /\ Tail(s)[i - 1] = x
      BY <1>1, <2>2, <3>1
    <3> QED BY <1>1, <3>2, Zenon DEF Member
  <2> QED BY <2>1, <2>2
<1> QED BY <1>1, <1>2, <1>3, <1>4, Zenon DEF Member

\* What has been reported, as pairs.
LEMMA ReportedPairs ==
    ASSUME StoreTyped
    PROVE  /\ Reported \subseteq News
           /\ \A x : <<"alert", x>> \in Reported <=> x \in Created
           /\ \A x : <<"resolved", x>> \in Reported <=> \E r \in resolutions : r[1] = x
<1>1. Created \subseteq Nat
  BY DEF StoreTyped, Created
<1>2. \A r \in resolutions : r[1] \in Nat
  BY <1>1 DEF StoreTyped
<1>3. \A x : <<"alert", x>> \in Reported <=> x \in Created
  BY DEF Reported
<1>4. \A x : <<"resolved", x>> \in Reported <=> \E r \in resolutions : r[1] = x
  BY DEF Reported
<1>5. Reported \subseteq News
  BY <1>1, <1>2 DEF Reported, News
<1> QED BY <1>3, <1>4, <1>5

\* Waiting news by its two parts.
LEMMA QueuedPairs ==
    ASSUME NEW x
    PROVE  /\ Queued(<<"alert", x>>) <=>
                 (\E c \in Callers : sending[c] = x) \/ Member(alertChan, x)
           /\ Queued(<<"resolved", x>>) <=> Member(resolveChan, x)
BY DEF Queued


\* Steps after which the same news waits, is in hand and has been heard.
LEMMA NewsSame ==
    ASSUME NewsInv, NewsTyped', LastHandlersLeft', InOnePlace',
           UNCHANGED <<heard, dropped, handlers>>, Reported' = Reported,
           \A n \in News : Queued(n)' <=> Queued(n),
           \A n \in News : InHand(n)' <=> InHand(n),
           current.at = "handle" => current'.left = current.left,
           ctx' = "new" => ctx = "new",
           Reported \subseteq News
    PROVE  NewsInv'
<1>1. \A n \in News : InHand(n) => current'.left = current.left
  BY DEF InHand
<1>2. \A h, n : Heard(h, n)' <=> Heard(h, n)
  BY DEF Heard
<1>3. NewsPlaced'
  <2>1. (\A n \in News : Queued(n) =>
          /\ n \in Reported \ dropped /\ ~InHand(n)
          /\ \A h \in Range(Handlers) : ~Heard(h, n))'
    BY <1>2 DEF NewsInv, NewsPlaced
  <2>2. (\A n \in News : InHand(n) =>
          /\ n \in Reported \ dropped
          /\ \A i \in DOMAIN handlers :
                Heard(handlers[i], n) <=> i <= Len(handlers) - Len(current.left))'
    BY <1>1 DEF NewsInv, NewsPlaced, Heard
  <2>3. (\A h \in Range(Handlers) : \A n \in News : Heard(h, n) => n \in Reported \ dropped)'
    BY <1>2 DEF NewsInv, NewsPlaced
  <2>4. (\A n \in Reported \ dropped :
          Queued(n) \/ InHand(n) \/ \A i \in DOMAIN handlers : Heard(handlers[i], n))'
    BY DEF NewsInv, NewsPlaced, Heard
  <2>5. (ctx = "new" => \A n \in Reported \ dropped : Queued(n))'
    BY DEF NewsInv, NewsPlaced
  <2> QED BY <2>1, <2>2, <2>3, <2>4, <2>5 DEF NewsInv, NewsPlaced
<1> QED BY <1>3 DEF NewsInv

\* Nothing is reported before the first call.
LEMMA NewsInit == Init => NewsInv
<1> SUFFICES ASSUME Init PROVE NewsInv
  OBVIOUS
<1>1. Reported = {} /\ dropped = {}
  BY DEF Init, Reported, Created
<1>2. current = [at |-> "off", news |-> None, left |-> << >>]
  BY DEF Init, Idle
<1>3. NewsTyped
  <2>1. \A S : << >> \in Seq(S) /\ Len(<< >>) = 0 /\ DOMAIN << >> = {}
    BY EmptySeq
  <2>2. /\ sending \in [Callers -> Nat \cup {None}]
        /\ alertChan \in Seq(Nat) /\ resolveChan \in Seq(Nat)
        /\ heard \in [Range(Handlers) -> Seq(News)]
    BY <2>1 DEF Init
  <2>3. /\ handlers \in Seq(Range(Handlers))
        /\ \A i \in DOMAIN handlers : handlers[i] = Handlers[i]
    BY <2>1 DEF Init
  <2>4. Len(handlers) <= Len(Handlers)
    <3>1. Len(handlers) = 0 /\ Len(Handlers) \in Nat
      BY <2>1, AlertAssumption, LenProperties DEF Init
    <3> QED BY <3>1
  <2>5. current \in [at : {"off", "select", "handle", "done"}, news : News \cup {None},
                    left : Seq(Range(Handlers))]
    BY <1>2, <2>1
  <2> QED BY <1>2, <2>2, <2>3, <2>4, <2>5 DEF NewsTyped
<1>4. LastHandlersLeft
  BY <1>2 DEF LastHandlersLeft
<1>5. InOnePlace
  BY DEF Init, InOnePlace, IsInjective, Member
<1>6. \A n \in News : ~Queued(n) /\ ~InHand(n)
  <2>1. \A c \in Callers : sending[c] \notin Nat
    BY AlertAssumption DEF Init
  <2>2. \A n \in News : n[2] \in Nat
    BY DEF News
  <2> QED BY <1>2, <2>1, <2>2 DEF Init, Queued, InHand, Member
<1>7. \A h \in Range(Handlers) : heard[h] = << >>
  BY DEF Init
<1>8. NewsPlaced
  BY <1>1, <1>6, <1>7 DEF NewsPlaced, Heard, IsInjective
<1> QED BY <1>3, <1>4, <1>5, <1>8 DEF NewsInv

\* Steps that touch neither the channels nor the handlers, and at most start or
\* end the processing goroutine.
LEMMA NewsQuiet ==
    ASSUME StoreInv, NewsInv, NewsTyped',
           UNCHANGED <<sending, alertChan, resolveChan, handlers, heard, dropped, nextId,
                       resolutions>>,
           current' = current \/ (current.at # "handle" /\ current'.at # "handle"),
           ctx' = "new" => ctx = "new"
    PROVE  NewsInv'
<1>1. LastHandlersLeft'
  BY DEF NewsInv, LastHandlersLeft
<1>2. InOnePlace'
  BY DEF NewsInv, InOnePlace, Member
<1>3. Reported' = Reported
  BY DEF Reported, Created
<1>4. \A n \in News : Queued(n)' <=> Queued(n)
  BY DEF Queued, Member
<1>5. \A n \in News : InHand(n)' <=> InHand(n)
  BY DEF InHand
<1>6. current.at = "handle" => current'.left = current.left
  OBVIOUS
<1>7. Reported \subseteq News
  BY ReportedPairs DEF StoreInv
<1> QED BY <1>1, <1>2, <1>3, <1>4, <1>5, <1>6, <1>7, NewsSame

\* AddHandler comes before Start, when all news waits.
LEMMA NewsAddHandler ==
    ASSUME StoreInv, NewsInv, AddHandler
    PROVE  NewsInv'
<1> USE DEF store, calls, channels, loops, history
<1>0. /\ ctx = "new" /\ current.at = "off"
      /\ Len(handlers) < Len(Handlers)
      /\ handlers' = Append(handlers, Handlers[Len(handlers) + 1])
      /\ UNCHANGED <<ctx, current, sending, alertChan, resolveChan, heard, dropped, nextId,
                     resolutions>>
  BY DEF AddHandler, NewsInv, NewsTyped
<1>1. handlers \in Seq(Range(Handlers)) /\ Len(handlers) \in Nat
  BY DEF NewsInv, NewsTyped
<1>2. Len(handlers) + 1 \in DOMAIN Handlers /\ Len(Handlers) \in Nat
  BY <1>0, <1>1, AlertAssumption
<1>3. Handlers[Len(handlers) + 1] \in Range(Handlers)
  BY <1>2 DEF Range
<1>4. /\ handlers' \in Seq(Range(Handlers))
      /\ Len(handlers') = Len(handlers) + 1
      /\ \A i \in 1 .. Len(handlers) : handlers'[i] = handlers[i]
      /\ handlers'[Len(handlers) + 1] = Handlers[Len(handlers) + 1]
  BY <1>0, <1>1, <1>3, AppendProperties
<1>5. /\ Len(handlers') <= Len(Handlers)
      /\ \A i \in DOMAIN handlers' : handlers'[i] = Handlers[i]
  <2>1. Len(handlers') <= Len(Handlers)
    BY <1>0, <1>1, <1>2, <1>4
  <2>2. \A i \in 1 .. Len(handlers) : handlers[i] = Handlers[i]
    BY <1>1 DEF NewsInv, NewsTyped
  <2> QED BY <1>1, <1>4, <2>1, <2>2
<1>6. NewsTyped'
  BY <1>0, <1>4, <1>5 DEF NewsInv, NewsTyped
<1>7. LastHandlersLeft' /\ InOnePlace'
  BY <1>0 DEF NewsInv, LastHandlersLeft, InOnePlace, Member
<1>8. Reported' = Reported
  BY <1>0 DEF Reported, Created
<1>9. \A n : Queued(n)' <=> Queued(n)
  BY <1>0 DEF Queued, Member
<1>10. \A n : ~InHand(n) /\ ~InHand(n)'
  BY <1>0 DEF InHand
<1>11. \A h, n : Heard(h, n)' <=> Heard(h, n)
  BY <1>0 DEF Heard
<1>12. \A n \in Reported \ dropped : Queued(n)
  BY <1>0 DEF NewsInv, NewsPlaced
<1>13. NewsPlaced'
  BY <1>0, <1>8, <1>9, <1>10, <1>11, <1>12 DEF NewsInv, NewsPlaced
<1> QED BY <1>6, <1>7, <1>13 DEF NewsInv

\* News that is reported for the first time and waits, or is dropped at once.
LEMMA NewsReported ==
    ASSUME NewsInv, NewsTyped', LastHandlersLeft', InOnePlace',
           UNCHANGED <<heard, handlers, current, ctx>>,
           NEW n0 \in News, n0 \notin Reported, Reported' = Reported \cup {n0},
           \/ /\ UNCHANGED dropped
              /\ \A n \in News : Queued(n)' <=> Queued(n) \/ n = n0
           \/ /\ dropped' = dropped \cup {n0}
              /\ \A n \in News : Queued(n)' <=> Queued(n),
           Reported \subseteq News
    PROVE  NewsInv'
<1>1. \A h, n : Heard(h, n)' <=> Heard(h, n)
  BY DEF Heard
<1>2. \A n : InHand(n)' <=> InHand(n)
  BY DEF InHand
<1>3. ~InHand(n0) /\ \A h \in Range(Handlers) : ~Heard(h, n0)
  BY DEF NewsInv, NewsPlaced
<1>4. dropped \subseteq Reported /\ ~Queued(n0)
  BY DEF NewsInv, NewsPlaced
<1>5. (\A n \in News : Queued(n) =>
          /\ n \in Reported \ dropped /\ ~InHand(n)
          /\ \A h \in Range(Handlers) : ~Heard(h, n))'
  BY <1>1, <1>2, <1>3, <1>4 DEF NewsInv, NewsPlaced
<1>6. (\A n \in News : InHand(n) =>
          /\ n \in Reported \ dropped
          /\ \A i \in DOMAIN handlers :
                Heard(handlers[i], n) <=> i <= Len(handlers) - Len(current.left))'
  <2> SUFFICES ASSUME NEW n \in News, InHand(n)
               PROVE  /\ n \in Reported' \ dropped'
                      /\ \A i \in DOMAIN handlers :
                            Heard(handlers[i], n)' <=> i <= Len(handlers) - Len(current.left)
    BY <1>2
  <2>1. n # n0
    BY <1>3
  <2> QED BY <2>1 DEF NewsInv, NewsPlaced, Heard
<1>7. (\A h \in Range(Handlers) : \A n \in News : Heard(h, n) => n \in Reported \ dropped)'
  BY <1>1, <1>3 DEF NewsInv, NewsPlaced
<1>8. (\A n \in Reported \ dropped :
          Queued(n) \/ InHand(n) \/ \A i \in DOMAIN handlers : Heard(handlers[i], n))'
  <2> SUFFICES ASSUME NEW n \in Reported' \ dropped', ~Queued(n)', ~InHand(n)
               PROVE  \A i \in DOMAIN handlers : Heard(handlers[i], n)'
    BY <1>2
  <2>1. n \in Reported \ dropped /\ ~Queued(n)
    OBVIOUS
  <2> QED BY <2>1 DEF NewsInv, NewsPlaced, Heard
<1>9. (ctx = "new" => \A n \in Reported \ dropped : Queued(n))'
  BY DEF NewsInv, NewsPlaced
<1>10. NewsPlaced'
  BY <1>4, <1>5, <1>6, <1>7, <1>8, <1>9 DEF NewsInv, NewsPlaced
<1> QED BY <1>10 DEF NewsInv

\* News that waited and met a full channel.
LEMMA NewsDropped ==
    ASSUME NewsInv, NewsTyped', LastHandlersLeft', InOnePlace',
           UNCHANGED <<heard, handlers, current, ctx>>, Reported' = Reported,
           NEW n0 \in News, Queued(n0), dropped' = dropped \cup {n0},
           \A n \in News : Queued(n)' <=> Queued(n) /\ n # n0,
           Reported \subseteq News
    PROVE  NewsInv'
<1>1. \A h, n : Heard(h, n)' <=> Heard(h, n)
  BY DEF Heard
<1>2. \A n : InHand(n)' <=> InHand(n)
  BY DEF InHand
<1>3. n0 \in Reported /\ ~InHand(n0) /\ \A h \in Range(Handlers) : ~Heard(h, n0)
  BY DEF NewsInv, NewsPlaced
<1>4. (\A n \in News : Queued(n) =>
          /\ n \in Reported \ dropped /\ ~InHand(n)
          /\ \A h \in Range(Handlers) : ~Heard(h, n))'
  BY <1>1, <1>2 DEF NewsInv, NewsPlaced
<1>5. (\A n \in News : InHand(n) =>
          /\ n \in Reported \ dropped
          /\ \A i \in DOMAIN handlers :
                Heard(handlers[i], n) <=> i <= Len(handlers) - Len(current.left))'
  <2> SUFFICES ASSUME NEW n \in News, InHand(n)
               PROVE  /\ n \in Reported' \ dropped'
                      /\ \A i \in DOMAIN handlers :
                            Heard(handlers[i], n)' <=> i <= Len(handlers) - Len(current.left)
    BY <1>2
  <2>1. n # n0
    BY <1>3
  <2> QED BY <2>1 DEF NewsInv, NewsPlaced, Heard
<1>6. (\A h \in Range(Handlers) : \A n \in News : Heard(h, n) => n \in Reported \ dropped)'
  BY <1>1, <1>3 DEF NewsInv, NewsPlaced
<1>7. (\A n \in Reported \ dropped :
          Queued(n) \/ InHand(n) \/ \A i \in DOMAIN handlers : Heard(handlers[i], n))'
  <2> SUFFICES ASSUME NEW n \in Reported' \ dropped', ~Queued(n)', ~InHand(n)
               PROVE  \A i \in DOMAIN handlers : Heard(handlers[i], n)'
    BY <1>2
  <2>1. n \in Reported \ dropped /\ ~Queued(n)
    OBVIOUS
  <2> QED BY <2>1 DEF NewsInv, NewsPlaced, Heard
<1>8. (ctx = "new" => \A n \in Reported \ dropped : Queued(n))'
  BY DEF NewsInv, NewsPlaced
<1>9. dropped' \subseteq Reported'
  BY <1>3 DEF NewsInv, NewsPlaced
<1>10. NewsPlaced'
  BY <1>4, <1>5, <1>6, <1>7, <1>8, <1>9 DEF NewsInv, NewsPlaced
<1> QED BY <1>10 DEF NewsInv

\* News that waited and is taken from its channel: no handler has heard it.
LEMMA NewsTaken ==
    ASSUME NewsInv, NewsTyped', LastHandlersLeft', InOnePlace',
           UNCHANGED <<heard, handlers, dropped, ctx>>, Reported' = Reported,
           NEW n0 \in News, Queued(n0), current.at # "handle",
           current'.at = "handle", current'.news = n0, current'.left = handlers,
           \A n \in News : Queued(n)' <=> Queued(n) /\ n # n0,
           Reported \subseteq News
    PROVE  NewsInv'
<1>1. \A h, n : Heard(h, n)' <=> Heard(h, n)
  BY DEF Heard
<1>2. \A n : ~InHand(n) /\ (InHand(n)' <=> n = n0)
  BY DEF InHand
<1>3. n0 \in Reported \ dropped /\ \A h \in Range(Handlers) : ~Heard(h, n0)
  BY DEF NewsInv, NewsPlaced
<1>4. (\A n \in News : Queued(n) =>
          /\ n \in Reported \ dropped /\ ~InHand(n)
          /\ \A h \in Range(Handlers) : ~Heard(h, n))'
  BY <1>1, <1>2 DEF NewsInv, NewsPlaced
<1>5. (\A n \in News : InHand(n) =>
          /\ n \in Reported \ dropped
          /\ \A i \in DOMAIN handlers :
                Heard(handlers[i], n) <=> i <= Len(handlers) - Len(current.left))'
  <2> SUFFICES ASSUME NEW i \in DOMAIN handlers
               PROVE  ~Heard(handlers[i], n0)' /\ ~(i <= Len(handlers) - Len(handlers))
    BY <1>2, <1>3
  <2>1. handlers[i] \in Range(Handlers) /\ i \in 1 .. Len(handlers) /\ Len(handlers) \in Nat
    BY DEF NewsInv, NewsTyped
  <2>2. ~Heard(handlers[i], n0)'
    BY <1>3, <2>1 DEF Heard
  <2>3. ~(i <= Len(handlers) - Len(handlers))
    BY <2>1
  <2> QED BY <2>2, <2>3
<1>6. (\A h \in Range(Handlers) : \A n \in News : Heard(h, n) => n \in Reported \ dropped)'
  BY <1>1 DEF NewsInv, NewsPlaced
<1>7. (\A n \in Reported \ dropped :
          Queued(n) \/ InHand(n) \/ \A i \in DOMAIN handlers : Heard(handlers[i], n))'
  <2> SUFFICES ASSUME NEW n \in Reported \ dropped, ~Queued(n)', n # n0
               PROVE  \A i \in DOMAIN handlers : Heard(handlers[i], n)'
    BY <1>2
  <2>1. ~Queued(n) /\ ~InHand(n)
    BY <1>2
  <2> QED BY <2>1 DEF NewsInv, NewsPlaced, Heard
<1>8. ctx' # "new"
  BY DEF NewsTyped
<1>9. NewsPlaced'
  BY <1>4, <1>5, <1>6, <1>7, <1>8 DEF NewsInv, NewsPlaced
<1> QED BY <1>9 DEF NewsInv

\* What a caller is about to send was created.
LEMMA SendingCreated ==
    ASSUME StoreInv, NewsInv, NEW c \in Callers, sending[c] # None
    PROVE  /\ sending[c] \in Created /\ sending[c] \in Nat
           /\ <<"alert", sending[c]>> \in News /\ Queued(<<"alert", sending[c]>>)
<1>1. sending[c] \in Nat
  BY DEF NewsInv, NewsTyped
<1>2. <<"alert", sending[c]>> \in News
  BY <1>1 DEF News
<1>3. Queued(<<"alert", sending[c]>>)
  BY QueuedPairs
<1>4. <<"alert", sending[c]>> \in Reported
  BY <1>2, <1>3 DEF NewsInv, NewsPlaced
<1> QED BY <1>1, <1>2, <1>3, <1>4, ReportedPairs DEF StoreInv

\* News is a pair.
LEMMA NewsPairs ==
    ASSUME NEW n \in News
    PROVE  /\ n[2] \in Nat
           /\ n = <<"alert", n[2]>> \/ n = <<"resolved", n[2]>>
           /\ \A x : n = <<"alert", x>> <=> n[1] = "alert" /\ n[2] = x
           /\ \A x : n = <<"resolved", x>> <=> n[1] = "resolved" /\ n[2] = x
BY DEF News

\* CreateAlert, under the mutex: the new alert waits with its caller.
LEMMA NewsStoreAlert ==
    ASSUME StoreInv, NewsInv, NEW c \in Callers, StoreAlert(c)
    PROVE  NewsInv'
<1> USE DEF store, calls, channels, loops, history
<1>0. /\ sending[c] = None /\ sending' = [sending EXCEPT ![c] = nextId]
      /\ nextId' = nextId + 1
      /\ UNCHANGED <<now, ctx, handlers, alertChan, resolveChan, current, heard, dropped,
                     resolutions>>
  BY DEF StoreAlert
<1>1. nextId \in Nat \ {0} /\ nextId \notin Created /\ Created' = Created \cup {nextId}
  BY <1>0 DEF StoreInv, StoreTyped, Created
<1>2. <<"alert", nextId>> \in News /\ <<"alert", nextId>> \notin Reported
  BY <1>1, ReportedPairs DEF StoreInv, News
<1>3. Reported' = Reported \cup {<<"alert", nextId>>}
  BY <1>0, <1>1 DEF Reported
<1>4. /\ sending \in [Callers -> Nat \cup {None}]
      /\ sending'[c] = nextId /\ \A d \in Callers : d # c => sending'[d] = sending[d]
  BY <1>0 DEF NewsInv, NewsTyped
<1>5. NewsTyped'
  BY <1>0, <1>1 DEF NewsInv, NewsTyped
<1>6. LastHandlersLeft'
  BY <1>0 DEF NewsInv, LastHandlersLeft
<1>7. \A n \in News : Queued(n)' <=> Queued(n) \/ n = <<"alert", nextId>>
  <2> SUFFICES ASSUME NEW n \in News
               PROVE  Queued(n)' <=> Queued(n) \/ n = <<"alert", nextId>>
    OBVIOUS
  <2>1. n[2] \in Nat /\ (n = <<"alert", nextId>> <=> n[1] = "alert" /\ n[2] = nextId)
    BY NewsPairs
  <2>2. (\E d \in Callers : sending'[d] = n[2])
            <=> (\E d \in Callers : sending[d] = n[2]) \/ n[2] = nextId
    BY <1>0, <1>4, <2>1, AlertAssumption
  <2> QED BY <1>0, <2>1, <2>2 DEF Queued, Member
<1>8. InOnePlace'
  <2>1. \A d \in Callers : sending[d] # nextId
    BY <1>1, SendingCreated, AlertAssumption
  <2>2. ~Member(alertChan, nextId)
    BY <1>2, QueuedPairs DEF NewsInv, NewsPlaced
  <2>3. \A d, e \in Callers : sending'[d] = sending'[e] /\ sending'[d] # None => d = e
    BY <1>4, <2>1 DEF NewsInv, InOnePlace
  <2>4. \A d \in Callers : ~Member(alertChan, sending'[d])
    BY <1>4, <2>2 DEF NewsInv, InOnePlace
  <2> QED BY <1>0, <2>3, <2>4 DEF NewsInv, InOnePlace, Member
<1>9. Reported \subseteq News
  BY ReportedPairs DEF StoreInv
<1> QED BY <1>0, <1>2, <1>3, <1>5, <1>6, <1>7, <1>8, <1>9, NewsReported

\* CreateAlert, after the mutex: the alert moves into the channel or is
\* dropped.
LEMMA NewsSendAlert ==
    ASSUME StoreInv, NewsInv, NEW c \in Callers, SendAlert(c)
    PROVE  NewsInv'
<1> USE DEF store, calls, channels, loops, history
<1> DEFINE x == sending[c]
<1>0. /\ x # None /\ sending' = [sending EXCEPT ![c] = None]
      /\ UNCHANGED <<ctx, handlers, resolveChan, current, heard, nextId, resolutions>>
  BY DEF SendAlert
<1>1. x \in Nat /\ <<"alert", x>> \in News /\ Queued(<<"alert", x>>)
  BY <1>0, SendingCreated
<1>2. /\ sending \in [Callers -> Nat \cup {None}] /\ sending' \in [Callers -> Nat \cup {None}]
      /\ sending'[c] = None /\ \A d \in Callers : d # c => sending'[d] = sending[d]
  BY <1>0 DEF NewsInv, NewsTyped
<1>3. \A d \in Callers : sending[d] = x => d = c
  BY <1>0 DEF NewsInv, InOnePlace
<1>4. Reported' = Reported /\ Reported \subseteq News
  BY <1>0, ReportedPairs DEF Reported, Created, StoreInv
<1>5. LastHandlersLeft'
  BY <1>0 DEF NewsInv, LastHandlersLeft
<1>6. \A y \in Nat : (\E d \in Callers : sending'[d] = y)
                        <=> (\E d \in Callers : sending[d] = y) /\ y # x
  BY <1>2, <1>3, AlertAssumption
<1>7. alertChan \in Seq(Nat) /\ IsInjective(alertChan) /\ ~Member(alertChan, x)
  BY DEF NewsInv, NewsTyped, InOnePlace
<1>8. ~Member(alertChan, None)
  BY <1>7, AlertAssumption DEF Member
<1> HIDE DEF x
<1>9. CASE alertChan' = Append(alertChan, x) /\ UNCHANGED dropped
  <2>1. /\ alertChan' \in Seq(Nat) /\ IsInjective(alertChan')
        /\ \A y : Member(alertChan', y) <=> Member(alertChan, y) \/ y = x
    BY <1>1, <1>7, <1>9, AppendMember
  <2>2. NewsTyped'
    BY <1>0, <1>2, <2>1 DEF NewsInv, NewsTyped
  <2>3. InOnePlace'
    <3>1. \A d, e \in Callers : sending'[d] = sending'[e] /\ sending'[d] # None => d = e
      BY <1>2 DEF NewsInv, InOnePlace
    <3>2. \A d \in Callers : ~Member(alertChan, sending'[d]) /\ sending'[d] # x
      BY <1>1, <1>2, <1>3, <1>8, AlertAssumption DEF NewsInv, InOnePlace
    <3> QED BY <1>0, <2>1, <3>1, <3>2 DEF NewsInv, InOnePlace
  <2>4. \A n \in News : Queued(n)' <=> Queued(n)
    <3> SUFFICES ASSUME NEW n \in News PROVE Queued(n)' <=> Queued(n)
      OBVIOUS
    <3>1. n[2] \in Nat
      BY NewsPairs
    <3>2. (\E d \in Callers : sending[d] = n[2]) \/ Member(alertChan, n[2])
              <=> (\E d \in Callers : sending'[d] = n[2]) \/ Member(alertChan', n[2])
      BY <1>6, <2>1, <3>1 DEF x
    <3>3. Member(resolveChan', n[2]) <=> Member(resolveChan, n[2])
      BY <1>0
    <3> QED BY <3>2, <3>3 DEF Queued
  <2>5. \A n \in News : InHand(n)' <=> InHand(n)
    BY <1>0 DEF InHand
  <2>6. current'.left = current.left /\ (ctx' = "new" => ctx = "new")
    BY <1>0
  <2> QED BY <1>0, <1>4, <1>5, <1>9, <2>2, <2>3, <2>4, <2>5, <2>6, NewsSame
<1>10. CASE dropped' = dropped \cup {<<"alert", x>>} /\ UNCHANGED alertChan
  <2>1. NewsTyped'
    BY <1>0, <1>2, <1>10 DEF NewsInv, NewsTyped
  <2>2. InOnePlace'
    BY <1>0, <1>2, <1>8, <1>10 DEF NewsInv, InOnePlace
  <2>3. \A n \in News : Queued(n)' <=> Queued(n) /\ n # <<"alert", x>>
    <3> SUFFICES ASSUME NEW n \in News
                 PROVE  Queued(n)' <=> Queued(n) /\ n # <<"alert", x>>
      OBVIOUS
    <3>1. n[2] \in Nat /\ (n = <<"alert", x>> <=> n[1] = "alert" /\ n[2] = x)
      BY NewsPairs
    <3>2. (\E d \in Callers : sending'[d] = n[2]) \/ Member(alertChan', n[2])
              <=> ((\E d \in Callers : sending[d] = n[2]) \/ Member(alertChan, n[2])) /\ n[2] # x
      BY <1>6, <1>7, <1>10, <3>1
    <3>3. Member(resolveChan', n[2]) <=> Member(resolveChan, n[2])
      BY <1>0
    <3>4. "alert" # "resolved"
      OBVIOUS
    <3> QED BY <3>1, <3>2, <3>3, <3>4 DEF Queued
  <2> QED BY <1>0, <1>1, <1>4, <1>5, <1>10, <2>1, <2>2, <2>3, NewsDropped
<1> QED BY <1>9, <1>10 DEF SendAlert, x

\* ResolveAlert reports a resolution that was never reported before.
LEMMA NewsResolve ==
    ASSUME StoreInv, NewsInv, NEW id \in Created, ResolveAlert(id)
    PROVE  NewsInv'
<1> USE DEF store, calls, channels, loops, history
<1>0. /\ resolutions' = resolutions \cup {<<id, now>>}
      /\ UNCHANGED <<ctx, nextId, alertChan, handlers, heard, sending, current>>
  BY DEF ResolveAlert
<1>1. id \in Nat /\ Created' = Created
  BY <1>0 DEF StoreInv, StoreTyped, Created
<1>2. <<"resolved", id>> \in News /\ <<"resolved", id>> \notin Reported
  BY <1>1, StoreResolve, ReportedPairs DEF StoreInv, News
<1>3. Reported' = Reported \cup {<<"resolved", id>>}
  <2>1. \A x : (\E r \in resolutions' : r[1] = x) <=> (\E r \in resolutions : r[1] = x) \/ x = id
    <3>1. <<id, now>>[1] = id
      OBVIOUS
    <3> QED BY <1>0, <3>1, Zenon
  <2>2. {<<"resolved", r[1]>> : r \in resolutions'}
            = {<<"resolved", r[1]>> : r \in resolutions} \cup {<<"resolved", id>>}
    BY <2>1
  <2> QED BY <1>1, <2>2 DEF Reported
<1>4. LastHandlersLeft'
  BY <1>0 DEF NewsInv, LastHandlersLeft
<1>5. resolveChan \in Seq(Nat) /\ IsInjective(resolveChan) /\ ~Member(resolveChan, id)
  BY <1>2, QueuedPairs DEF NewsInv, NewsTyped, InOnePlace, NewsPlaced
<1>6. Reported \subseteq News
  BY ReportedPairs DEF StoreInv
<1>7. CASE resolveChan' = Append(resolveChan, id) /\ UNCHANGED dropped
  <2>1. /\ resolveChan' \in Seq(Nat) /\ IsInjective(resolveChan')
        /\ \A y : Member(resolveChan', y) <=> Member(resolveChan, y) \/ y = id
    BY <1>1, <1>5, <1>7, AppendMember
  <2>2. NewsTyped'
    BY <1>0, <2>1 DEF NewsInv, NewsTyped
  <2>3. InOnePlace'
    BY <1>0, <2>1 DEF NewsInv, InOnePlace
  <2>4. \A n \in News : Queued(n)' <=> Queued(n) \/ n = <<"resolved", id>>
    <3> SUFFICES ASSUME NEW n \in News
                 PROVE  Queued(n)' <=> Queued(n) \/ n = <<"resolved", id>>
      OBVIOUS
    <3>1. n = <<"resolved", id>> <=> n[1] = "resolved" /\ n[2] = id
      BY NewsPairs
    <3>2. Member(alertChan', n[2]) <=> Member(alertChan, n[2])
      BY <1>0
    <3>3. (\E d \in Callers : sending'[d] = n[2]) <=> (\E d \in Callers : sending[d] = n[2])
      BY <1>0
    <3> QED BY <2>1, <3>1, <3>2, <3>3 DEF Queued
  <2> QED BY <1>0, <1>2, <1>3, <1>4, <1>6, <1>7, <2>2, <2>3, <2>4, NewsReported
<1>8. CASE dropped' = dropped \cup {<<"resolved", id>>} /\ UNCHANGED resolveChan
  <2>1. NewsTyped' /\ InOnePlace'
    BY <1>0, <1>8 DEF NewsInv, NewsTyped, InOnePlace, Member
  <2>2. \A n \in News : Queued(n)' <=> Queued(n)
    BY <1>0, <1>8 DEF Queued, Member
  <2> QED BY <1>0, <1>2, <1>3, <1>4, <1>6, <1>8, <2>1, <2>2, NewsReported
<1> QED BY <1>7, <1>8 DEF ResolveAlert

\* processAlerts takes an alert from its channel.
LEMMA NewsTakeAlert ==
    ASSUME StoreInv, NewsInv, TakeAlert
    PROVE  NewsInv'
<1> USE DEF store, calls, channels, loops, history
<1> DEFINE x == Head(alertChan)
<1>0. /\ current.at = "select" /\ alertChan # << >> /\ alertChan' = Tail(alertChan)
      /\ current' = [at |-> "handle", news |-> <<"alert", x>>, left |-> handlers]
      /\ UNCHANGED <<ctx, handlers, resolveChan, sending, heard, dropped, nextId, resolutions>>
  BY DEF TakeAlert
<1>1. alertChan \in Seq(Nat) /\ IsInjective(alertChan) /\ handlers \in Seq(Range(Handlers))
  BY DEF NewsInv, NewsTyped, InOnePlace
<1>2. /\ alertChan' \in Seq(Nat) /\ x \in Nat /\ Member(alertChan, x) /\ IsInjective(alertChan')
      /\ \A y : Member(alertChan', y) <=> Member(alertChan, y) /\ y # x
  BY <1>0, <1>1, TailMember
<1> HIDE DEF x
<1>3. /\ current'.at = "handle" /\ current'.news = <<"alert", x>> /\ current'.left = handlers
      /\ <<"alert", x>> \in News /\ Queued(<<"alert", x>>)
  BY <1>0, <1>2, QueuedPairs DEF News
<1>4. NewsTyped'
  <2>1. current' \in [at : {"off", "select", "handle", "done"}, news : News \cup {None},
                     left : Seq(Range(Handlers))]
    BY <1>0, <1>1, <1>3
  <2>2. ctx' # "new"
    BY <1>0 DEF NewsInv, NewsTyped
  <2> QED BY <1>0, <1>2, <2>1, <2>2 DEF NewsInv, NewsTyped
<1>5. LastHandlersLeft'
  <2>1. Len(handlers) \in Nat /\ DOMAIN handlers = 1 .. Len(handlers)
    BY <1>1
  <2> QED BY <1>0, <1>3, <2>1 DEF LastHandlersLeft
<1>6. InOnePlace'
  BY <1>0, <1>2 DEF NewsInv, InOnePlace
<1>7. \A n \in News : Queued(n)' <=> Queued(n) /\ n # <<"alert", x>>
  <2> SUFFICES ASSUME NEW n \in News PROVE Queued(n)' <=> Queued(n) /\ n # <<"alert", x>>
    OBVIOUS
  <2>1. n = <<"alert", x>> <=> n[1] = "alert" /\ n[2] = x
    BY NewsPairs
  <2>2. ~\E d \in Callers : sending[d] = x
    BY <1>2 DEF NewsInv, InOnePlace
  <2>3. (\E d \in Callers : sending'[d] = n[2]) <=> (\E d \in Callers : sending[d] = n[2])
    BY <1>0
  <2>4. Member(resolveChan', n[2]) <=> Member(resolveChan, n[2])
    BY <1>0
  <2>5. "alert" # "resolved"
    OBVIOUS
  <2> QED BY <1>2, <2>1, <2>2, <2>3, <2>4, <2>5 DEF Queued
<1>8. Reported' = Reported /\ Reported \subseteq News
  BY <1>0, ReportedPairs DEF Reported, Created, StoreInv
<1>9. current.at # "handle"
  BY <1>0
<1> QED BY <1>0, <1>3, <1>4, <1>5, <1>6, <1>7, <1>8, <1>9, NewsTaken

\* processAlerts takes a resolution from its channel.
LEMMA NewsTakeResolved ==
    ASSUME StoreInv, NewsInv, TakeResolved
    PROVE  NewsInv'
<1> USE DEF store, calls, channels, loops, history
<1> DEFINE x == Head(resolveChan)
<1>0. /\ current.at = "select" /\ resolveChan # << >> /\ resolveChan' = Tail(resolveChan)
      /\ current' = [at |-> "handle", news |-> <<"resolved", x>>, left |-> handlers]
      /\ UNCHANGED <<ctx, handlers, alertChan, sending, heard, dropped, nextId, resolutions>>
  BY DEF TakeResolved
<1>1. resolveChan \in Seq(Nat) /\ IsInjective(resolveChan) /\ handlers \in Seq(Range(Handlers))
  BY DEF NewsInv, NewsTyped, InOnePlace
<1>2. /\ resolveChan' \in Seq(Nat) /\ x \in Nat /\ Member(resolveChan, x)
      /\ IsInjective(resolveChan')
      /\ \A y : Member(resolveChan', y) <=> Member(resolveChan, y) /\ y # x
  BY <1>0, <1>1, TailMember
<1> HIDE DEF x
<1>3. /\ current'.at = "handle" /\ current'.news = <<"resolved", x>> /\ current'.left = handlers
      /\ <<"resolved", x>> \in News /\ Queued(<<"resolved", x>>)
  BY <1>0, <1>2, QueuedPairs DEF News
<1>4. NewsTyped'
  <2>1. current' \in [at : {"off", "select", "handle", "done"}, news : News \cup {None},
                     left : Seq(Range(Handlers))]
    BY <1>0, <1>1, <1>3
  <2>2. ctx' # "new"
    BY <1>0 DEF NewsInv, NewsTyped
  <2> QED BY <1>0, <1>2, <2>1, <2>2 DEF NewsInv, NewsTyped
<1>5. LastHandlersLeft'
  <2>1. Len(handlers) \in Nat /\ DOMAIN handlers = 1 .. Len(handlers)
    BY <1>1
  <2> QED BY <1>0, <1>3, <2>1 DEF LastHandlersLeft
<1>6. InOnePlace'
  BY <1>0, <1>2 DEF NewsInv, InOnePlace
<1>7. \A n \in News : Queued(n)' <=> Queued(n) /\ n # <<"resolved", x>>
  <2> SUFFICES ASSUME NEW n \in News PROVE Queued(n)' <=> Queued(n) /\ n # <<"resolved", x>>
    OBVIOUS
  <2>1. n = <<"resolved", x>> <=> n[1] = "resolved" /\ n[2] = x
    BY NewsPairs
  <2>2. (\E d \in Callers : sending'[d] = n[2]) <=> (\E d \in Callers : sending[d] = n[2])
    BY <1>0
  <2>3. Member(alertChan', n[2]) <=> Member(alertChan, n[2])
    BY <1>0
  <2>4. "alert" # "resolved"
    OBVIOUS
  <2> QED BY <1>2, <2>1, <2>2, <2>3, <2>4 DEF Queued
<1>8. Reported' = Reported /\ Reported \subseteq News
  BY <1>0, ReportedPairs DEF Reported, Created, StoreInv
<1>9. current.at # "handle"
  BY <1>0
<1> QED BY <1>0, <1>3, <1>4, <1>5, <1>6, <1>7, <1>8, <1>9, NewsTaken

\* One handler is called: it is the next one, it has not heard the news, and
\* its error changes nothing.
LEMMA NewsCallHandler ==
    ASSUME StoreInv, NewsInv, NEW err \in BOOLEAN, CallHandler(err)
    PROVE  NewsInv'
<1> USE DEF store, calls, channels, loops, history
<1>n. PICK n0, h0, N, L :
        /\ n0 = current.news /\ h0 = Head(current.left)
        /\ N = Len(handlers) /\ L = Len(current.left)
  OBVIOUS
<1>0. /\ current.at = "handle" /\ current.left # << >>
      /\ heard' = [heard EXCEPT ![h0] = Append(@, n0)]
      /\ current' = IF L = 1 THEN Idle ELSE [current EXCEPT !.left = Tail(@)]
      /\ UNCHANGED <<ctx, handlers, alertChan, resolveChan, sending, dropped, nextId, resolutions>>
  BY <1>n DEF CallHandler, AfterHandler
<1>1. /\ n0 \in News /\ InHand(n0) /\ \A n : InHand(n) => n = n0
      /\ n0 \in Reported \ dropped
      /\ \A i \in DOMAIN handlers : Heard(handlers[i], n0) <=> i <= N - L
  <2>1. n0 \in News /\ InHand(n0) /\ \A n : InHand(n) => n = n0
    BY <1>0, <1>n DEF InHand, NewsInv, LastHandlersLeft
  <2> QED BY <1>n, <2>1 DEF NewsInv, NewsPlaced
<1>2. /\ current.left \in Seq(Range(Handlers)) /\ handlers \in Seq(Range(Handlers))
      /\ N \in Nat /\ L \in Nat \ {0} /\ L <= N
      /\ DOMAIN handlers = 1 .. N /\ DOMAIN current.left = 1 .. L
  <2>1. current.left \in Seq(Range(Handlers)) /\ handlers \in Seq(Range(Handlers))
    BY DEF NewsInv, NewsTyped
  <2>2. L <= N
    BY <1>0, <1>n DEF NewsInv, LastHandlersLeft
  <2> QED BY <1>0, <1>n, <2>1, <2>2, LenProperties, EmptySeq
<1>3. h0 = current.left[1] /\ 1 \in DOMAIN current.left /\ N - L + 1 \in DOMAIN handlers
  BY <1>0, <1>2, <1>n
<1>4. h0 = handlers[N - L + 1] /\ h0 \in Range(Handlers)
  <2>1. \A i \in DOMAIN current.left : current.left[i] = handlers[N - L + i]
    BY <1>0, <1>n DEF NewsInv, LastHandlersLeft
  <2>2. current.left[1] \in Range(Handlers)
    BY <1>2, <1>3, ElementOfSeq
  <2> QED BY <1>3, <2>1, <2>2
<1>5. \A i \in DOMAIN handlers : handlers[i] = h0 <=> i = N - L + 1
  <2>1. \A i, j \in DOMAIN handlers : handlers[i] = handlers[j] => i = j
    <3>1. \A i \in DOMAIN handlers : i \in DOMAIN Handlers /\ handlers[i] = Handlers[i]
      <4>1. Len(Handlers) \in Nat /\ DOMAIN Handlers = 1 .. Len(Handlers)
        BY AlertAssumption, LenProperties
      <4>2. N <= Len(Handlers)
        BY <1>n DEF NewsInv, NewsTyped
      <4> QED BY <1>2, <4>1, <4>2 DEF NewsInv, NewsTyped
    <3> QED BY <3>1, AlertAssumption DEF IsInjective
  <2> QED BY <1>3, <1>4, <2>1
<1>6. ~Heard(h0, n0)
  <2>1. ~(N - L + 1 <= N - L)
    BY <1>2
  <2> QED BY <1>1, <1>3, <1>4, <2>1
<1>7. heard \in [Range(Handlers) -> Seq(News)]
  BY DEF NewsInv, NewsTyped
<1>8. /\ Append(heard[h0], n0) \in Seq(News)
      /\ \A y : Member(Append(heard[h0], n0), y) <=> Member(heard[h0], y) \/ y = n0
      /\ IsInjective(Append(heard[h0], n0))
  <2>1. heard[h0] \in Seq(News) /\ IsInjective(heard[h0]) /\ ~Member(heard[h0], n0)
    BY <1>4, <1>6, <1>7 DEF NewsInv, NewsPlaced, Heard, Member
  <2> QED BY <1>1, <2>1, AppendMember
<1>9. /\ heard' \in [Range(Handlers) -> Seq(News)]
      /\ heard'[h0] = Append(heard[h0], n0)
      /\ \A h \in Range(Handlers) : h # h0 => heard'[h] = heard[h]
  BY <1>0, <1>4, <1>7, <1>8
<1>10. \A h \in Range(Handlers) : IsInjective(heard'[h])
  BY <1>8, <1>9 DEF NewsInv, NewsPlaced
<1>11. \A h \in Range(Handlers) : \A n :
          Heard(h, n)' <=> Heard(h, n) \/ (h = h0 /\ n = n0)
  <2>1. \A h, n : Heard(h, n) <=> Member(heard[h], n)
    BY DEF Heard, Member
  <2>2. \A h, n : Heard(h, n)' <=> Member(heard'[h], n)
    BY DEF Heard, Member
  <2> QED BY <1>8, <1>9, <2>1, <2>2
<1>12. \A i \in DOMAIN handlers : handlers[i] \in Range(Handlers)
  BY <1>2
<1>13. \A i \in DOMAIN handlers : \A n :
          Heard(handlers[i], n)' <=> Heard(handlers[i], n) \/ (i = N - L + 1 /\ n = n0)
  <2> SUFFICES ASSUME NEW i \in DOMAIN handlers, NEW n
               PROVE  Heard(handlers[i], n)' <=> Heard(handlers[i], n) \/ (i = N - L + 1 /\ n = n0)
    OBVIOUS
  <2> DEFINE h == handlers[i]
  <2>1. h \in Range(Handlers) /\ (h = h0 <=> i = N - L + 1) /\ handlers'[i] = h
    BY <1>0, <1>5, <1>12
  <2>2. Heard(handlers[i], n)' <=> \E j \in DOMAIN heard'[h] : heard'[h][j] = n
    BY <2>1 DEF Heard
  <2> HIDE DEF h
  <2>3. (\E j \in DOMAIN heard'[h] : heard'[h][j] = n)
            <=> (\E j \in DOMAIN heard[h] : heard[h][j] = n) \/ (h = h0 /\ n = n0)
    <3>1. CASE h = h0
      BY <1>8, <1>9, <3>1 DEF Member
    <3>2. CASE h # h0
      BY <1>9, <2>1, <3>2
    <3> QED BY <3>1, <3>2
  <2> QED BY <2>1, <2>2, <2>3 DEF Heard, h
<1>14. \A n \in News : Queued(n)' <=> Queued(n)
  BY <1>0 DEF Queued, Member
<1>15. Reported' = Reported /\ Reported \subseteq News
  BY <1>0, ReportedPairs DEF Reported, Created, StoreInv
<1>16. InOnePlace'
  BY <1>0 DEF NewsInv, InOnePlace, Member
<1>17. ctx' # "new"
  BY <1>0 DEF NewsInv, NewsTyped
<1>18. ~Queued(n0)
  BY <1>1 DEF NewsInv, NewsPlaced
<1>19. (\A h \in Range(Handlers) : \A n \in News : Heard(h, n) => n \in Reported \ dropped)'
  BY <1>0, <1>1, <1>11, <1>15 DEF NewsInv, NewsPlaced
<1>20. \A n \in Reported \ dropped : n # n0 =>
          Queued(n)' \/ \A i \in DOMAIN handlers : Heard(handlers[i], n)'
  BY <1>1, <1>13, <1>14, <1>15 DEF NewsInv, NewsPlaced
<1>21. CASE L = 1
  <2>1. current' = [at |-> "select", news |-> None, left |-> << >>]
    BY <1>0, <1>21 DEF Idle
  <2>2. \A n : ~InHand(n)'
    BY <2>1 DEF InHand
  <2>3. NewsTyped'
    <3>1. << >> \in Seq(Range(Handlers))
      BY EmptySeq
    <3>2. current' \in [at : {"off", "select", "handle", "done"}, news : News \cup {None},
                       left : Seq(Range(Handlers))]
      BY <2>1, <3>1
    <3> QED BY <1>0, <1>9, <1>17, <3>2 DEF NewsInv, NewsTyped
  <2>4. LastHandlersLeft'
    BY <2>1 DEF LastHandlersLeft
  <2>5. \A i \in DOMAIN handlers : Heard(handlers[i], n0)'
    <3>1. \A i \in DOMAIN handlers : i <= N - L \/ i = N - L + 1
      BY <1>2, <1>21
    <3> QED BY <1>1, <1>13, <3>1
  <2>6. (\A n \in News : Queued(n) =>
          /\ n \in Reported \ dropped /\ ~InHand(n)
          /\ \A h \in Range(Handlers) : ~Heard(h, n))'
    BY <1>0, <1>11, <1>14, <1>15, <1>18, <2>2 DEF NewsInv, NewsPlaced
  <2>7. \A n \in Reported \ dropped :
          Queued(n)' \/ \A i \in DOMAIN handlers : Heard(handlers[i], n)'
    BY <1>20, <2>5
  <2>8. NewsPlaced'
    BY <1>0, <1>10, <1>15, <1>17, <1>19, <2>2, <2>6, <2>7 DEF NewsInv, NewsPlaced
  <2> QED BY <1>16, <2>3, <2>4, <2>8 DEF NewsInv
<1>22. CASE L # 1
  <2> DEFINE left == Tail(current.left)
  <2>1. /\ left \in Seq(Range(Handlers)) /\ Len(left) = L - 1
        /\ \A i \in 1 .. L - 1 : left[i] = current.left[i + 1]
    BY <1>0, <1>2, <1>n, HeadTailProperties
  <2>2. current' = [current EXCEPT !.left = left]
    BY <1>0, <1>22
  <2>3. /\ current' \in [at : {"off", "select", "handle", "done"}, news : News \cup {None},
                         left : Seq(Range(Handlers))]
        /\ current'.at = "handle" /\ current'.news = n0 /\ current'.left = left
    <3>1. current \in [at : {"off", "select", "handle", "done"}, news : News \cup {None},
                      left : Seq(Range(Handlers))]
      BY DEF NewsInv, NewsTyped
    <3> HIDE DEF left
    <3> QED BY <1>0, <1>n, <2>1, <2>2, <3>1
  <2>4. NewsTyped'
    BY <1>0, <1>9, <1>17, <2>3 DEF NewsInv, NewsTyped
  <2>5. \A n : InHand(n)' <=> n = n0
    BY <2>3 DEF InHand
  <2>6. LastHandlersLeft'
    <3>1. \A i \in 1 .. L : current.left[i] = handlers[N - L + i]
      BY <1>0, <1>2, <1>n DEF NewsInv, LastHandlersLeft
    <3>2. \A i \in 1 .. L - 1 : left[i] = handlers[N - (L - 1) + i]
      <4> SUFFICES ASSUME NEW i \in 1 .. L - 1 PROVE left[i] = handlers[N - (L - 1) + i]
        OBVIOUS
      <4>1. i + 1 \in 1 .. L /\ N - L + (i + 1) = N - (L - 1) + i
        BY <1>2
      <4> QED BY <2>1, <3>1, <4>1
    <3>3. DOMAIN left = 1 .. L - 1 /\ L - 1 <= N
      BY <1>2, <2>1, LenProperties
    <3>4. /\ current'.news \in News /\ handlers' = handlers
          /\ Len(handlers') = N /\ Len(current'.left) = L - 1 /\ current'.left = left
      BY <1>0, <1>1, <1>n, <2>1, <2>3
    <3> HIDE DEF left
    <3> QED BY <3>2, <3>3, <3>4 DEF LastHandlersLeft
  <2>7. \A i \in DOMAIN handlers : Heard(handlers[i], n0)' <=> i <= N - (L - 1)
    <3>1. \A i \in DOMAIN handlers : i <= N - (L - 1) <=> i <= N - L \/ i = N - L + 1
      BY <1>2
    <3> QED BY <1>1, <1>13, <3>1
  <2>8. (\A n \in News : InHand(n) =>
          /\ n \in Reported \ dropped
          /\ \A i \in DOMAIN handlers :
                Heard(handlers[i], n) <=> i <= Len(handlers) - Len(current.left))'
    BY <1>0, <1>1, <1>15, <1>n, <2>1, <2>3, <2>5, <2>7
  <2>9. (\A n \in News : Queued(n) =>
          /\ n \in Reported \ dropped /\ ~InHand(n)
          /\ \A h \in Range(Handlers) : ~Heard(h, n))'
    BY <1>0, <1>11, <1>14, <1>15, <1>18, <2>5 DEF NewsInv, NewsPlaced
  <2>10. NewsPlaced'
    BY <1>0, <1>10, <1>15, <1>17, <1>19, <1>20, <2>5, <2>8, <2>9 DEF NewsInv, NewsPlaced
  <2> QED BY <1>16, <2>4, <2>6, <2>10 DEF NewsInv
<1> QED BY <1>21, <1>22

\* No handler is left: all have heard the news.
LEMMA NewsNoHandler ==
    ASSUME StoreInv, NewsInv, NoHandler
    PROVE  NewsInv'
<1> USE DEF store, calls, channels, loops, history
<1>0. /\ current.at = "handle" /\ current.left = << >>
      /\ current' = [at |-> "select", news |-> None, left |-> << >>]
      /\ UNCHANGED <<ctx, handlers, alertChan, resolveChan, sending, heard, dropped, nextId,
                     resolutions>>
  BY DEF NoHandler, Idle
<1>1. PICK n0 : n0 = current.news
  OBVIOUS
<1>2. n0 \in News /\ InHand(n0) /\ \A n : InHand(n) => n = n0
  BY <1>0, <1>1 DEF InHand, NewsInv, LastHandlersLeft
<1>3. \A i \in DOMAIN handlers : Heard(handlers[i], n0)
  <2>1. \A i \in DOMAIN handlers : Heard(handlers[i], n0) <=> i <= Len(handlers) - Len(current.left)
    BY <1>2 DEF NewsInv, NewsPlaced
  <2>2. Len(current.left) = 0 /\ Len(handlers) \in Nat /\ DOMAIN handlers = 1 .. Len(handlers)
    BY <1>0 DEF NewsInv, NewsTyped
  <2> QED BY <2>1, <2>2
<1>4. \A n : ~InHand(n)'
  BY <1>0 DEF InHand
<1>5. NewsTyped'
  <2>1. << >> \in Seq(Range(Handlers))
    BY EmptySeq
  <2>2. current' \in [at : {"off", "select", "handle", "done"}, news : News \cup {None},
                     left : Seq(Range(Handlers))]
    BY <1>0, <2>1
  <2> QED BY <1>0, <2>2 DEF NewsInv, NewsTyped
<1>6. LastHandlersLeft' /\ InOnePlace'
  BY <1>0 DEF NewsInv, LastHandlersLeft, InOnePlace, Member
<1>7. \A n \in News : Queued(n)' <=> Queued(n)
  BY <1>0 DEF Queued, Member
<1>8. Reported' = Reported /\ Reported \subseteq News
  BY <1>0, ReportedPairs DEF Reported, Created, StoreInv
<1>9. \A h, n : Heard(h, n)' <=> Heard(h, n)
  BY <1>0 DEF Heard
<1>10. (\A n \in Reported \ dropped :
          Queued(n) \/ InHand(n) \/ \A i \in DOMAIN handlers : Heard(handlers[i], n))'
  <2> SUFFICES ASSUME NEW n \in Reported \ dropped, ~Queued(n)
               PROVE  \A i \in DOMAIN handlers : Heard(handlers[i], n)'
    BY <1>0, <1>7, <1>8
  <2>1. \A i \in DOMAIN handlers : Heard(handlers[i], n)
    BY <1>2, <1>3 DEF NewsInv, NewsPlaced
  <2> QED BY <1>0, <2>1 DEF Heard
<1>11. ctx' # "new"
  BY <1>0 DEF NewsInv, NewsTyped
<1>12. (\A n \in News : Queued(n) =>
          /\ n \in Reported \ dropped /\ ~InHand(n)
          /\ \A h \in Range(Handlers) : ~Heard(h, n))'
  BY <1>0, <1>4, <1>7, <1>8, <1>9 DEF NewsInv, NewsPlaced
<1>13. (\A h \in Range(Handlers) : \A n \in News : Heard(h, n) => n \in Reported \ dropped)'
  BY <1>0, <1>8, <1>9 DEF NewsInv, NewsPlaced
<1>14. NewsPlaced'
  BY <1>0, <1>4, <1>8, <1>10, <1>11, <1>12, <1>13 DEF NewsInv, NewsPlaced
<1> QED BY <1>5, <1>6, <1>14 DEF NewsInv

\* Every step preserves the invariant of the news.
LEMMA NewsNext == StoreInv /\ NewsInv /\ [Next]_vars => NewsInv'
<1> SUFFICES ASSUME StoreInv, NewsInv, [Next]_vars PROVE NewsInv'
  OBVIOUS
<1> USE DEF store, calls, channels, loops, history
<1>1. CASE \/ Cancel \/ Tick \/ EndCleanup \/ cleanupOldAlerts \/ UNCHANGED vars
           \/ \E c \in Callers :
                 \/ \E s \in Severities : CallCreateAlert(c, s)
                 \/ \E metrics \in MetricInputs : CheckThresholds(c, metrics)
  <2>1. /\ UNCHANGED <<sending, alertChan, resolveChan, handlers, heard, dropped, nextId,
                       resolutions, current>>
        /\ ctx' = "new" => ctx = "new"
    BY <1>1 DEF Cancel, Tick, EndCleanup, cleanupOldAlerts, vars, CallCreateAlert, CheckThresholds
  <2>2. NewsTyped'
    BY <2>1 DEF NewsInv, NewsTyped
  <2> QED BY <2>1, <2>2, NewsQuiet
<1>2. CASE Start \/ EndProcessing
  <2>1. /\ UNCHANGED <<sending, alertChan, resolveChan, handlers, heard, dropped, nextId,
                       resolutions>>
        /\ ctx' # "new" /\ current.at # "handle"
        /\ \E a \in {"select", "done"} : current' = [at |-> a, news |-> None, left |-> << >>]
    BY <1>2 DEF Start, EndProcessing, Idle, NewsInv, NewsTyped
  <2>2. << >> \in Seq(Range(Handlers))
    BY EmptySeq
  <2>3. /\ current' \in [at : {"off", "select", "handle", "done"}, news : News \cup {None},
                         left : Seq(Range(Handlers))]
        /\ current'.at # "handle"
    BY <2>1, <2>2
  <2>4. NewsTyped'
    BY <2>1, <2>3 DEF NewsInv, NewsTyped
  <2> QED BY <2>1, <2>3, <2>4, NewsQuiet
<1>3. CASE AddHandler \/ \E c \in Callers : StoreAlert(c) \/ SendAlert(c)
  BY <1>3, NewsAddHandler, NewsStoreAlert, NewsSendAlert
<1>4. CASE \E id \in Created : ResolveAlert(id)
  BY <1>4, NewsResolve
<1>5. CASE Processing
  BY <1>5, NewsTakeAlert, NewsTakeResolved, NewsNoHandler, NewsCallHandler DEF Processing
<1> QED BY <1>1, <1>2, <1>3, <1>4, <1>5 DEF Next

\* The invariant of the news holds in every reachable state.
THEOREM NewsInvariance == Spec => []NewsInv
<1>1. Init => StoreInv /\ NewsInv
  BY StoreInit, NewsInit
<1>2. StoreInv /\ NewsInv /\ [Next]_vars => (StoreInv /\ NewsInv)'
  BY StoreNext, NewsNext
<1> QED BY <1>1, <1>2, PTL DEF Spec

\* Whatever creators, resolvers, the cleanup and the select of processAlerts
\* do: no handler is told the same news twice, or news that was not reported,
\* or news that was dropped.
THEOREM ToldOnceTheorem == Spec => []ToldOnce
<1>1. NewsInv => ToldOnce
  <2> SUFFICES ASSUME NewsInv, NEW h \in Range(Handlers)
               PROVE  /\ \A i, j \in DOMAIN heard[h] : heard[h][i] = heard[h][j] => i = j
                      /\ \A i \in DOMAIN heard[h] : heard[h][i] \in Reported \ dropped
    BY DEF ToldOnce
  <2>1. IsInjective(heard[h])
    BY DEF NewsInv, NewsPlaced
  <2>2. ASSUME NEW i \in DOMAIN heard[h]
        PROVE  heard[h][i] \in Reported \ dropped
    <3>1. heard[h][i] \in News
      BY <2>2 DEF NewsInv, NewsTyped
    <3>2. Heard(h, heard[h][i])
      BY <2>2 DEF Heard
    <3> QED BY <3>1, <3>2 DEF NewsInv, NewsPlaced
  <2> QED BY <2>1, <2>2 DEF IsInjective
<1> QED BY <1>1, NewsInvariance, PTL

\* News that met room in its channel is on its way or has reached every
\* handler: handleAlert skips none after a handler that fails.
THEOREM NoNewsLostTheorem == Spec => []NoNewsLost
<1>1. NewsInv => NoNewsLost
  <2> SUFFICES ASSUME NewsInv, NEW n \in Reported \ dropped
               PROVE  OnItsWay(n) \/ \A i \in DOMAIN handlers : Heard(handlers[i], n)
    BY DEF NoNewsLost
  <2>1. Queued(n) \/ InHand(n) => OnItsWay(n)
    BY DEF Queued, InHand, OnItsWay, Member
  <2> QED BY <2>1 DEF NewsInv, NewsPlaced
<1> QED BY <1>1, NewsInvariance, PTL

=============================================================================
