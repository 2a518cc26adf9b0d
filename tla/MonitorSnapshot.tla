---------------------------- MODULE MonitorSnapshot ----------------------------
(***************************************************************************)
(* The durable state of the local monitor (LocalMonitorSnapshot of         *)
(* packages/core/src/local-monitor-contracts.ts) and what the engine       *)
(* (apps/extension/src/monitor/local-monitor-engine.ts) computes on it     *)
(* between two awaits.  Every operator here is a function from a snapshot  *)
(* to a snapshot; the actions of MonitorEngine compose them.               *)
(*                                                                         *)
(* A snapshot s has                                                        *)
(*   s.watches[w]   the saved watch w, or None                             *)
(*   s.items[x]     the last result for scope x = <<w, sku, store>>        *)
(*   s.delivery[x]  alert cooldown and deferred-alert marker of scope x    *)
(*                  (an absent record and the default one are alike)       *)
(*   s.pending[id]  the delivery ledger: event id = <<scope, serial>>      *)
(*   s.nextEligibleAt, s.failures   the Apple host backoff                 *)
(* History, an audit log nothing reads back, is left out.                  *)
(***************************************************************************)
EXTENDS AvailabilityTransition, FiniteSets

CONSTANTS
    Watches,        \* watch ids
    Skus,           \* Apple part numbers
    Stores,         \* store numbers
    Channels,       \* delivery channels a watch can switch on
    MaxAlerts,      \* bound: events one scope can queue over a behaviour
    MaxPending,     \* MAX_PENDING_DELIVERY_EVENTS (200)
    MaxAttempts,    \* MAX_DELIVERY_ATTEMPTS (8)
    MaxFailures,    \* cap of consecutiveFetchFailures (16)
    Retention,      \* PENDING_DELIVERY_RETENTION_MS, MAX_EVENT_AGE_MS (10 min)
    Cooldown,       \* DEFAULT_DELIVERY_COOLDOWN_MS (30 min)
    PollInterval,   \* watch.pollIntervalSec and the periodic alarm (2 min)
    BackoffBase,    \* MIN_LOCAL_POLL_INTERVAL_SEC (2 min)
    RetryBase,      \* first delivery retry delay (1 s)
    MaxBackoff,     \* MAX_BACKOFF_MS (10 min)
    FutureSkew,     \* MAX_PERSISTED_FUTURE_SKEW_MS (5 min)
    EventSkew       \* MAX_OBSERVED_AT_FUTURE_SKEW_MS (1 min)

ASSUME NoneAssumption == None \notin Int

ASSUME BoundsAssumption ==
    /\ MaxAlerts \in Nat /\ MaxPending \in Nat
    /\ MaxAttempts \in Nat \ {0} /\ MaxFailures \in Nat \ {0}

ASSUME DelaysAssumption ==
    /\ Retention \in Nat /\ Cooldown \in Nat /\ PollInterval \in Nat
    /\ BackoffBase \in Nat /\ RetryBase \in Nat
    /\ MaxBackoff \in Nat /\ FutureSkew \in Nat /\ EventSkew \in Nat

-------------------------------------------------------------------------------
(* Data *)

Scopes   == Watches \X Skus \X Stores
EventIds == Scopes \X (1..MaxAlerts)

\* A user saves finitely many watches for the products and stores of a catalog.
ASSUME ScopesAssumption == IsFiniteSet(Scopes)

MarkerState == {"none", "pending", "expired", "superseded", "revoked"}
CopyState   == {"pending", "delivered", "failed", "revoked", "expired",
                "superseded"}

\* A watch as the user edits it; `rev` (updatedAt) is added when it is saved.
WatchForm == [enabled  : BOOLEAN,
              channels : SUBSET Channels,
              skus     : SUBSET Skus,
              stores   : SUBSET Stores,
              anchor   : Stores]

Watch == [enabled  : BOOLEAN,
          channels : SUBSET Channels,
          skus     : SUBSET Skus,
          stores   : SUBSET Stores,
          anchor   : Stores,
          rev      : Int]

Item == [status    : Status,
         known     : KnownStatus \cup {None},
         checkedAt : Int,
         successAt : OptTime]

\* A pending marker says when it was left and for which revision.
Delivery == {d \in [alertedAt   : OptTime,
                    deferred    : MarkerState,
                    deferredAt  : OptTime,
                    deferredRev : OptTime] :
               d.deferred = "pending" => d.deferredAt # None /\ d.deferredRev # None}

Copy == [state    : CopyState,
         attempts : 0..MaxAttempts,
         next     : OptTime,
         doneAt   : OptTime]

Event == [rev        : Int,
          observedAt : Int,
          createdAt  : Int,
          channels   : [Channels -> Copy \cup {None}]]

Snapshot == [watches        : [Watches -> Watch \cup {None}],
             items          : [Scopes -> Item \cup {None}],
             delivery       : [Scopes -> Delivery],
             pending        : [EventIds -> Event \cup {None}],
             nextEligibleAt : OptTime,
             failures       : 0..MaxFailures]

ASSUME NoneIsNoRecord ==
    /\ None \notin Status /\ None \notin Watch /\ None \notin Item
    /\ None \notin Copy /\ None \notin Event /\ None \notin Snapshot

NoDelivery == [alertedAt |-> None, deferred |-> "none",
               deferredAt |-> None, deferredRev |-> None]

\* createEmptySnapshot
EmptySnapshot ==
    [watches        |-> [w \in Watches |-> None],
     items          |-> [x \in Scopes |-> None],
     delivery       |-> [x \in Scopes |-> NoDelivery],
     pending        |-> [id \in EventIds |-> None],
     nextEligibleAt |-> None,
     failures       |-> 0]

Least(a, b)    == IF a <= b THEN a ELSE b
Greatest(a, b) == IF a <= b THEN b ELSE a

WithRev(form, rev) ==
    [enabled |-> form.enabled, channels |-> form.channels, skus |-> form.skus,
     stores |-> form.stores, anchor |-> form.anchor, rev |-> rev]

InScope(s, x) ==
    /\ s.watches[x[1]] # None
    /\ x[2] \in s.watches[x[1]].skus
    /\ x[3] \in s.watches[x[1]].stores

ScopesOf(s, w) == {x \in Scopes : x[1] = w /\ InScope(s, x)}

\* isCurrentPendingChannel: the copy may still be delivered.
IsCurrentPendingChannel(s, id, c) ==
    /\ s.pending[id] # None
    /\ s.pending[id].channels[c] # None
    /\ s.pending[id].channels[c].state = "pending"
    /\ s.watches[id[1][1]] # None
    /\ s.watches[id[1][1]].enabled
    /\ s.watches[id[1][1]].rev = s.pending[id].rev
    /\ c \in s.watches[id[1][1]].channels

\* findDispatchableChannel
IsDispatchable(s, id, c, t) ==
    /\ IsCurrentPendingChannel(s, id, c)
    /\ \/ s.pending[id].channels[c].next = None
       \/ s.pending[id].channels[c].next <= t

Ledger(s) == {id \in EventIds : s.pending[id] # None}

IsLive(s, id) ==
    \E c \in Channels : /\ s.pending[id].channels[c] # None
                        /\ s.pending[id].channels[c].state = "pending"

-------------------------------------------------------------------------------
(* Closing work *)

Closed(copy, state, t) ==
    [copy EXCEPT !.state = state, !.doneAt = t, !.next = None]

\* Close the pending copies of an event whose verdict is not "pending".
CloseEvent(event, verdict, t) ==
    [event EXCEPT !.channels = [c \in Channels |->
        LET copy == event.channels[c] IN
        IF copy = None THEN None
        ELSE IF copy.state = "pending" /\ verdict[c] # "pending"
             THEN Closed(copy, verdict[c], t)
             ELSE copy]]

CloseCopies(s, verdict, t) ==
    [s EXCEPT !.pending = [id \in EventIds |->
        IF s.pending[id] = None THEN None
        ELSE CloseEvent(s.pending[id], verdict[id], t)]]

IsExpired(event, t) ==
    \/ t - event.createdAt > Retention
    \/ t - event.observedAt > Retention

\* reconcileDurableDelivery
ReconcileDurableDelivery(s, t) ==
    CloseCopies(s,
        [id \in EventIds |-> [c \in Channels |->
            LET watch == s.watches[id[1][1]]
                event == s.pending[id]
            IN  IF watch = None THEN "revoked"
                ELSE IF watch.rev # event.rev THEN "superseded"
                ELSE IF c \notin watch.channels THEN "revoked"
                ELSE IF IsExpired(event, t) THEN "expired"
                ELSE "pending"]],
        t)

\* clearDeferredAvailability
ClearDeferredAvailability(delivery, state) ==
    [delivery EXCEPT !.deferred = state, !.deferredAt = None,
                     !.deferredRev = None]

(***************************************************************************)
(* pruneForWatchRevision, for each watch of ws, just replaced in s: what   *)
(* is out of its scope goes, markers and copies of an earlier revision are *)
(* closed.                                                                 *)
(***************************************************************************)
DropScopes(s, ws) ==
    LET kept(x) == x[1] \notin ws \/ InScope(s, x)
    IN  [s EXCEPT
           !.items    = [x \in Scopes |-> IF kept(x) THEN s.items[x] ELSE None],
           !.delivery = [x \in Scopes |->
                IF kept(x) THEN s.delivery[x] ELSE NoDelivery],
           !.pending  = [id \in EventIds |->
                IF kept(id[1]) THEN s.pending[id] ELSE None]]

CloseStaleMarkers(s, ws) ==
    [s EXCEPT !.delivery = [x \in Scopes |->
        IF x[1] \notin ws \/ s.delivery[x].deferred # "pending" THEN s.delivery[x]
        ELSE IF s.watches[x[1]].channels = {}
        THEN ClearDeferredAvailability(s.delivery[x], "revoked")
        ELSE IF s.delivery[x].deferredRev # s.watches[x[1]].rev
        THEN ClearDeferredAvailability(s.delivery[x], "superseded")
        ELSE s.delivery[x]]]

CloseStaleCopies(s, ws, t) ==
    CloseCopies(s,
        [id \in EventIds |-> [c \in Channels |->
            IF id[1][1] \notin ws \/ s.pending[id] = None THEN "pending"
            ELSE IF c \notin s.watches[id[1][1]].channels THEN "revoked"
            ELSE IF s.pending[id].rev # s.watches[id[1][1]].rev
            THEN "superseded"
            ELSE "pending"]],
        t)

\* Mutant: queued copies of the earlier revision stay.
LenientPrune(s, ws, t) == CloseStaleMarkers(DropScopes(s, ws), ws)

PruneForWatchRevision(s, ws, t) ==
    CloseStaleCopies(CloseStaleMarkers(DropScopes(s, ws), ws), ws, t)

\* Mutant: the results of the deleted watch stay.
CarelessWithoutWatch(s, w) ==
    [s EXCEPT
       !.watches[w] = None,
       !.delivery = [x \in Scopes |->
            IF x[1] = w THEN NoDelivery ELSE s.delivery[x]],
       !.pending = [id \in EventIds |->
            IF id[1][1] = w THEN None ELSE s.pending[id]]]

\* The engine's deleteWatch: nothing of the watch is kept.
WithoutWatch(s, w) ==
    [s EXCEPT
       !.watches[w] = None,
       !.items = [x \in Scopes |-> IF x[1] = w THEN None ELSE s.items[x]],
       !.delivery = [x \in Scopes |->
            IF x[1] = w THEN NoDelivery ELSE s.delivery[x]],
       !.pending = [id \in EventIds |->
            IF id[1][1] = w THEN None ELSE s.pending[id]]]

-------------------------------------------------------------------------------
(* The catalog *)

Catalog == [skus : SUBSET Skus, stores : SUBSET Stores]

\* reconcileWatchWithCatalog finds no issue.
Supported(watch, catalog) ==
    /\ watch.skus \subseteq catalog.skus
    /\ watch.stores \subseteq catalog.stores

RetiredWatches(s, catalog) ==
    {w \in Watches : s.watches[w] # None /\ ~Supported(s.watches[w], catalog)}

(***************************************************************************)
(* reconcileRetiredCatalogState: the stock of a watch the catalog no       *)
(* longer supports is unknown, and nothing queued for it may go out.       *)
(***************************************************************************)
ReconcileRetiredCatalogState(s, catalog, t) ==
    LET retired == RetiredWatches(s, catalog)
    IN  CloseCopies(
            [s EXCEPT
               !.items = [x \in Scopes |->
                    IF x[1] \in retired /\ s.items[x] # None
                    THEN [s.items[x] EXCEPT !.status = "unknown"]
                    ELSE s.items[x]],
               !.delivery = [x \in Scopes |->
                    IF x[1] \in retired /\ s.delivery[x].deferred = "pending"
                    THEN ClearDeferredAvailability(s.delivery[x], "superseded")
                    ELSE s.delivery[x]]],
            [id \in EventIds |-> [c \in Channels |->
                IF id[1][1] \in retired THEN "superseded" ELSE "pending"]],
            t)

(***************************************************************************)
(* The Apple handoff factory (local-apple-handoff.ts) turns an available   *)
(* row into an event: watch and catalog must still offer it, and the       *)
(* observation must be fresh.                                              *)
(***************************************************************************)
CanMakeEvent(s, x, observedAt, t, catalog) ==
    /\ catalog # None
    /\ InScope(s, x)
    /\ s.watches[x[1]].enabled
    /\ x[2] \in catalog.skus
    /\ x[3] \in catalog.stores
    /\ t - observedAt <= Retention
    /\ observedAt <= t + EventSkew

-------------------------------------------------------------------------------
(* Alerts and the delivery ledger *)

Finished(s) == {id \in Ledger(s) : ~IsLive(s, id)}

\* The time a ledger entry is ordered by when room has to be made.
FinishedAt(event) ==
    LET times == {IF event.channels[c].doneAt = None
                  THEN event.createdAt ELSE event.channels[c].doneAt :
                  c \in {d \in Channels : event.channels[d] # None}}
    IN  CHOOSE m \in times : \A time \in times : m <= time

\* Mutant: the oldest entries make room, whether finished or not.
RuthlessAdmissions(s, alerts) ==
    {a \in [queued : {alerts}, evicted : SUBSET Ledger(s)] :
        Cardinality(a.evicted) = Least(Cardinality(Ledger(s)), Greatest(0,
            Cardinality(Ledger(s)) + Cardinality(alerts) - MaxPending))}

(***************************************************************************)
(* reserveDispatchCapacity, called once for each alert of the set alerts.  *)
(* An admission says which alerts get a ledger entry (queued) and which    *)
(* finished entries make room for them (evicted): the oldest ones, only as *)
(* many as needed, and never one with a copy still pending.  The code      *)
(* serves the alerts in the order of its arrays; here any order will do.   *)
(***************************************************************************)
Admissions(s, alerts) ==
    LET live == Cardinality(Ledger(s)) - Cardinality(Finished(s))
        room == Greatest(0, MaxPending - live)
    IN  {a \in [queued : SUBSET alerts, evicted : SUBSET Finished(s)] :
           /\ Cardinality(a.queued) = Least(Cardinality(alerts), room)
           /\ Cardinality(a.evicted) = Greatest(0,
                Cardinality(Ledger(s)) + Cardinality(a.queued) - MaxPending)
           /\ \A old \in a.evicted, young \in Finished(s) \ a.evicted :
                FinishedAt(s.pending[old]) <= FinishedAt(s.pending[young])}

\* enqueueDeliveryEvent
NewEvent(watch, observedAt, t) ==
    [rev        |-> watch.rev,
     observedAt |-> observedAt,
     createdAt  |-> t,
     channels   |-> [c \in Channels |->
        IF c \in watch.channels
        THEN [state |-> "pending", attempts |-> 0, next |-> t, doneAt |-> None]
        ELSE None]]

(***************************************************************************)
(* Give every scope of a.queued a ledger entry: its next serial number.    *)
(* seen[x] is the time of the observation the entry is about.              *)
(***************************************************************************)
Admit(s, a, serial, seen, t) ==
    [s EXCEPT
       !.pending = [id \in EventIds |->
            IF id \in a.evicted THEN None
            ELSE IF id[1] \in a.queued /\ id[2] = serial[id[1]] + 1
            THEN NewEvent(s.watches[id[1][1]], seen[id[1]], t)
            ELSE s.pending[id]],
       !.delivery = [x \in Scopes |->
            IF x \notin a.queued THEN s.delivery[x]
            ELSE IF s.delivery[x].deferred = "pending"
            THEN [ClearDeferredAvailability(s.delivery[x], "none")
                    EXCEPT !.alertedAt = t]
            ELSE [s.delivery[x] EXCEPT !.alertedAt = t]]]

\* Mutant: what finds no room is forgotten.
ForgetfulDefer(s, xs, t) == s

\* The ledger is full of live entries: leave a marker to promote later.
Defer(s, xs, t) ==
    [s EXCEPT !.delivery = [x \in Scopes |->
        IF x \in xs
        THEN [s.delivery[x] EXCEPT !.deferred = "pending", !.deferredAt = t,
                                   !.deferredRev = s.watches[x[1]].rev]
        ELSE s.delivery[x]]]

NextSerial(serial, a) ==
    [x \in Scopes |-> IF x \in a.queued THEN serial[x] + 1 ELSE serial[x]]

-------------------------------------------------------------------------------
(* Observations: obs maps the scopes observed at time t to a status *)

Observed(item, status, t) ==
    [status    |-> status,
     known     |-> IF status # "unknown" THEN status
                   ELSE IF item = None THEN None ELSE item.known,
     checkedAt |-> t,
     successAt |-> IF status # "unknown" THEN t
                   ELSE IF item = None THEN None ELSE item.successAt]

\* Mutant: stock that is gone leaves the deferred alert in place.
HoardingRecordItems(s, obs, t) ==
    [s EXCEPT !.items = [x \in Scopes |->
        IF x \in DOMAIN obs THEN Observed(s.items[x], obs[x], t) ELSE s.items[x]]]

\* recordObservation up to the alert decision.
RecordItems(s, obs, t) ==
    [s EXCEPT
       !.items = [x \in Scopes |->
            IF x \in DOMAIN obs THEN Observed(s.items[x], obs[x], t)
            ELSE s.items[x]],
       !.delivery = [x \in Scopes |->
            IF /\ x \in DOMAIN obs
               /\ obs[x] = "unavailable"
               /\ s.delivery[x].deferred = "pending"
            THEN ClearDeferredAvailability(s.delivery[x], "superseded")
            ELSE s.delivery[x]]]

\* The observed scopes whose alert has to be queued or deferred.
Alerting(s, obs, t, catalog) ==
    {x \in DOMAIN obs :
        /\ ShouldAlert(IF s.items[x] = None THEN None ELSE s.items[x].status,
                       IF s.items[x] = None THEN None ELSE s.items[x].known,
                       obs[x], t, s.delivery[x].alertedAt, Cooldown)
        /\ CanMakeEvent(s, x, t, t, catalog)
        /\ s.watches[x[1]].channels # {}}

\* recordObservation for every scope of obs, with the admission a of its alerts.
RecordObservation(s, obs, a, serial, t, catalog) ==
    Defer(Admit(RecordItems(s, obs, t), a, serial, [x \in Scopes |-> t], t),
          Alerting(s, obs, t, catalog) \ a.queued, t)

-------------------------------------------------------------------------------
(* Deferred alerts *)

\* What promoteDeferredAvailability makes of a pending marker.
MarkerVerdict(s, x, t, catalog) ==
    LET watch == s.watches[x[1]]
        item  == s.items[x]
        at    == Least(s.delivery[x].deferredAt, t)
    IN  IF t - at > Retention THEN "expired"
        ELSE IF watch = None THEN "superseded"
        ELSE IF watch.rev # s.delivery[x].deferredRev \/ ~watch.enabled
        THEN "superseded"
        ELSE IF item = None THEN "superseded"
        ELSE IF item.status = "unavailable" THEN "superseded"
        ELSE IF item.status = "unknown" THEN "pending"
        ELSE IF watch.channels = {} THEN "revoked"
        ELSE IF Supported(watch, catalog) THEN "ready"
        ELSE "pending"

\* Mutant: a marker from the future keeps its time.
TrustingCloseMarkers(s, t, catalog) ==
    [s EXCEPT !.delivery = [x \in Scopes |->
        IF \/ s.delivery[x].deferred # "pending"
           \/ MarkerVerdict(s, x, t, catalog) \in {"pending", "ready"}
        THEN s.delivery[x]
        ELSE ClearDeferredAvailability(s.delivery[x],
                                       MarkerVerdict(s, x, t, catalog))]]

CloseMarkers(s, t, catalog) ==
    [s EXCEPT !.delivery = [x \in Scopes |->
        IF s.delivery[x].deferred # "pending" THEN s.delivery[x]
        ELSE IF MarkerVerdict(s, x, t, catalog) \in {"pending", "ready"}
        THEN [s.delivery[x] EXCEPT !.deferredAt = Least(@, t)]
        ELSE ClearDeferredAvailability(s.delivery[x],
                                       MarkerVerdict(s, x, t, catalog))]]

Promotable(s, t, catalog, live) ==
    {x \in Scopes :
        /\ s.delivery[x].deferred = "pending"
        /\ MarkerVerdict(s, x, t, catalog) = "ready"
        /\ CanMakeEvent(s, x, Least(s.delivery[x].deferredAt, t), t, live)}

\* promoteDeferredAvailability with the admission a of the promotable markers.
PromoteDeferredAvailability(s, a, serial, t, catalog) ==
    LET closed == CloseMarkers(s, t, catalog)
    IN  Admit(closed, a, serial,
              [x \in Scopes |-> closed.delivery[x].deferredAt], t)

-------------------------------------------------------------------------------
(* Apple host backoff and schedule *)

\* Mutant: the failure count has no cap.
UncappedUpdateBackoff(s, hadFetchFailure, retryAfter, t) ==
    IF hadFetchFailure
    THEN [s EXCEPT !.failures = @ + 1,
                   !.nextEligibleAt = t + Greatest(BackoffBase, retryAfter)]
    ELSE [s EXCEPT !.failures = 0, !.nextEligibleAt = None]

UpdateBackoff(s, hadFetchFailure, retryAfter, t) ==
    LET failures == Least(MaxFailures, s.failures + 1)
        delay == Least(MaxBackoff, BackoffBase * 2^(failures - 1))
    IN  IF hadFetchFailure
        THEN [s EXCEPT !.failures = failures,
                       !.nextEligibleAt = t + Greatest(delay, retryAfter)]
        ELSE [s EXCEPT !.failures = 0, !.nextEligibleAt = None]

RetryDelay(attempt) == Least(MaxBackoff, RetryBase * 2^Greatest(0, attempt - 1))

IsWatchDue(s, w, t) ==
    \E x \in ScopesOf(s, w) :
        \/ s.items[x] = None
        \/ t - s.items[x].checkedAt >= PollInterval

\* Mutant: a first failure does not count.
LaxInHostBackoff(s, t) ==
    /\ s.nextEligibleAt # None
    /\ s.nextEligibleAt > t
    /\ s.failures > 1

InHostBackoff(s, t) ==
    /\ s.nextEligibleAt # None
    /\ s.nextEligibleAt > t

\* The instants after t at which the backoff or a pending copy falls due.
Deadlines(s, t) ==
    {u \in {s.nextEligibleAt} \cup
           {s.pending[p[1]].channels[p[2]].next :
              p \in {q \in EventIds \X Channels :
                        IsCurrentPendingChannel(s, q[1], q[2])}} :
        /\ u # None
        /\ u > t}

(***************************************************************************)
(* refreshSchedule: the two browser alarms, cancelled and set again.       *)
(***************************************************************************)
Alarm == [periodic : OptTime, oneShot : OptTime]

NoAlarm == [periodic |-> None, oneShot |-> None]

\* Mutant: the one-shot alarm takes the place of the periodic one.
OneAlarmRefreshSchedule(s, t) ==
    IF \E w \in Watches : s.watches[w] # None /\ s.watches[w].enabled
    THEN [periodic |-> IF Deadlines(s, t) = {} THEN t + PollInterval ELSE None,
          oneShot  |-> IF Deadlines(s, t) = {} THEN None
                       ELSE CHOOSE u \in Deadlines(s, t) :
                              \A v \in Deadlines(s, t) : u <= v]
    ELSE NoAlarm

\* Mutant: no periodic alarm.
NoPeriodicRefreshSchedule(s, t) ==
    [periodic |-> None,
     oneShot  |-> IF Deadlines(s, t) = {} THEN None
                  ELSE CHOOSE u \in Deadlines(s, t) :
                         \A v \in Deadlines(s, t) : u <= v]

RefreshSchedule(s, t) ==
    IF \E w \in Watches : s.watches[w] # None /\ s.watches[w].enabled
    THEN [periodic |-> t + PollInterval,
          oneShot  |-> IF Deadlines(s, t) = {} THEN None
                       ELSE CHOOSE u \in Deadlines(s, t) :
                              \A v \in Deadlines(s, t) : u <= v]
    ELSE NoAlarm

-------------------------------------------------------------------------------
(* Loading: normalizePersistedClockSkew *)

\* hasPlausibleFutureProviderDeadline
KeepsProviderDeadline(event, t) ==
    \E c \in Channels :
        LET copy == event.channels[c] IN
        /\ copy # None
        /\ copy.state = "pending" /\ copy.attempts # 0 /\ copy.next # None
        /\ event.observedAt > t
        /\ copy.next >= event.observedAt
        /\ copy.next <= event.observedAt + Retention
        /\ copy.next <= t + Retention + FutureSkew

NormalizedItem(item, t) ==
    [item EXCEPT
       !.checkedAt = IF @ > t + FutureSkew THEN t - PollInterval ELSE @,
       !.successAt = IF @ = None THEN None
                     ELSE IF @ > t + FutureSkew THEN t ELSE @]

NormalizedDelivery(delivery, t) ==
    [delivery EXCEPT
       !.alertedAt  = IF @ = None THEN None
                      ELSE IF @ > t + FutureSkew THEN t - Cooldown ELSE @,
       !.deferredAt = IF @ = None THEN None ELSE Least(@, t)]

\* Mutant: an event whose clock has been set right is tried afresh.
RevivingNormalizedCopy(copy, observedAt, recovered, t) ==
    IF recovered
    THEN [copy EXCEPT !.state = "pending", !.next = t, !.doneAt = None]
    ELSE copy

\* A deadline beyond the life of the event closes the copy, unless the copy was
\* never tried and its event's clock has just been set right (recovered).
NormalizedCopy(copy, observedAt, recovered, t) ==
    LET late == copy.next # None /\ copy.next > observedAt + Retention
    IN  IF late /\ recovered /\ copy.attempts = 0
        THEN [copy EXCEPT !.next = t]
        ELSE IF late THEN Closed(copy, "expired", t)
        ELSE [copy EXCEPT !.doneAt = IF @ = None THEN None ELSE Least(@, t)]

NormalizedEvent(event, t) ==
    LET keep       == KeepsProviderDeadline(event, t)
        observedAt == IF keep THEN event.observedAt ELSE Least(event.observedAt, t)
        createdAt  == IF keep THEN event.createdAt ELSE Least(event.createdAt, t)
        recovered  == observedAt # event.observedAt \/ createdAt # event.createdAt
    IN  [event EXCEPT
           !.observedAt = observedAt,
           !.createdAt  = Greatest(createdAt, observedAt),
           !.channels   = [c \in Channels |->
                IF event.channels[c] = None THEN None
                ELSE NormalizedCopy(event.channels[c], observedAt, recovered, t)]]

NormalizePersistedClockSkew(s, t) ==
    LET skewed == s.nextEligibleAt # None /\ s.nextEligibleAt > t + FutureSkew
    IN  [watches  |-> s.watches,
         items    |-> [x \in Scopes |->
            IF s.items[x] = None THEN None ELSE NormalizedItem(s.items[x], t)],
         delivery |-> [x \in Scopes |-> NormalizedDelivery(s.delivery[x], t)],
         pending  |-> [id \in EventIds |->
            IF s.pending[id] = None THEN None
            ELSE NormalizedEvent(s.pending[id], t)],
         nextEligibleAt |-> IF skewed THEN None ELSE s.nextEligibleAt,
         failures       |-> IF skewed THEN 0 ELSE s.failures]

-------------------------------------------------------------------------------
(***************************************************************************)
(* What ValidatedLocalMonitorStorage.save insists on (the refinements of   *)
(* LocalMonitorSnapshotSchema): it refuses any other snapshot.             *)
(***************************************************************************)
ItemConsistent(item) ==
    item.status # "unknown" => item.known = item.status /\ item.successAt # None

DeliveryConsistent(delivery) ==
    IF delivery.deferred = "pending"
    THEN delivery.deferredAt # None /\ delivery.deferredRev # None
    ELSE delivery.deferredAt = None /\ delivery.deferredRev = None

EventConsistent(event) ==
    /\ event.createdAt >= event.observedAt
    /\ \E c \in Channels : event.channels[c] # None
    /\ \A c \in Channels : event.channels[c] # None =>
        (event.channels[c].state = "pending" <=> event.channels[c].doneAt = None)

Saveable(s) ==
    /\ \A x \in Scopes :
        /\ s.items[x] # None => InScope(s, x) /\ ItemConsistent(s.items[x])
        /\ s.delivery[x] # NoDelivery => InScope(s, x)
        /\ DeliveryConsistent(s.delivery[x])
    /\ \A id \in Ledger(s) : InScope(s, id[1]) /\ EventConsistent(s.pending[id])
    /\ Cardinality(Ledger(s)) <= MaxPending

\* Work still to be delivered is what its watch asks for, and may go out.
Authorised(s) ==
    \A id \in EventIds, c \in Channels :
        /\ s.pending[id] # None
        /\ s.pending[id].channels[c] # None
        /\ s.pending[id].channels[c].state = "pending"
        => IsCurrentPendingChannel(s, id, c)
===============================================================================
