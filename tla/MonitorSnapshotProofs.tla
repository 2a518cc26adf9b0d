------------------------- MODULE MonitorSnapshotProofs -------------------------
(***************************************************************************)
(* Facts about the operators of MonitorSnapshot, for every value of the    *)
(* constants: each gives a snapshot again, and none but the queueing of a  *)
(* new alert adds work to the delivery ledger; further down, each leaves   *)
(* the snapshot as storage accepts it.  MonitorEngineProofs cites them     *)
(* action by action.                                                       *)
(***************************************************************************)
EXTENDS MonitorSnapshot, TLAPS, WellFoundedInduction, FiniteSetTheorems

\* Closing a copy gives a copy.
LEMMA ClosedType ==
    ASSUME NEW copy \in Copy, NEW state \in CopyState, NEW t \in Int
    PROVE  Closed(copy, state, t) \in Copy
BY DEF Closed, Copy, OptTime

\* Closing an event's copies closes exactly the pending ones with a verdict, and
\* leaves the event's revision alone.
LEMMA CloseEventType ==
    ASSUME NEW event \in Event, NEW t \in Int,
           NEW verdict \in [Channels -> CopyState]
    PROVE  /\ CloseEvent(event, verdict, t) \in Event
           /\ CloseEvent(event, verdict, t).rev = event.rev
           /\ \A c \in Channels :
                LET copy == event.channels[c]
                    after == CloseEvent(event, verdict, t).channels[c] IN
                /\ copy = None => after = None
                /\ copy # None => after \in Copy /\
                   (after.state = "pending" <=>
                        copy.state = "pending" /\ verdict[c] = "pending")
<1> DEFINE channels ==
        [c \in Channels |->
            IF event.channels[c] = None THEN None
            ELSE IF event.channels[c].state = "pending" /\ verdict[c] # "pending"
                 THEN Closed(event.channels[c], verdict[c], t)
                 ELSE event.channels[c]]
<1>1. event.channels \in [Channels -> Copy \cup {None}]
  BY DEF Event
<1>2. channels \in [Channels -> Copy \cup {None}]
  BY <1>1, ClosedType
<1>3. \A c \in Channels :
        /\ event.channels[c] = None => channels[c] = None
        /\ event.channels[c] # None => channels[c] \in Copy /\
             (channels[c].state = "pending" <=>
               event.channels[c].state = "pending" /\ verdict[c] = "pending")
  <2> SUFFICES ASSUME NEW c \in Channels, event.channels[c] # None
               PROVE  channels[c] \in Copy /\ 
                     (channels[c].state = "pending" <=>
                       event.channels[c].state = "pending" /\ verdict[c] = "pending")
    OBVIOUS
  <2>1. event.channels[c] \in Copy
    BY <1>1
  <2>2. CASE event.channels[c].state = "pending" /\ verdict[c] # "pending"
    BY <2>1, <2>2, ClosedType DEF Closed, Copy
  <2>3. CASE ~(event.channels[c].state = "pending" /\ verdict[c] # "pending")
    BY <2>1, <2>3
  <2>4. QED
    BY <2>2, <2>3
<1>4. CloseEvent(event, verdict, t) = [event EXCEPT !.channels = channels]
  BY DEF CloseEvent
<1>5. QED
  <2> HIDE DEF channels
  <2> QED BY <1>2, <1>3, <1>4 DEF Event

-------------------------------------------------------------------------------

\* The ledger of s holds a copy of id for c that may still be delivered.
IsPendingCopy(s, id, c) ==
    /\ s.pending[id] # None
    /\ s.pending[id].channels[c] # None
    /\ s.pending[id].channels[c].state = "pending"

\* From s to new no copy becomes pending again and no pending copy changes its
\* revision: all that closing, observing and loading may do to the ledger.
NoNewWork(s, new) ==
    \A id \in EventIds, c \in Channels :
        IsPendingCopy(new, id, c) =>
            /\ IsPendingCopy(s, id, c)
            /\ new.pending[id].rev = s.pending[id].rev

\* The parts of scopes and event ids.
LEMMA ScopeTypes ==
    /\ \A x \in Scopes : x[1] \in Watches
    /\ \A id \in EventIds : id[1] \in Scopes /\ id[1][1] \in Watches
BY DEF Scopes, EventIds

\* Authorisation is lost neither by closing work nor by forgetting it.
LEMMA AuthorisedKept ==
    ASSUME NEW s \in Snapshot, NEW new \in Snapshot, Authorised(s),
           new.watches = s.watches, NoNewWork(s, new)
    PROVE  Authorised(new)
BY DEF Authorised, NoNewWork, IsPendingCopy, IsCurrentPendingChannel

\* Steps that add no work compose.
LEMMA NoNewWorkIsTransitive ==
    ASSUME NEW s \in Snapshot, NEW t \in Snapshot, NEW u \in Snapshot,
           NoNewWork(s, t), NoNewWork(t, u)
    PROVE  NoNewWork(s, u)
BY DEF NoNewWork

\* A step that leaves the ledger alone adds no work.
LEMMA SamePendingIsNoNewWork ==
    ASSUME NEW s \in Snapshot, NEW new \in Snapshot, new.pending = s.pending
    PROVE  NoNewWork(s, new)
BY DEF NoNewWork, IsPendingCopy

\* CloseCopies gives a snapshot with the same watches, adds no work, and what stays
\* pending is what the verdict says.
LEMMA CloseCopiesType ==
    ASSUME NEW s \in Snapshot, NEW t \in Int,
           NEW verdict \in [EventIds -> [Channels -> CopyState]]
    PROVE  LET new == CloseCopies(s, verdict, t) IN
           /\ new \in Snapshot
           /\ new.watches = s.watches
           /\ NoNewWork(s, new)
           /\ \A id \in EventIds, c \in Channels :
                IsPendingCopy(new, id, c) <=>
                    IsPendingCopy(s, id, c) /\ verdict[id][c] = "pending"
<1> DEFINE new == CloseCopies(s, verdict, t)
           pending == [id \in EventIds |->
                        IF s.pending[id] = None THEN None
                        ELSE CloseEvent(s.pending[id], verdict[id], t)]
<1>1. s.pending \in [EventIds -> Event \cup {None}]
  BY DEF Snapshot
<1>2. ASSUME NEW id \in EventIds, s.pending[id] # None
      PROVE  s.pending[id] \in Event /\ verdict[id] \in [Channels -> CopyState]
  BY <1>1, <1>2
<1>3. pending \in [EventIds -> Event \cup {None}]
  BY <1>2, CloseEventType
<1>4. new = [s EXCEPT !.pending = pending]
  BY DEF CloseCopies
<1>5. new \in Snapshot /\ new.watches = s.watches /\ new.pending = pending
  <2> HIDE DEF pending, new
  <2> QED BY <1>3, <1>4 DEF Snapshot
<1>6. \A id \in EventIds, c \in Channels :
        /\ IsPendingCopy(new, id, c) <=>
             IsPendingCopy(s, id, c) /\ verdict[id][c] = "pending"
        /\ IsPendingCopy(new, id, c) => new.pending[id].rev = s.pending[id].rev
  <2> SUFFICES ASSUME NEW id \in EventIds, NEW c \in Channels
               PROVE  /\ IsPendingCopy(new, id, c) <=>
                           IsPendingCopy(s, id, c) /\ verdict[id][c] = "pending"
                      /\ IsPendingCopy(new, id, c) =>
                           new.pending[id].rev = s.pending[id].rev
    OBVIOUS
  <2> HIDE DEF new
  <2>1. CASE s.pending[id] = None
    BY <1>5, <2>1 DEF IsPendingCopy
  <2>2. CASE s.pending[id] # None
    <3>1. new.pending[id] = CloseEvent(s.pending[id], verdict[id], t)
      BY <1>5, <2>2
    <3>2. s.pending[id].channels[c] \in Copy \cup {None}
      BY <1>2, <2>2 DEF Event
    <3>3. new.pending[id] \in Event
      BY <1>2, <2>2, <3>1, CloseEventType
    <3>4. None \notin Copy /\ None \notin Event
      BY NoneIsNoRecord
    <3>5. /\ new.pending[id].rev = s.pending[id].rev
          /\ s.pending[id].channels[c] = None => new.pending[id].channels[c] = None
          /\ s.pending[id].channels[c] # None =>
               /\ new.pending[id].channels[c] \in Copy
               /\ new.pending[id].channels[c].state = "pending" <=>
                    s.pending[id].channels[c].state = "pending"
                    /\ verdict[id][c] = "pending"
      BY <1>2, <2>2, <3>1, CloseEventType
    <3>6. QED
      BY <2>2, <3>2, <3>3, <3>4, <3>5 DEF IsPendingCopy
  <2>3. QED
    BY <2>1, <2>2
<1>7. NoNewWork(s, new)
  <2> HIDE DEF new
  <2> QED BY <1>6 DEF NoNewWork
<1>8. QED
  BY <1>5, <1>6, <1>7

\* reconcileDurableDelivery gives a snapshot with the same watches and adds no work.
LEMMA ReconcileDurableDeliveryKeeps ==
    ASSUME NEW s \in Snapshot, NEW t \in Int
    PROVE  LET new == ReconcileDurableDelivery(s, t) IN
           new \in Snapshot /\ new.watches = s.watches /\ NoNewWork(s, new)
<1> DEFINE verdict == [id \in EventIds |-> [c \in Channels |->
            LET watch == s.watches[id[1][1]]
                event == s.pending[id]
            IN  IF watch = None THEN "revoked"
                ELSE IF watch.rev # event.rev THEN "superseded"
                ELSE IF c \notin watch.channels THEN "revoked"
                ELSE IF IsExpired(event, t) THEN "expired"
                ELSE "pending"]]
<1>1. verdict \in [EventIds -> [Channels -> CopyState]]
  BY DEF CopyState
<1>2. ReconcileDurableDelivery(s, t) = CloseCopies(s, verdict, t)
  BY DEF ReconcileDurableDelivery
<1>3. QED
  <2> HIDE DEF verdict
  <2> QED BY <1>1, <1>2, CloseCopiesType

\* Clearing a deferred marker gives a delivery record.
LEMMA ClearedType ==
    ASSUME NEW d \in Delivery, NEW state \in MarkerState \ {"pending"}
    PROVE  ClearDeferredAvailability(d, state) \in Delivery
BY DEF ClearDeferredAvailability, Delivery, OptTime

\* reconcileRetiredCatalogState gives a snapshot with the same watches and adds no
\* work, whatever the catalog.
LEMMA ReconcileRetiredCatalogStateKeeps ==
    ASSUME NEW s \in Snapshot, NEW t \in Int, NEW catalog
    PROVE  LET new == ReconcileRetiredCatalogState(s, catalog, t) IN
           new \in Snapshot /\ new.watches = s.watches /\ NoNewWork(s, new)
<1> DEFINE retired == RetiredWatches(s, catalog)
           items == [x \in Scopes |->
                    IF x[1] \in retired /\ s.items[x] # None
                    THEN [s.items[x] EXCEPT !.status = "unknown"]
                    ELSE s.items[x]]
           delivery == [x \in Scopes |->
                    IF x[1] \in retired /\ s.delivery[x].deferred = "pending"
                    THEN ClearDeferredAvailability(s.delivery[x], "superseded")
                    ELSE s.delivery[x]]
           verdict == [id \in EventIds |-> [c \in Channels |->
                IF id[1][1] \in retired THEN "superseded" ELSE "pending"]]
           marked == [s EXCEPT !.items = items, !.delivery = delivery]
<1>1. verdict \in [EventIds -> [Channels -> CopyState]]
  BY DEF CopyState
<1>2. items \in [Scopes -> Item \cup {None}]
  <2>1. s.items \in [Scopes -> Item \cup {None}]
    BY DEF Snapshot
  <2>2. \A i \in Item : [i EXCEPT !.status = "unknown"] \in Item
    BY DEF Item, Status
  <2> HIDE DEF retired
  <2>3. QED
    BY <2>1, <2>2
<1>3. delivery \in [Scopes -> Delivery]
  <2>1. s.delivery \in [Scopes -> Delivery]
    BY DEF Snapshot
  <2>2. "superseded" \in MarkerState \ {"pending"}
    BY DEF MarkerState
  <2> HIDE DEF retired
  <2>3. QED
    BY <2>1, <2>2, ClearedType
<1>4. ReconcileRetiredCatalogState(s, catalog, t) = CloseCopies(marked, verdict, t)
  BY DEF ReconcileRetiredCatalogState
<1>5. /\ marked \in Snapshot
      /\ marked.watches = s.watches /\ marked.pending = s.pending
  <2> HIDE DEF items, delivery
  <2> QED BY <1>2, <1>3 DEF Snapshot
<1>6. QED
  <2> HIDE DEF marked, verdict
  <2>1. CloseCopies(marked, verdict, t) \in Snapshot
    BY <1>1, <1>5, CloseCopiesType
  <2>2. NoNewWork(s, marked)
    BY <1>5, SamePendingIsNoNewWork
  <2>3. QED
    BY <1>1, <1>4, <1>5, <2>1, <2>2, CloseCopiesType, NoNewWorkIsTransitive

\* pruneForWatchRevision leaves no work of an earlier revision or of a channel that
\* was switched off for the edited watches, and all the work of the others.
LEMMA PruneForWatchRevisionKeeps ==
    ASSUME NEW s \in Snapshot, NEW t \in Int, NEW ws \in SUBSET Watches,
           \A w \in ws : s.watches[w] # None
    PROVE  LET new == PruneForWatchRevision(s, ws, t) IN
           /\ new \in Snapshot
           /\ new.watches = s.watches
           /\ NoNewWork(s, new)
           /\ \A id \in EventIds, c \in Channels :
                IF id[1][1] \in ws
                THEN IsPendingCopy(new, id, c) =>
                        /\ c \in s.watches[id[1][1]].channels
                        /\ s.pending[id].rev = s.watches[id[1][1]].rev
                ELSE IsPendingCopy(s, id, c) =>
                        /\ IsPendingCopy(new, id, c)
                        /\ new.pending[id].rev = s.pending[id].rev
<1> DEFINE kept(x) == x[1] \notin ws \/ InScope(s, x)
           dropped == DropScopes(s, ws)
           marked  == CloseStaleMarkers(dropped, ws)
           verdict == [id \in EventIds |-> [c \in Channels |->
                IF id[1][1] \notin ws \/ marked.pending[id] = None THEN "pending"
                ELSE IF c \notin marked.watches[id[1][1]].channels THEN "revoked"
                ELSE IF marked.pending[id].rev # marked.watches[id[1][1]].rev
                THEN "superseded"
                ELSE "pending"]]
           new == CloseCopies(marked, verdict, t)
<1>1. PruneForWatchRevision(s, ws, t) = new
  BY DEF PruneForWatchRevision, CloseStaleCopies
<1>2. /\ dropped \in Snapshot
      /\ dropped.watches = s.watches
      /\ \A id \in EventIds :
            dropped.pending[id] = IF kept(id[1]) THEN s.pending[id] ELSE None
  <2>1. NoDelivery \in Delivery
    BY DEF NoDelivery, Delivery, OptTime, MarkerState
  <2> DEFINE items == [x \in Scopes |-> IF kept(x) THEN s.items[x] ELSE None]
             delivery == [x \in Scopes |->
                IF kept(x) THEN s.delivery[x] ELSE NoDelivery]
             pending == [id \in EventIds |->
                IF kept(id[1]) THEN s.pending[id] ELSE None]
  <2>2. /\ items \in [Scopes -> Item \cup {None}]
        /\ delivery \in [Scopes -> Delivery]
        /\ pending \in [EventIds -> Event \cup {None}]
    BY <2>1 DEF Snapshot
  <2>3. dropped = [s EXCEPT !.items = items, !.delivery = delivery,
                            !.pending = pending]
    BY DEF DropScopes
  <2>4. /\ dropped \in Snapshot
        /\ dropped.watches = s.watches
        /\ dropped.pending = pending
    <3> HIDE DEF items, delivery, pending, dropped
    <3> QED BY <2>2, <2>3 DEF Snapshot
  <2>5. QED
    <3> HIDE DEF dropped, kept
    <3> QED BY <2>4
<1>3. /\ marked \in Snapshot
      /\ marked.watches = s.watches
      /\ marked.pending = dropped.pending
  <2> HIDE DEF dropped
  <2>1. {"revoked", "superseded"} \subseteq MarkerState \ {"pending"}
    BY DEF MarkerState
  <2>2. dropped.delivery \in [Scopes -> Delivery]
    BY <1>2 DEF Snapshot
  <2> DEFINE delivery == [x \in Scopes |->
        IF x[1] \notin ws \/ dropped.delivery[x].deferred # "pending"
        THEN dropped.delivery[x]
        ELSE IF dropped.watches[x[1]].channels = {}
        THEN ClearDeferredAvailability(dropped.delivery[x], "revoked")
        ELSE IF dropped.delivery[x].deferredRev # dropped.watches[x[1]].rev
        THEN ClearDeferredAvailability(dropped.delivery[x], "superseded")
        ELSE dropped.delivery[x]]
  <2>3. delivery \in [Scopes -> Delivery]
    BY <2>1, <2>2, ClearedType
  <2>4. marked = [dropped EXCEPT !.delivery = delivery]
    BY DEF CloseStaleMarkers
  <2>5. QED
    <3> HIDE DEF delivery, marked
    <3> QED BY <1>2, <2>3, <2>4 DEF Snapshot
<1>4. verdict \in [EventIds -> [Channels -> CopyState]]
  <2> HIDE DEF marked
  <2> QED BY DEF CopyState
<1>5. /\ new \in Snapshot
      /\ new.watches = s.watches
      /\ NoNewWork(marked, new)
      /\ \A id \in EventIds, c \in Channels :
            IsPendingCopy(new, id, c) <=>
                IsPendingCopy(marked, id, c) /\ verdict[id][c] = "pending"
  <2> HIDE DEF marked, verdict
  <2> QED BY <1>3, <1>4, CloseCopiesType
<1>6. NoNewWork(s, marked)
  <2> HIDE DEF kept, marked, dropped
  <2> QED BY <1>2, <1>3 DEF NoNewWork, IsPendingCopy
<1>7. \A id \in EventIds, c \in Channels :
        IF id[1][1] \in ws
        THEN IsPendingCopy(new, id, c) =>
                /\ c \in s.watches[id[1][1]].channels
                /\ s.pending[id].rev = s.watches[id[1][1]].rev
        ELSE IsPendingCopy(s, id, c) =>
                /\ IsPendingCopy(new, id, c)
                /\ new.pending[id].rev = s.pending[id].rev
  <2> SUFFICES ASSUME NEW id \in EventIds, NEW c \in Channels
               PROVE  IF id[1][1] \in ws
                      THEN IsPendingCopy(new, id, c) =>
                            /\ c \in s.watches[id[1][1]].channels
                            /\ s.pending[id].rev = s.watches[id[1][1]].rev
                      ELSE IsPendingCopy(s, id, c) =>
                            /\ IsPendingCopy(new, id, c)
                            /\ new.pending[id].rev = s.pending[id].rev
    OBVIOUS
  <2> HIDE DEF new, marked, dropped
  <2>1. CASE id[1][1] \in ws
    <3> SUFFICES ASSUME IsPendingCopy(new, id, c)
                 PROVE  /\ c \in s.watches[id[1][1]].channels
                        /\ s.pending[id].rev = s.watches[id[1][1]].rev
      BY <2>1
    <3>1. IsPendingCopy(marked, id, c) /\ verdict[id][c] = "pending"
      BY <1>5
    <3>2. /\ marked.pending[id] # None
          /\ c \in marked.watches[id[1][1]].channels
          /\ marked.pending[id].rev = marked.watches[id[1][1]].rev
      BY <2>1, <3>1 DEF IsPendingCopy
    <3>3. marked.pending[id] = s.pending[id]
      <4> HIDE DEF kept
      <4> QED BY <1>2, <1>3, <3>2
    <3>4. QED
      BY <1>3, <3>2, <3>3
  <2>2. CASE id[1][1] \notin ws
    <3> SUFFICES ASSUME IsPendingCopy(s, id, c)
                 PROVE  /\ IsPendingCopy(new, id, c)
                        /\ new.pending[id].rev = s.pending[id].rev
      BY <2>2
    <3>1. marked.pending[id] = s.pending[id]
      BY <1>2, <1>3, <2>2
    <3>2. verdict[id][c] = "pending"
      BY <2>2
    <3>3. IsPendingCopy(new, id, c)
      <4> HIDE DEF verdict
      <4> QED BY <1>5, <3>1, <3>2 DEF IsPendingCopy
    <3>4. QED
      BY <1>5, <3>1, <3>3 DEF NoNewWork
  <2>3. QED
    BY <2>1, <2>2
<1>8. QED
  <2> HIDE DEF new, marked, dropped, kept, verdict
  <2>1. NoNewWork(s, new)
    BY <1>3, <1>5, <1>6, NoNewWorkIsTransitive
  <2>2. QED
    BY <1>1, <1>5, <1>7, <2>1

\* deleteWatch forgets the watch and all the work queued for it, and nothing else.
LEMMA WithoutWatchKeeps ==
    ASSUME NEW s \in Snapshot, NEW w \in Watches
    PROVE  LET new == WithoutWatch(s, w) IN
           /\ new \in Snapshot
           /\ new.watches = [s.watches EXCEPT ![w] = None]
           /\ \A id \in EventIds :
                new.pending[id] = IF id[1][1] = w THEN None ELSE s.pending[id]
<1> DEFINE items == [x \in Scopes |-> IF x[1] = w THEN None ELSE s.items[x]]
           delivery == [x \in Scopes |->
                IF x[1] = w THEN NoDelivery ELSE s.delivery[x]]
           pending == [id \in EventIds |->
                IF id[1][1] = w THEN None ELSE s.pending[id]]
           watches == [s.watches EXCEPT ![w] = None]
           new == WithoutWatch(s, w)
<1>1. NoDelivery \in Delivery
  BY DEF NoDelivery, Delivery, OptTime, MarkerState
<1>2. /\ items \in [Scopes -> Item \cup {None}]
      /\ delivery \in [Scopes -> Delivery]
      /\ pending \in [EventIds -> Event \cup {None}]
      /\ watches \in [Watches -> Watch \cup {None}]
  BY <1>1 DEF Snapshot
<1>3. new = [s EXCEPT !.watches = watches, !.items = items,
                      !.delivery = delivery, !.pending = pending]
  BY DEF WithoutWatch
<1>4. new \in Snapshot /\ new.watches = watches /\ new.pending = pending
  <2> HIDE DEF items, delivery, pending, watches, new
  <2> QED BY <1>2, <1>3 DEF Snapshot
<1>5. QED
  <2> HIDE DEF items, delivery
  <2> QED BY <1>4

\* A queued event carries the revision and the channels of its watch.
LEMMA NewEventType ==
    ASSUME NEW watch \in Watch, NEW observedAt \in Int, NEW t \in Int
    PROVE  LET event == NewEvent(watch, observedAt, t) IN
           /\ event \in Event
           /\ event.rev = watch.rev
           /\ \A c \in Channels : event.channels[c] # None => c \in watch.channels
<1> DEFINE fresh == [state |-> "pending", attempts |-> 0, next |-> t, doneAt |-> None]
           channels == [c \in Channels |->
                            IF c \in watch.channels THEN fresh ELSE None]
<1>1. fresh \in Copy
  BY BoundsAssumption DEF Copy, CopyState, OptTime
<1>2. channels \in [Channels -> Copy \cup {None}]
  <2> HIDE DEF fresh
  <2> QED BY <1>1
<1>3. NewEvent(watch, observedAt, t) =
        [rev |-> watch.rev, observedAt |-> observedAt, createdAt |-> t,
         channels |-> channels]
  BY DEF NewEvent
<1>4. \A c \in Channels : channels[c] # None => c \in watch.channels
  OBVIOUS
<1>5. QED
  <2> HIDE DEF channels
  <2> QED BY <1>2, <1>3, <1>4 DEF Event, Watch

\* Queueing alerts of enabled watches, evicting what it may, keeps a snapshot
\* authorised.
LEMMA AdmitKeeps ==
    ASSUME NEW s \in Snapshot, NEW t \in Int, NEW a, NEW serial, NEW seen,
           a.queued \subseteq Scopes,
           \A x \in a.queued : /\ s.watches[x[1]] # None
                               /\ s.watches[x[1]].enabled
                               /\ seen[x] \in Int
    PROVE  LET new == Admit(s, a, serial, seen, t) IN
           /\ new \in Snapshot
           /\ new.watches = s.watches
           /\ Authorised(s) => Authorised(new)
<1> DEFINE pending == [id \in EventIds |->
            IF id \in a.evicted THEN None
            ELSE IF id[1] \in a.queued /\ id[2] = serial[id[1]] + 1
            THEN NewEvent(s.watches[id[1][1]], seen[id[1]], t)
            ELSE s.pending[id]]
           delivery == [x \in Scopes |->
            IF x \notin a.queued THEN s.delivery[x]
            ELSE IF s.delivery[x].deferred = "pending"
            THEN [ClearDeferredAvailability(s.delivery[x], "none")
                    EXCEPT !.alertedAt = t]
            ELSE [s.delivery[x] EXCEPT !.alertedAt = t]]
           new == Admit(s, a, serial, seen, t)
<1>1. /\ s.watches \in [Watches -> Watch \cup {None}]
      /\ s.delivery \in [Scopes -> Delivery]
      /\ s.pending \in [EventIds -> Event \cup {None}]
  BY DEF Snapshot
<1>2. \A id \in EventIds : id[1] \in a.queued =>
        s.watches[id[1][1]] \in Watch /\ seen[id[1]] \in Int
  BY <1>1, ScopeTypes
<1>3. \A id \in EventIds : pending[id] \in Event \cup {None}
  BY <1>1, <1>2, NewEventType
<1>4. \A x \in Scopes : delivery[x] \in Delivery
  <2> SUFFICES ASSUME NEW x \in Scopes PROVE delivery[x] \in Delivery
    OBVIOUS
  <2>1. \A d \in Delivery : [d EXCEPT !.alertedAt = t] \in Delivery
    BY DEF Delivery, OptTime
  <2>2. ClearDeferredAvailability(s.delivery[x], "none") \in Delivery
    BY <1>1, ClearedType DEF MarkerState
  <2>3. QED
    BY <1>1, <2>1, <2>2
<1>5. /\ new \in Snapshot
      /\ new.watches = s.watches
      /\ new.pending = pending
  <2>1. new = [s EXCEPT !.pending = pending, !.delivery = delivery]
    BY DEF Admit
  <2>2. /\ pending \in [EventIds -> Event \cup {None}]
        /\ delivery \in [Scopes -> Delivery]
    BY <1>3, <1>4
  <2> HIDE DEF pending, delivery, new
  <2>3. QED
    BY <2>1, <2>2 DEF Snapshot
<1>6. ASSUME Authorised(s), NEW id \in EventIds, NEW c \in Channels,
             IsPendingCopy(new, id, c)
      PROVE  IsCurrentPendingChannel(new, id, c)
  <2>1. pending[id] # None /\ new.pending[id] = pending[id]
    <3> HIDE DEF pending
    <3> QED BY <1>5, <1>6 DEF IsPendingCopy
  <2>2. CASE pending[id] = s.pending[id]
    <3> HIDE DEF pending, new
    <3> QED BY <1>5, <1>6, <2>1, <2>2
            DEF Authorised, IsPendingCopy, IsCurrentPendingChannel
  <2>3. CASE /\ id[1] \in a.queued
             /\ pending[id] = NewEvent(s.watches[id[1][1]], seen[id[1]], t)
    <3> HIDE DEF pending, new
    <3>1. /\ s.watches[id[1][1]] # None
          /\ s.watches[id[1][1]].enabled
          /\ new.pending[id].rev = s.watches[id[1][1]].rev
          /\ new.pending[id].channels[c] # None
                => c \in s.watches[id[1][1]].channels
      BY <1>2, <2>1, <2>3, NewEventType
    <3>2. QED
      BY <1>5, <1>6, <3>1 DEF IsPendingCopy, IsCurrentPendingChannel
  <2>4. QED
    BY <2>1, <2>2, <2>3
<1>7. Authorised(s) => Authorised(new)
  <2> HIDE DEF new
  <2> QED BY <1>6 DEF Authorised, IsPendingCopy
<1>8. QED
  <2> HIDE DEF pending, delivery
  <2> QED BY <1>5, <1>7

\* Leaving markers for saved watches changes neither watches nor ledger.
LEMMA DeferKeeps ==
    ASSUME NEW s \in Snapshot, NEW t \in Int, NEW xs,
           \A x \in Scopes : x \in xs => s.watches[x[1]] # None
    PROVE  LET new == Defer(s, xs, t) IN
           /\ new \in Snapshot
           /\ new.watches = s.watches
           /\ new.pending = s.pending
<1> DEFINE delivery == [x \in Scopes |->
        IF x \in xs
        THEN [s.delivery[x] EXCEPT !.deferred = "pending", !.deferredAt = t,
                                   !.deferredRev = s.watches[x[1]].rev]
        ELSE s.delivery[x]]
           new == Defer(s, xs, t)
<1>1. /\ s.watches \in [Watches -> Watch \cup {None}]
      /\ s.delivery \in [Scopes -> Delivery]
  BY DEF Snapshot
<1>2. \A d \in Delivery, rev \in Int :
        [d EXCEPT !.deferred = "pending", !.deferredAt = t, !.deferredRev = rev]
            \in Delivery
  BY NoneAssumption DEF Delivery, OptTime, MarkerState
<1>3. \A x \in Scopes : x \in xs => s.watches[x[1]].rev \in Int
  BY <1>1, ScopeTypes DEF Watch
<1>4. delivery \in [Scopes -> Delivery]
  BY <1>1, <1>2, <1>3
<1>5. new = [s EXCEPT !.delivery = delivery]
  BY DEF Defer
<1>6. QED
  <2> HIDE DEF delivery
  <2> QED BY <1>4, <1>5 DEF Snapshot

\* Recording an observation gives an item.
LEMMA ObservedType ==
    ASSUME NEW item \in Item \cup {None}, NEW status \in Status, NEW t \in Int
    PROVE  Observed(item, status, t) \in Item
BY DEF Observed, Item, Status, KnownStatus, OptTime

\* Recording observations changes neither watches nor ledger.
LEMMA RecordItemsKeeps ==
    ASSUME NEW s \in Snapshot, NEW t \in Int, NEW obs,
           \A x \in DOMAIN obs : obs[x] \in Status
    PROVE  LET new == RecordItems(s, obs, t) IN
           /\ new \in Snapshot
           /\ new.watches = s.watches
           /\ new.pending = s.pending
<1> DEFINE items == [x \in Scopes |->
            IF x \in DOMAIN obs THEN Observed(s.items[x], obs[x], t)
            ELSE s.items[x]]
           delivery == [x \in Scopes |->
            IF /\ x \in DOMAIN obs
               /\ obs[x] = "unavailable"
               /\ s.delivery[x].deferred = "pending"
            THEN ClearDeferredAvailability(s.delivery[x], "superseded")
            ELSE s.delivery[x]]
           new == RecordItems(s, obs, t)
<1>1. /\ s.items \in [Scopes -> Item \cup {None}]
      /\ s.delivery \in [Scopes -> Delivery]
  BY DEF Snapshot
<1>2. items \in [Scopes -> Item \cup {None}]
  BY <1>1, ObservedType
<1>3. delivery \in [Scopes -> Delivery]
  <2>1. "superseded" \in MarkerState \ {"pending"}
    BY DEF MarkerState
  <2>2. QED
    BY <1>1, <2>1, ClearedType
<1>4. new = [s EXCEPT !.items = items, !.delivery = delivery]
  BY DEF RecordItems
<1>5. QED
  <2> HIDE DEF items, delivery
  <2> QED BY <1>2, <1>3, <1>4 DEF Snapshot

\* recordObservation keeps a snapshot authorised: it queues alerts only for enabled
\* watches and their present revision.
LEMMA RecordObservationKeeps ==
    ASSUME NEW s \in Snapshot, NEW t \in Int, NEW obs, NEW catalog, NEW serial,
           DOMAIN obs \subseteq Scopes,
           \A x \in DOMAIN obs : obs[x] \in Status,
           NEW a \in Admissions(s, Alerting(s, obs, t, catalog))
    PROVE  LET new == RecordObservation(s, obs, a, serial, t, catalog) IN
           /\ new \in Snapshot
           /\ new.watches = s.watches
           /\ Authorised(s) => Authorised(new)
<1> DEFINE items == RecordItems(s, obs, t)
           admitted == Admit(items, a, serial, [x \in Scopes |-> t], t)
           xs == Alerting(s, obs, t, catalog) \ a.queued
           new == Defer(admitted, xs, t)
<1>1. a.queued \subseteq Alerting(s, obs, t, catalog)
  BY DEF Admissions
<1>2. \A x \in Alerting(s, obs, t, catalog) :
        x \in Scopes /\ s.watches[x[1]] # None /\ s.watches[x[1]].enabled
  BY DEF Alerting, CanMakeEvent, InScope
<1>3. /\ items \in Snapshot
      /\ items.watches = s.watches
      /\ items.pending = s.pending
  BY RecordItemsKeeps
<1>4. Authorised(s) => Authorised(items)
  <2> HIDE DEF items
  <2> QED BY <1>3, AuthorisedKept, SamePendingIsNoNewWork
<1>5. /\ admitted \in Snapshot
      /\ admitted.watches = items.watches
      /\ Authorised(items) => Authorised(admitted)
  <2>1. \A x \in a.queued : /\ items.watches[x[1]] # None
                            /\ items.watches[x[1]].enabled
                            /\ [y \in Scopes |-> t][x] \in Int
    <3> HIDE DEF items
    <3> QED BY <1>1, <1>2, <1>3
  <2> HIDE DEF items
  <2>2. a.queued \subseteq Scopes
    BY <1>1, <1>2
  <2>3. QED
    BY <1>3, <2>1, <2>2, AdmitKeeps
<1>6. /\ new \in Snapshot
      /\ new.watches = admitted.watches
      /\ new.pending = admitted.pending
  <2>1. \A x \in Scopes : x \in xs => admitted.watches[x[1]] # None
    <3> HIDE DEF admitted, items
    <3> QED BY <1>2, <1>3, <1>5
  <2> HIDE DEF admitted, xs
  <2>2. QED
    BY <1>5, <2>1, DeferKeeps
<1>7. Authorised(admitted) => Authorised(new)
  <2> HIDE DEF admitted, new
  <2> QED BY <1>5, <1>6, AuthorisedKept, SamePendingIsNoNewWork
<1>8. RecordObservation(s, obs, a, serial, t, catalog) = new
  BY DEF RecordObservation
<1>9. QED
  <2> HIDE DEF new, admitted, items
  <2> QED BY <1>3, <1>4, <1>5, <1>6, <1>7, <1>8

\* Closing stale markers changes neither watches nor ledger, and a marker that is
\* ready has the time it was left.
LEMMA CloseMarkersKeeps ==
    ASSUME NEW s \in Snapshot, NEW t \in Int, NEW catalog
    PROVE  LET new == CloseMarkers(s, t, catalog) IN
           /\ new \in Snapshot
           /\ new.watches = s.watches
           /\ new.pending = s.pending
           /\ \A x \in Scopes :
                /\ s.delivery[x].deferred = "pending"
                /\ MarkerVerdict(s, x, t, catalog) = "ready"
                => new.delivery[x].deferredAt \in Int
<1> DEFINE verdict(x) == MarkerVerdict(s, x, t, catalog)
           delivery == [x \in Scopes |->
        IF s.delivery[x].deferred # "pending" THEN s.delivery[x]
        ELSE IF verdict(x) \in {"pending", "ready"}
        THEN [s.delivery[x] EXCEPT !.deferredAt = Least(@, t)]
        ELSE ClearDeferredAvailability(s.delivery[x], verdict(x))]
           new == CloseMarkers(s, t, catalog)
<1>1. s.delivery \in [Scopes -> Delivery]
  BY DEF Snapshot
<1>2. ASSUME NEW d \in Delivery, d.deferred = "pending"
      PROVE  /\ [d EXCEPT !.deferredAt = Least(@, t)] \in Delivery
             /\ [d EXCEPT !.deferredAt = Least(@, t)].deferredAt \in Int
  <2>1. Least(d.deferredAt, t) \in Int
    BY <1>2 DEF Delivery, OptTime, Least
  <2>2. QED
    BY <1>2, <2>1, NoneAssumption DEF Delivery, OptTime
<1>3. \A x \in Scopes : verdict(x) \notin {"pending", "ready"} =>
                            verdict(x) \in MarkerState \ {"pending"}
  BY DEF MarkerVerdict, MarkerState
<1>4. ASSUME NEW x \in Scopes PROVE delivery[x] \in Delivery
  <2> HIDE DEF verdict
  <2> QED BY <1>1, <1>2, <1>3, ClearedType
<1>5. new = [s EXCEPT !.delivery = delivery]
  BY DEF CloseMarkers
<1>6. ASSUME NEW x \in Scopes, s.delivery[x].deferred = "pending",
             verdict(x) = "ready"
      PROVE  delivery[x].deferredAt \in Int
  <2> HIDE DEF verdict
  <2> QED BY <1>1, <1>2, <1>6
<1>7. delivery \in [Scopes -> Delivery]
  <2>1. \A x \in Scopes : delivery[x] \in Delivery
    BY <1>4
  <2> HIDE DEF verdict
  <2>2. QED
    BY <2>1
<1>8. new \in Snapshot /\ new.watches = s.watches /\ new.pending = s.pending
      /\ new.delivery = delivery
  <2> HIDE DEF delivery, new
  <2> QED BY <1>5, <1>7 DEF Snapshot
<1>9. QED
  <2> HIDE DEF delivery
  <2> QED BY <1>6, <1>8

\* promoteDeferredAvailability keeps a snapshot authorised: a marker is ready only
\* for the present revision of an enabled watch.
LEMMA PromoteDeferredAvailabilityKeeps ==
    ASSUME NEW s \in Snapshot, NEW t \in Int, NEW catalog, NEW live, NEW serial,
           NEW a \in Admissions(s, Promotable(s, t, catalog, live))
    PROVE  LET new == PromoteDeferredAvailability(s, a, serial, t, catalog) IN
           /\ new \in Snapshot
           /\ new.watches = s.watches
           /\ Authorised(s) => Authorised(new)
<1> DEFINE closed == CloseMarkers(s, t, catalog)
           seen == [x \in Scopes |-> closed.delivery[x].deferredAt]
           new == Admit(closed, a, serial, seen, t)
<1>1. a.queued \subseteq Promotable(s, t, catalog, live)
  BY DEF Admissions
<1>2. \A x \in Promotable(s, t, catalog, live) :
        /\ x \in Scopes
        /\ s.watches[x[1]] # None /\ s.watches[x[1]].enabled
        /\ s.delivery[x].deferred = "pending"
        /\ MarkerVerdict(s, x, t, catalog) = "ready"
  BY DEF Promotable, CanMakeEvent, InScope
<1>3. /\ closed \in Snapshot
      /\ closed.watches = s.watches
      /\ closed.pending = s.pending
      /\ \A x \in a.queued : closed.delivery[x].deferredAt \in Int
  BY <1>1, <1>2, CloseMarkersKeeps
<1>4. Authorised(s) => Authorised(closed)
  <2> HIDE DEF closed
  <2> QED BY <1>3, AuthorisedKept, SamePendingIsNoNewWork
<1>5. \A x \in a.queued : /\ closed.watches[x[1]] # None
                          /\ closed.watches[x[1]].enabled
                          /\ seen[x] \in Int
  <2> HIDE DEF closed
  <2> QED BY <1>1, <1>2, <1>3
<1>6. /\ new \in Snapshot
      /\ new.watches = closed.watches
      /\ Authorised(closed) => Authorised(new)
  <2> HIDE DEF closed, seen
  <2>1. a.queued \subseteq Scopes
    BY <1>1, <1>2
  <2>2. QED
    BY <1>3, <1>5, <2>1, AdmitKeeps
<1>7. PromoteDeferredAvailability(s, a, serial, t, catalog) = new
  BY DEF PromoteDeferredAvailability
<1>8. QED
  <2> HIDE DEF closed, new
  <2> QED BY <1>3, <1>4, <1>6, <1>7

\* updateBackoff changes neither watches nor ledger, and the failure count stays
\* within its cap.
LEMMA UpdateBackoffKeeps ==
    ASSUME NEW s \in Snapshot, NEW t \in Int, NEW failed \in BOOLEAN,
           NEW retryAfter \in Int
    PROVE  LET new == UpdateBackoff(s, failed, retryAfter, t) IN
           /\ new \in Snapshot
           /\ new.watches = s.watches
           /\ new.pending = s.pending
<1> DEFINE failures == Least(MaxFailures, s.failures + 1)
           delay == Least(MaxBackoff, BackoffBase * 2^(failures - 1))
<1>1. s.failures \in 0..MaxFailures
  BY DEF Snapshot
<1>2. failures \in 1..MaxFailures
  BY <1>1, BoundsAssumption DEF Least
<1>3. delay \in Int
  <2> HIDE DEF failures
  <2>1. 2^(failures - 1) \in Int
    BY <1>2, BoundsAssumption
  <2>2. BackoffBase * 2^(failures - 1) \in Int
    BY <2>1, DelaysAssumption
  <2>3. QED
    BY <2>2, DelaysAssumption DEF Least
<1>4. t + Greatest(delay, retryAfter) \in Int
  <2> HIDE DEF delay
  <2> QED BY <1>3 DEF Greatest
<1> DEFINE new == UpdateBackoff(s, failed, retryAfter, t)
<1>5. PICK n \in 0..MaxFailures, e \in OptTime :
        new = [s EXCEPT !.failures = n, !.nextEligibleAt = e]
  <2>1. CASE failed
    <3>1. new = [s EXCEPT !.failures = failures,
                          !.nextEligibleAt = t + Greatest(delay, retryAfter)]
      BY <2>1 DEF UpdateBackoff
    <3>2. failures \in 0..MaxFailures
      BY <1>2
    <3>3. t + Greatest(delay, retryAfter) \in OptTime
      BY <1>4 DEF OptTime
    <3> HIDE DEF failures, delay, new
    <3>4. QED
      BY <3>1, <3>2, <3>3
  <2>2. CASE ~failed
    <3>1. new = [s EXCEPT !.failures = 0, !.nextEligibleAt = None]
      BY <2>2 DEF UpdateBackoff
    <3>2. 0 \in 0..MaxFailures /\ None \in OptTime
      BY BoundsAssumption DEF OptTime
    <3> HIDE DEF new
    <3>3. QED
      BY <3>1, <3>2
  <2>3. QED
    BY <2>1, <2>2
<1>6. new \in Snapshot /\ new.watches = s.watches /\ new.pending = s.pending
  <2> HIDE DEF new
  <2> QED BY <1>5 DEF Snapshot
<1>7. QED
  BY <1>6

\* A retry delay is a number.
LEMMA RetryDelayType ==
    ASSUME NEW n \in Int
    PROVE  RetryDelay(n) \in Int
<1> DEFINE e == Greatest(0, n - 1)
<1>1. e \in Nat
  BY DEF Greatest
<1>2. 2^e \in Int
  <2> HIDE DEF e
  <2> QED BY <1>1
<1>3. RetryBase * 2^e \in Int
  <2> HIDE DEF e
  <2> QED BY <1>2, DelaysAssumption
<1>4. RetryDelay(n) = Least(MaxBackoff, RetryBase * 2^e)
  BY DEF RetryDelay
<1>5. QED
  <2> HIDE DEF e
  <2> QED BY <1>3, <1>4, DelaysAssumption DEF Least

\* Among instants after t there is an earliest one.
LEMMA EarliestExists ==
    ASSUME NEW t \in Int, NEW D \in SUBSET Int, D # {}, \A u \in D : u > t
    PROVE  \E u \in D : \A v \in D : u <= v
<1> DEFINE R == OpToRel(<, Nat)
           N == {m \in Nat : \E u \in D : m = u - t}
<1>1. IsWellFoundedOn(R, Nat)
  BY NatLessThanWellFounded
<1> HIDE DEF R
<1>2. N \subseteq Nat /\ N # {}
  <2>1. PICK u \in D : TRUE
    OBVIOUS
  <2>2. u - t \in N
    OBVIOUS
  <2>3. QED
    BY <2>2
<1>3. PICK n \in N : \A m \in N : ~(<<m, n>> \in R)
  <2> HIDE DEF N
  <2> QED BY <1>1, <1>2, WFMin
<1>4. \A m \in N : ~(m < n)
  BY <1>2, <1>3 DEF R, OpToRel
<1>5. PICK u \in D : n = u - t
  OBVIOUS
<1>6. \A v \in D : v - t \in N
  OBVIOUS
<1>7. QED
  <2> HIDE DEF N
  <2> QED BY <1>4, <1>5, <1>6

\* refreshSchedule gives alarms.
LEMMA RefreshScheduleType ==
    ASSUME NEW s \in Snapshot, NEW t \in Int
    PROVE  RefreshSchedule(s, t) \in Alarm
<1> DEFINE D == Deadlines(s, t)
<1>1. \A u \in D : u \in Int /\ u > t
  <2>1. \A p \in EventIds \X Channels :
            IsCurrentPendingChannel(s, p[1], p[2]) =>
                s.pending[p[1]].channels[p[2]].next \in OptTime
    BY DEF IsCurrentPendingChannel, Snapshot, Event, Copy
  <2>2. s.nextEligibleAt \in OptTime
    BY DEF Snapshot
  <2>3. QED
    BY <2>1, <2>2 DEF Deadlines, OptTime
<1> HIDE DEF D
<1>2. D # {} => (CHOOSE u \in D : \A v \in D : u <= v) \in Int
  BY <1>1, EarliestExists
<1>3. t + PollInterval \in OptTime
  BY DelaysAssumption DEF OptTime
<1>4. RefreshSchedule(s, t) =
        IF \E w \in Watches : s.watches[w] # None /\ s.watches[w].enabled
        THEN [periodic |-> t + PollInterval,
              oneShot  |-> IF D = {} THEN None
                           ELSE CHOOSE u \in D : \A v \in D : u <= v]
        ELSE NoAlarm
  BY DEF RefreshSchedule, D
<1>5. QED
  BY <1>2, <1>3, <1>4 DEF Alarm, NoAlarm, OptTime

\* Setting a copy's clock right never makes it pending again.
LEMMA NormalizedCopyType ==
    ASSUME NEW copy \in Copy, NEW observedAt \in Int, NEW recovered \in BOOLEAN,
           NEW t \in Int
    PROVE  LET new == NormalizedCopy(copy, observedAt, recovered, t) IN
           /\ new \in Copy
           /\ new.state = "pending" => copy.state = "pending"
<1> DEFINE late == copy.next # None /\ copy.next > observedAt + Retention
           new == NormalizedCopy(copy, observedAt, recovered, t)
<1>1. CASE late /\ recovered /\ copy.attempts = 0
  <2>1. new = [copy EXCEPT !.next = t]
    BY <1>1 DEF NormalizedCopy
  <2>2. QED
    BY <2>1 DEF Copy, OptTime
<1>2. CASE late /\ ~(recovered /\ copy.attempts = 0)
  <2>1. new = Closed(copy, "expired", t)
    BY <1>2 DEF NormalizedCopy
  <2>2. Closed(copy, "expired", t) \in Copy
    BY ClosedType DEF CopyState
  <2>3. Closed(copy, "expired", t).state # "pending"
    BY DEF Closed, Copy
  <2>4. QED
    BY <2>1, <2>2, <2>3
<1>3. CASE ~late
  <2>1. new = [copy EXCEPT !.doneAt = IF @ = None THEN None ELSE Least(@, t)]
    BY <1>3 DEF NormalizedCopy
  <2>2. (IF copy.doneAt = None THEN None ELSE Least(copy.doneAt, t)) \in OptTime
    BY DEF Copy, OptTime, Least
  <2>3. QED
    BY <2>1, <2>2 DEF Copy
<1>4. QED
  BY <1>1, <1>2, <1>3

\* Setting an event's clock right keeps its revision and revives no copy.
LEMMA NormalizedEventType ==
    ASSUME NEW event \in Event, NEW t \in Int
    PROVE  LET new == NormalizedEvent(event, t) IN
           /\ new \in Event
           /\ new.rev = event.rev
           /\ \A c \in Channels :
                new.channels[c] # None /\ new.channels[c].state = "pending" =>
                    event.channels[c] # None /\ event.channels[c].state = "pending"
<1> DEFINE keep == KeepsProviderDeadline(event, t)
           observedAt == IF keep THEN event.observedAt ELSE Least(event.observedAt, t)
           createdAt == IF keep THEN event.createdAt ELSE Least(event.createdAt, t)
           recovered == observedAt # event.observedAt \/ createdAt # event.createdAt
           channels == [c \in Channels |->
                IF event.channels[c] = None THEN None
                ELSE NormalizedCopy(event.channels[c], observedAt, recovered, t)]
           new == NormalizedEvent(event, t)
<1>1. /\ event.channels \in [Channels -> Copy \cup {None}]
      /\ event.observedAt \in Int /\ event.createdAt \in Int
  BY DEF Event
<1>2. observedAt \in Int /\ createdAt \in Int /\ recovered \in BOOLEAN
  BY <1>1 DEF Least
<1>3. /\ channels \in [Channels -> Copy \cup {None}]
      /\ \A c \in Channels :
            channels[c] # None /\ channels[c].state = "pending" =>
                event.channels[c] # None /\ event.channels[c].state = "pending"
  <2> HIDE DEF keep, observedAt, createdAt, recovered
  <2> QED BY <1>1, <1>2, NormalizedCopyType
<1>4. Greatest(createdAt, observedAt) \in Int
  <2> HIDE DEF createdAt, observedAt
  <2> QED BY <1>2 DEF Greatest
<1>5. new = [event EXCEPT !.observedAt = observedAt,
                          !.createdAt = Greatest(createdAt, observedAt),
                          !.channels = channels]
  BY DEF NormalizedEvent
<1>6. QED
  <2> HIDE DEF keep, observedAt, createdAt, recovered, channels
  <2> QED BY <1>2, <1>3, <1>4, <1>5 DEF Event

\* normalizePersistedClockSkew gives a snapshot with the same watches and adds no work.
LEMMA NormalizePersistedClockSkewKeeps ==
    ASSUME NEW s \in Snapshot, NEW t \in Int
    PROVE  LET new == NormalizePersistedClockSkew(s, t) IN
           /\ new \in Snapshot
           /\ new.watches = s.watches
           /\ NoNewWork(s, new)
<1> DEFINE new == NormalizePersistedClockSkew(s, t)
<1>1. /\ s.watches \in [Watches -> Watch \cup {None}]
      /\ s.items \in [Scopes -> Item \cup {None}]
      /\ s.delivery \in [Scopes -> Delivery]
      /\ s.pending \in [EventIds -> Event \cup {None}]
      /\ s.nextEligibleAt \in OptTime
      /\ s.failures \in 0..MaxFailures
  BY DEF Snapshot
<1>2. ASSUME NEW i \in Item PROVE NormalizedItem(i, t) \in Item
  <2> DEFINE checkedAt == IF i.checkedAt > t + FutureSkew THEN t - PollInterval
                          ELSE i.checkedAt
             successAt == IF i.successAt = None THEN None
                          ELSE IF i.successAt > t + FutureSkew THEN t
                          ELSE i.successAt
  <2>1. checkedAt \in Int /\ successAt \in OptTime
    BY DelaysAssumption DEF Item, OptTime
  <2>2. NormalizedItem(i, t) =
          [i EXCEPT !.checkedAt = checkedAt, !.successAt = successAt]
    BY DEF NormalizedItem
  <2>3. QED
    <3> HIDE DEF checkedAt, successAt
    <3> QED BY <2>1, <2>2 DEF Item
<1>3. ASSUME NEW d \in Delivery PROVE NormalizedDelivery(d, t) \in Delivery
  <2> DEFINE alertedAt == IF d.alertedAt = None THEN None
                          ELSE IF d.alertedAt > t + FutureSkew THEN t - Cooldown
                          ELSE d.alertedAt
             deferredAt == IF d.deferredAt = None THEN None
                           ELSE Least(d.deferredAt, t)
  <2>1. alertedAt \in OptTime /\ deferredAt \in OptTime
    BY DelaysAssumption DEF Delivery, OptTime, Least
  <2>2. d.deferredAt # None => deferredAt # None
    BY NoneAssumption DEF Delivery, OptTime, Least
  <2>3. NormalizedDelivery(d, t) =
          [d EXCEPT !.alertedAt = alertedAt, !.deferredAt = deferredAt]
    BY DEF NormalizedDelivery
  <2>4. QED
    <3> HIDE DEF alertedAt, deferredAt
    <3> QED BY <2>1, <2>2, <2>3 DEF Delivery
<1>4. /\ new.watches = s.watches
      /\ new.items = [x \in Scopes |->
            IF s.items[x] = None THEN None ELSE NormalizedItem(s.items[x], t)]
      /\ new.delivery = [x \in Scopes |-> NormalizedDelivery(s.delivery[x], t)]
      /\ new.pending = [id \in EventIds |->
            IF s.pending[id] = None THEN None
            ELSE NormalizedEvent(s.pending[id], t)]
      /\ new.nextEligibleAt \in {s.nextEligibleAt, None}
      /\ new.failures \in {s.failures, 0}
      /\ new = [watches |-> new.watches, items |-> new.items,
                delivery |-> new.delivery, pending |-> new.pending,
                nextEligibleAt |-> new.nextEligibleAt, failures |-> new.failures]
  BY DEF NormalizePersistedClockSkew
<1> HIDE DEF new
<1>5. new.items \in [Scopes -> Item \cup {None}]
  BY <1>1, <1>2, <1>4
<1>6. new.delivery \in [Scopes -> Delivery]
  BY <1>1, <1>3, <1>4
<1>7. new.pending \in [EventIds -> Event \cup {None}]
  BY <1>1, <1>4, NormalizedEventType
<1>8. new.nextEligibleAt \in OptTime /\ new.failures \in 0..MaxFailures
  BY <1>1, <1>4, BoundsAssumption DEF OptTime
<1>9. new \in Snapshot
  BY <1>1, <1>4, <1>5, <1>6, <1>7, <1>8 DEF Snapshot
<1>10. NoNewWork(s, new)
  <2> SUFFICES ASSUME NEW id \in EventIds, NEW c \in Channels,
                      IsPendingCopy(new, id, c)
               PROVE  /\ IsPendingCopy(s, id, c)
                      /\ new.pending[id].rev = s.pending[id].rev
    BY DEF NoNewWork
  <2>1. new.pending[id] # None
    BY DEF IsPendingCopy
  <2>2. s.pending[id] # None /\ new.pending[id] = NormalizedEvent(s.pending[id], t)
    BY <1>4, <2>1
  <2>3. s.pending[id] \in Event
    BY <1>1, <2>2
  <2>4. QED
    BY <2>2, <2>3, NormalizedEventType DEF IsPendingCopy
<1>11. QED
  BY <1>4, <1>9, <1>10 DEF new

-------------------------------------------------------------------------------
(* The record of attempts and verdicts *)

\* A copy with a verdict waits for nothing.
Rests(copy) == copy.state # "pending" => copy.next = None

\* A copy gains attempts and gets its verdict, and loses neither.
CopyAdvances(copy, new) ==
    Rests(copy) => /\ Rests(new)
                   /\ new.attempts >= copy.attempts
                   /\ copy.state # "pending" => new.state = copy.state

EventAdvances(event, new) ==
    \A c \in Channels :
        /\ new.channels[c] = None <=> event.channels[c] = None
        /\ event.channels[c] # None => CopyAdvances(event.channels[c], new.channels[c])

\* From s to new events may go, and the copies of those that stay advance.
Advances(s, new) ==
    \A id \in EventIds : new.pending[id] # None =>
        s.pending[id] # None /\ EventAdvances(s.pending[id], new.pending[id])

EventRests(event) ==
    \A c \in Channels : event.channels[c] # None => Rests(event.channels[c])

\* ... and new events may come, with serial numbers after `numbers` up to `later`.
AdvancesWith(s, new, numbers, later) ==
    \A id \in EventIds : new.pending[id] # None =>
        \/ s.pending[id] # None /\ EventAdvances(s.pending[id], new.pending[id])
        \/ /\ numbers[id[1]] < id[2] /\ id[2] <= later[id[1]]
           /\ EventRests(new.pending[id])

\* An event that does not change advances.
LEMMA SameEventAdvances ==
    ASSUME NEW event \in Event
    PROVE  EventAdvances(event, event)
<1>1. event.channels \in [Channels -> Copy \cup {None}]
  BY DEF Event
<1>2. \A copy \in Copy : copy.attempts \in Int
  BY BoundsAssumption DEF Copy
<1>3. QED
  BY <1>1, <1>2 DEF EventAdvances, CopyAdvances

\* A step that leaves the ledger alone advances it.
LEMMA SamePendingAdvances ==
    ASSUME NEW s \in Snapshot, NEW new, new.pending = s.pending
    PROVE  Advances(s, new)
BY SameEventAdvances DEF Advances, Snapshot

\* Advances of an event compose.
LEMMA EventAdvancesIsTransitive ==
    ASSUME NEW e \in Event, NEW f \in Event, NEW g \in Event,
           EventAdvances(e, f), EventAdvances(f, g)
    PROVE  EventAdvances(e, g)
<1>1. /\ e.channels \in [Channels -> Copy \cup {None}]
      /\ f.channels \in [Channels -> Copy \cup {None}]
      /\ g.channels \in [Channels -> Copy \cup {None}]
  BY DEF Event
<1>2. \A copy \in Copy : copy.attempts \in Int
  BY BoundsAssumption DEF Copy
<1>3. QED
  BY <1>1, <1>2 DEF EventAdvances, CopyAdvances

\* An advance adds no event.
LEMMA AdvancesIsAdvancesWith ==
    ASSUME NEW s \in Snapshot, NEW new \in Snapshot, NEW numbers, NEW later,
           Advances(s, new)
    PROVE  AdvancesWith(s, new, numbers, later)
BY DEF Advances, AdvancesWith

\* Advances of a ledger compose.
LEMMA AdvancesIsTransitive ==
    ASSUME NEW s \in Snapshot, NEW t \in Snapshot, NEW u \in Snapshot,
           Advances(s, t), Advances(t, u)
    PROVE  Advances(s, u)
BY EventAdvancesIsTransitive DEF Advances, Snapshot

\* ... also when they add events, if the serial numbers only grow.
LEMMA AdvancesWithIsTransitive ==
    ASSUME NEW s \in Snapshot, NEW t \in Snapshot, NEW u \in Snapshot,
           NEW n1 \in [Scopes -> Nat], NEW n2 \in [Scopes -> Nat],
           NEW n3 \in [Scopes -> Nat],
           \A x \in Scopes : n1[x] <= n2[x] /\ n2[x] <= n3[x],
           AdvancesWith(s, t, n1, n2), AdvancesWith(t, u, n2, n3)
    PROVE  AdvancesWith(s, u, n1, n3)
<1> SUFFICES ASSUME NEW id \in EventIds, u.pending[id] # None
             PROVE  \/ s.pending[id] # None
                       /\ EventAdvances(s.pending[id], u.pending[id])
                    \/ /\ n1[id[1]] < id[2] /\ id[2] <= n3[id[1]]
                       /\ EventRests(u.pending[id])
  BY DEF AdvancesWith
<1>1. /\ id[1] \in Scopes /\ id[2] \in Int
      /\ n1[id[1]] \in Nat /\ n2[id[1]] \in Nat /\ n3[id[1]] \in Nat
      /\ n1[id[1]] <= n2[id[1]] /\ n2[id[1]] <= n3[id[1]]
  BY BoundsAssumption DEF EventIds
<1>2. /\ s.pending[id] \in Event \cup {None}
      /\ t.pending[id] \in Event \cup {None}
      /\ u.pending[id] \in Event
  BY DEF Snapshot
<1>3. CASE /\ n2[id[1]] < id[2] /\ id[2] <= n3[id[1]]
           /\ EventRests(u.pending[id])
  BY <1>1, <1>3
<1>4. CASE t.pending[id] # None /\ EventAdvances(t.pending[id], u.pending[id])
  <2>1. CASE s.pending[id] # None /\ EventAdvances(s.pending[id], t.pending[id])
    BY <1>2, <1>4, <2>1, EventAdvancesIsTransitive
  <2>2. CASE /\ n1[id[1]] < id[2] /\ id[2] <= n2[id[1]]
             /\ EventRests(t.pending[id])
    <3>1. EventRests(u.pending[id])
      BY <1>4, <2>2 DEF EventRests, EventAdvances, CopyAdvances
    <3>2. n1[id[1]] < id[2] /\ id[2] <= n3[id[1]]
      BY <1>1, <2>2
    <3>3. QED
      BY <3>1, <3>2
  <2>3. QED
    BY <1>4, <2>1, <2>2 DEF AdvancesWith
<1>5. QED
  BY <1>3, <1>4 DEF AdvancesWith

\* Giving a pending copy a verdict advances it.
LEMMA ClosedAdvances ==
    ASSUME NEW copy \in Copy, copy.state = "pending", NEW state, NEW t
    PROVE  CopyAdvances(copy, Closed(copy, state, t))
<1>1. copy.attempts \in Int
  BY BoundsAssumption DEF Copy
<1>2. DOMAIN copy = {"state", "attempts", "next", "doneAt"}
  BY DEF Copy
<1>3. Closed(copy, state, t).attempts = copy.attempts
      /\ Closed(copy, state, t).next = None
  BY <1>2 DEF Closed
<1>4. QED
  BY <1>1, <1>3 DEF CopyAdvances, Rests

\* closeEvent advances the event.
LEMMA CloseEventAdvances ==
    ASSUME NEW event \in Event, NEW t \in Int,
           NEW verdict \in [Channels -> CopyState]
    PROVE  EventAdvances(event, CloseEvent(event, verdict, t))
<1> DEFINE new == CloseEvent(event, verdict, t)
<1> SUFFICES ASSUME NEW c \in Channels
             PROVE  /\ new.channels[c] = None <=> event.channels[c] = None
                    /\ event.channels[c] # None
                       => CopyAdvances(event.channels[c], new.channels[c])
  BY DEF EventAdvances
<1> DEFINE copy == event.channels[c]
<1>1. copy \in Copy \cup {None}
  BY DEF Event
<1>2. new.channels[c] = IF copy = None THEN None
                        ELSE IF copy.state = "pending" /\ verdict[c] # "pending"
                             THEN Closed(copy, verdict[c], t)
                             ELSE copy
  <2>1. DOMAIN event = {"rev", "observedAt", "createdAt", "channels"}
    BY DEF Event
  <2>2. QED
    BY <2>1 DEF CloseEvent
<1>3. copy # None => new.channels[c] # None
  <2> HIDE DEF new
  <2> QED BY <1>1, <1>2, ClosedType, NoneIsNoRecord
<1>4. CASE copy # None /\ copy.state = "pending" /\ verdict[c] # "pending"
  BY <1>1, <1>2, <1>3, <1>4, ClosedAdvances
<1>5. CASE copy # None /\ ~(copy.state = "pending" /\ verdict[c] # "pending")
  <2>1. copy.attempts \in Int
    BY <1>1, <1>5, BoundsAssumption DEF Copy
  <2> HIDE DEF copy, new
  <2>2. new.channels[c] = copy
    BY <1>2, <1>5
  <2>3. QED
    BY <1>5, <2>1, <2>2 DEF CopyAdvances, copy
<1>6. CASE copy = None
  BY <1>2, <1>6
<1>7. QED
  BY <1>4, <1>5, <1>6

\* CloseCopies advances the ledger.
LEMMA CloseCopiesAdvances ==
    ASSUME NEW s \in Snapshot, NEW t \in Int,
           NEW verdict \in [EventIds -> [Channels -> CopyState]]
    PROVE  Advances(s, CloseCopies(s, verdict, t))
<1> DEFINE new == CloseCopies(s, verdict, t)
<1>1. ASSUME NEW id \in EventIds, new.pending[id] # None
      PROVE  s.pending[id] # None /\ EventAdvances(s.pending[id], new.pending[id])
  <2>1. DOMAIN s = {"watches", "items", "delivery", "pending", "nextEligibleAt",
                    "failures"}
    BY DEF Snapshot
  <2>2. new.pending[id] = IF s.pending[id] = None THEN None
                          ELSE CloseEvent(s.pending[id], verdict[id], t)
    BY <2>1 DEF CloseCopies
  <2>3. s.pending[id] \in Event \cup {None} /\ verdict[id] \in [Channels -> CopyState]
    BY DEF Snapshot
  <2> HIDE DEF new
  <2>4. QED
    BY <1>1, <2>2, <2>3, CloseEventAdvances
<1>2. QED
  <2> HIDE DEF new
  <2>1. Advances(s, new)
    BY <1>1 DEF Advances
  <2>2. QED
    BY <2>1 DEF new

\* reconcileDurableDelivery advances the ledger.
LEMMA ReconcileDurableDeliveryAdvances ==
    ASSUME NEW s \in Snapshot, NEW t \in Int
    PROVE  Advances(s, ReconcileDurableDelivery(s, t))
<1> DEFINE verdict == [id \in EventIds |-> [c \in Channels |->
            LET watch == s.watches[id[1][1]]
                event == s.pending[id]
            IN  IF watch = None THEN "revoked"
                ELSE IF watch.rev # event.rev THEN "superseded"
                ELSE IF c \notin watch.channels THEN "revoked"
                ELSE IF IsExpired(event, t) THEN "expired"
                ELSE "pending"]]
<1>1. verdict \in [EventIds -> [Channels -> CopyState]]
  BY DEF CopyState
<1>2. ReconcileDurableDelivery(s, t) = CloseCopies(s, verdict, t)
  BY DEF ReconcileDurableDelivery
<1>3. QED
  <2> HIDE DEF verdict
  <2> QED BY <1>1, <1>2, CloseCopiesAdvances

\* ... and so does reconcileRetiredCatalogState.
LEMMA ReconcileRetiredCatalogStateAdvances ==
    ASSUME NEW s \in Snapshot, NEW t \in Int, NEW catalog
    PROVE  Advances(s, ReconcileRetiredCatalogState(s, catalog, t))
<1> DEFINE new == ReconcileRetiredCatalogState(s, catalog, t)
<1>1. ASSUME NEW id \in EventIds, new.pending[id] # None
      PROVE  s.pending[id] # None /\ EventAdvances(s.pending[id], new.pending[id])
  <2> DEFINE verdict == [c \in Channels |->
                IF id[1][1] \in RetiredWatches(s, catalog) THEN "superseded"
                ELSE "pending"]
  <2>1. DOMAIN s = {"watches", "items", "delivery", "pending", "nextEligibleAt",
                    "failures"}
    BY DEF Snapshot
  <2>2. new.pending[id] = IF s.pending[id] = None THEN None
                          ELSE CloseEvent(s.pending[id], verdict, t)
    BY <2>1 DEF ReconcileRetiredCatalogState, CloseCopies
  <2>3. s.pending[id] \in Event \cup {None} /\ verdict \in [Channels -> CopyState]
    BY DEF Snapshot, CopyState
  <2> HIDE DEF new, verdict
  <2>4. QED
    BY <1>1, <2>2, <2>3, CloseEventAdvances
<1>2. QED
  <2> HIDE DEF new
  <2>1. Advances(s, new)
    BY <1>1 DEF Advances
  <2>2. QED
    BY <2>1 DEF new

\* pruneForWatchRevision advances what it keeps.
LEMMA PruneForWatchRevisionAdvances ==
    ASSUME NEW s \in Snapshot, NEW t \in Int, NEW ws
    PROVE  Advances(s, PruneForWatchRevision(s, ws, t))
<1> DEFINE kept(x) == x[1] \notin ws \/ InScope(s, x)
           marked == CloseStaleMarkers(DropScopes(s, ws), ws)
           new == PruneForWatchRevision(s, ws, t)
<1>1. DOMAIN s = {"watches", "items", "delivery", "pending", "nextEligibleAt",
                  "failures"}
  BY DEF Snapshot
<1>2. /\ DOMAIN marked = DOMAIN s
      /\ \A id \in EventIds :
            marked.pending[id] = IF kept(id[1]) THEN s.pending[id] ELSE None
  BY <1>1 DEF CloseStaleMarkers, DropScopes
<1>3. ASSUME NEW id \in EventIds, new.pending[id] # None
      PROVE  s.pending[id] # None /\ EventAdvances(s.pending[id], new.pending[id])
  <2> DEFINE verdict == [c \in Channels |->
            IF id[1][1] \notin ws \/ marked.pending[id] = None THEN "pending"
            ELSE IF c \notin marked.watches[id[1][1]].channels THEN "revoked"
            ELSE IF marked.pending[id].rev # marked.watches[id[1][1]].rev
            THEN "superseded"
            ELSE "pending"]
  <2> HIDE DEF marked
  <2>1. new.pending[id] = IF marked.pending[id] = None THEN None
                          ELSE CloseEvent(marked.pending[id], verdict, t)
    BY <1>1, <1>2 DEF PruneForWatchRevision, CloseStaleCopies, CloseCopies, marked
  <2>2. s.pending[id] \in Event \cup {None} /\ verdict \in [Channels -> CopyState]
    BY DEF Snapshot, CopyState
  <2> HIDE DEF new, verdict, kept
  <2>3. QED
    BY <1>2, <1>3, <2>1, <2>2, CloseEventAdvances
<1>4. QED
  <2> HIDE DEF new
  <2>1. Advances(s, new)
    BY <1>3 DEF Advances
  <2>2. QED
    BY <2>1 DEF new

\* deleteWatch advances the ledger: it only forgets.
LEMMA WithoutWatchAdvances ==
    ASSUME NEW s \in Snapshot, NEW w \in Watches
    PROVE  Advances(s, WithoutWatch(s, w))
<1> DEFINE new == WithoutWatch(s, w)
<1>1. \A id \in EventIds :
        new.pending[id] = IF id[1][1] = w THEN None ELSE s.pending[id]
  BY WithoutWatchKeeps
<1>2. \A id \in EventIds : s.pending[id] \in Event \cup {None}
  BY DEF Snapshot
<1>3. Advances(s, new)
  <2> HIDE DEF new
  <2> QED BY <1>1, <1>2, SameEventAdvances DEF Advances
<1>4. QED
  BY <1>3 DEF new

\* The copies of a new event wait for their first attempt.
LEMMA NewEventRests ==
    ASSUME NEW watch, NEW observedAt, NEW t
    PROVE  EventRests(NewEvent(watch, observedAt, t))
<1> DEFINE fresh == [state |-> "pending", attempts |-> 0, next |-> t, doneAt |-> None]
           new == NewEvent(watch, observedAt, t)
<1>1. fresh.state = "pending"
  OBVIOUS
<1>2. \A c \in Channels : new.channels[c] = IF c \in watch.channels THEN fresh ELSE None
  BY DEF NewEvent
<1>3. EventRests(new)
  <2> HIDE DEF fresh, new
  <2> QED BY <1>1, <1>2 DEF EventRests, Rests
<1>4. QED
  BY <1>3 DEF new

\* Queueing alerts gives each its scope's next serial number.
LEMMA AdmitAdvances ==
    ASSUME NEW s \in Snapshot, NEW t \in Int, NEW a,
           NEW serial \in [Scopes -> Nat], NEW seen
    PROVE  AdvancesWith(s, Admit(s, a, serial, seen, t), serial, NextSerial(serial, a))
<1> DEFINE new == Admit(s, a, serial, seen, t)
<1>1. DOMAIN s = {"watches", "items", "delivery", "pending", "nextEligibleAt",
                  "failures"}
  BY DEF Snapshot
<1>2. ASSUME NEW id \in EventIds, new.pending[id] # None
      PROVE  \/ s.pending[id] # None /\ EventAdvances(s.pending[id], new.pending[id])
             \/ /\ serial[id[1]] < id[2] /\ id[2] <= NextSerial(serial, a)[id[1]]
                /\ EventRests(new.pending[id])
  <2> DEFINE event == NewEvent(s.watches[id[1][1]], seen[id[1]], t)
  <2>1. new.pending[id] =
            IF id \in a.evicted THEN None
            ELSE IF id[1] \in a.queued /\ id[2] = serial[id[1]] + 1
            THEN event
            ELSE s.pending[id]
    BY <1>1 DEF Admit
  <2>2. s.pending[id] \in Event \cup {None}
    BY DEF Snapshot
  <2>3. id[1] \in Scopes /\ serial[id[1]] \in Nat /\ EventRests(event)
    BY NewEventRests DEF EventIds
  <2> HIDE DEF new, event
  <2>4. CASE id[1] \in a.queued /\ id[2] = serial[id[1]] + 1
    <3>1. new.pending[id] = event
      BY <1>2, <2>1, <2>4
    <3>2. serial[id[1]] < id[2]
      BY <2>3, <2>4
    <3>3. NextSerial(serial, a)[id[1]] = serial[id[1]] + 1
      BY <2>3, <2>4 DEF NextSerial
    <3>4. id[2] <= NextSerial(serial, a)[id[1]]
      BY <2>3, <2>4, <3>3
    <3>5. QED
      BY <2>3, <3>1, <3>2, <3>4
  <2>5. CASE ~(id[1] \in a.queued /\ id[2] = serial[id[1]] + 1)
    <3>1. new.pending[id] = s.pending[id]
      BY <1>2, <2>1, <2>5
    <3>2. QED
      BY <1>2, <2>2, <3>1, SameEventAdvances
  <2>6. QED
    BY <2>4, <2>5
<1>3. AdvancesWith(s, new, serial, NextSerial(serial, a))
  <2> HIDE DEF new
  <2> QED BY <1>2 DEF AdvancesWith
<1>4. QED
  BY <1>3 DEF new

\* A step after another that left the ledger alone.
LEMMA AdvancesFromSamePending ==
    ASSUME NEW s, NEW same, same.pending = s.pending, NEW new, NEW numbers, NEW later,
           AdvancesWith(same, new, numbers, later)
    PROVE  AdvancesWith(s, new, numbers, later)
BY DEF AdvancesWith

\* ... or before one.
LEMMA AdvancesToSamePending ==
    ASSUME NEW s, NEW same, NEW new, new.pending = same.pending, NEW numbers, NEW later,
           AdvancesWith(s, same, numbers, later)
    PROVE  AdvancesWith(s, new, numbers, later)
BY DEF AdvancesWith

\* recordObservation adds events, and changes no copy.
LEMMA RecordObservationAdvances ==
    ASSUME NEW s \in Snapshot, NEW t \in Int, NEW obs, NEW a,
           NEW serial \in [Scopes -> Nat], NEW catalog,
           DOMAIN obs \subseteq Scopes, \A x \in DOMAIN obs : obs[x] \in Status
    PROVE  AdvancesWith(s, RecordObservation(s, obs, a, serial, t, catalog),
                        serial, NextSerial(serial, a))
<1> DEFINE items == RecordItems(s, obs, t)
           seen == [x \in Scopes |-> t]
           admitted == Admit(items, a, serial, seen, t)
           new == RecordObservation(s, obs, a, serial, t, catalog)
<1>1. items \in Snapshot /\ items.pending = s.pending
  BY RecordItemsKeeps
<1>2. AdvancesWith(items, admitted, serial, NextSerial(serial, a))
  <2> HIDE DEF items, seen
  <2> QED BY <1>1, AdmitAdvances
<1>3. new.pending = admitted.pending
  <2>1. DOMAIN items = {"watches", "items", "delivery", "pending", "nextEligibleAt",
                        "failures"}
    <3> HIDE DEF items
    <3> QED BY <1>1 DEF Snapshot
  <2>2. DOMAIN admitted = DOMAIN items
    <3> HIDE DEF items
    <3> QED BY DEF Admit
  <2>3. new = Defer(admitted, Alerting(s, obs, t, catalog) \ a.queued, t)
    BY DEF RecordObservation
  <2> HIDE DEF items, admitted, new
  <2>4. QED
    BY <2>1, <2>2, <2>3 DEF Defer
<1>4. AdvancesWith(s, new, serial, NextSerial(serial, a))
  <2> HIDE DEF items, admitted, new
  <2> QED BY <1>1, <1>2, <1>3, AdvancesFromSamePending, AdvancesToSamePending
<1>5. QED
  BY <1>4 DEF new

\* promoteDeferredAvailability adds events, and changes no copy.
LEMMA PromoteDeferredAvailabilityAdvances ==
    ASSUME NEW s \in Snapshot, NEW t \in Int, NEW a,
           NEW serial \in [Scopes -> Nat], NEW catalog
    PROVE  AdvancesWith(s, PromoteDeferredAvailability(s, a, serial, t, catalog),
                        serial, NextSerial(serial, a))
<1> DEFINE closed == CloseMarkers(s, t, catalog)
           seen == [x \in Scopes |-> closed.delivery[x].deferredAt]
           new == Admit(closed, a, serial, seen, t)
<1>1. closed \in Snapshot /\ closed.pending = s.pending
  BY CloseMarkersKeeps
<1>2. AdvancesWith(closed, new, serial, NextSerial(serial, a))
  <2> HIDE DEF closed, seen
  <2> QED BY <1>1, AdmitAdvances
<1>3. AdvancesWith(s, new, serial, NextSerial(serial, a))
  <2> HIDE DEF closed, new
  <2> QED BY <1>1, <1>2, AdvancesFromSamePending
<1>4. QED
  BY <1>3 DEF PromoteDeferredAvailability

\* Setting a copy's clock right advances it.
LEMMA NormalizedCopyAdvances ==
    ASSUME NEW copy \in Copy, NEW observedAt \in Int, NEW recovered \in BOOLEAN,
           NEW t \in Int
    PROVE  CopyAdvances(copy, NormalizedCopy(copy, observedAt, recovered, t))
<1> DEFINE late == copy.next # None /\ copy.next > observedAt + Retention
           new == NormalizedCopy(copy, observedAt, recovered, t)
<1>1. /\ DOMAIN copy = {"state", "attempts", "next", "doneAt"}
      /\ copy.attempts \in Int
  BY BoundsAssumption DEF Copy
<1> SUFFICES ASSUME Rests(copy)
             PROVE  /\ Rests(new)
                    /\ new.attempts >= copy.attempts
                    /\ copy.state # "pending" => new.state = copy.state
  BY DEF CopyAdvances
<1>2. late => copy.state = "pending"
  BY DEF Rests
<1>3. CASE late /\ recovered /\ copy.attempts = 0
  <2>1. new = [copy EXCEPT !.next = t]
    BY <1>3 DEF NormalizedCopy
  <2> HIDE DEF new, late
  <2>2. QED
    BY <1>1, <1>2, <1>3, <2>1 DEF Rests
<1>4. CASE late /\ ~(recovered /\ copy.attempts = 0)
  <2>1. new = Closed(copy, "expired", t)
    BY <1>4 DEF NormalizedCopy
  <2> HIDE DEF new, late
  <2>2. QED
    BY <1>1, <1>2, <1>4, <2>1 DEF Rests, Closed
<1>5. CASE ~late
  <2>1. new = [copy EXCEPT !.doneAt = IF @ = None THEN None ELSE Least(@, t)]
    BY <1>5 DEF NormalizedCopy
  <2> HIDE DEF new, late
  <2>2. new.state = copy.state /\ new.attempts = copy.attempts /\ new.next = copy.next
    BY <1>1, <2>1
  <2>3. QED
    BY <1>1, <2>2 DEF Rests
<1>6. QED
  BY <1>3, <1>4, <1>5

\* Setting an event's clock right advances it.
LEMMA NormalizedEventAdvances ==
    ASSUME NEW event \in Event, NEW t \in Int
    PROVE  EventAdvances(event, NormalizedEvent(event, t))
<1> DEFINE keep == KeepsProviderDeadline(event, t)
           observedAt == IF keep THEN event.observedAt ELSE Least(event.observedAt, t)
           createdAt == IF keep THEN event.createdAt ELSE Least(event.createdAt, t)
           recovered == observedAt # event.observedAt \/ createdAt # event.createdAt
           new == NormalizedEvent(event, t)
<1>1. /\ event.channels \in [Channels -> Copy \cup {None}]
      /\ event.observedAt \in Int /\ event.createdAt \in Int
      /\ DOMAIN event = {"rev", "observedAt", "createdAt", "channels"}
  BY DEF Event
<1>2. observedAt \in Int /\ recovered \in BOOLEAN
  BY <1>1 DEF Least
<1>3. \A c \in Channels : new.channels[c] =
            IF event.channels[c] = None THEN None
            ELSE NormalizedCopy(event.channels[c], observedAt, recovered, t)
  BY <1>1 DEF NormalizedEvent
<1>4. EventAdvances(event, new)
  <2> HIDE DEF keep, observedAt, createdAt, recovered, new
  <2>1. ASSUME NEW c \in Channels, event.channels[c] # None
        PROVE  /\ new.channels[c] # None
               /\ CopyAdvances(event.channels[c], new.channels[c])
    BY <1>1, <1>2, <1>3, <2>1, NormalizedCopyType, NormalizedCopyAdvances, NoneIsNoRecord
  <2>2. QED
    BY <1>3, <2>1 DEF EventAdvances
<1>5. QED
  BY <1>4 DEF new

\* normalizePersistedClockSkew advances the ledger.
LEMMA NormalizePersistedClockSkewAdvances ==
    ASSUME NEW s \in Snapshot, NEW t \in Int
    PROVE  Advances(s, NormalizePersistedClockSkew(s, t))
<1> DEFINE new == NormalizePersistedClockSkew(s, t)
<1>1. \A id \in EventIds :
        /\ new.pending[id] = IF s.pending[id] = None THEN None
                             ELSE NormalizedEvent(s.pending[id], t)
        /\ s.pending[id] \in Event \cup {None}
  BY DEF NormalizePersistedClockSkew, Snapshot
<1>2. Advances(s, new)
  <2> HIDE DEF new
  <2> QED BY <1>1, NormalizedEventAdvances DEF Advances
<1>3. QED
  BY <1>2 DEF new

-------------------------------------------------------------------------------
(* What storage accepts *)

(***************************************************************************)
(* A snapshot fits if storage accepts it and its deferred alerts are for   *)
(* the present revision of a watch that still asks for them.  The items,   *)
(* markers and events each fit their watch, and the ledger has its size.   *)
(***************************************************************************)

\* An availability item is of a watch's scope and agrees with itself.
ItemFits(s, x, item) == item # None => InScope(s, x) /\ ItemConsistent(item)

\* So is a delivery marker, and an alert it defers is one the watch asks for now.
MarkerFits(s, x, item, delivery) ==
    /\ delivery # NoDelivery => InScope(s, x)
    /\ DeliveryConsistent(delivery)
    /\ delivery.deferred = "pending" =>
        /\ InScope(s, x)
        /\ s.watches[x[1]].enabled
        /\ s.watches[x[1]].channels # {}
        /\ s.watches[x[1]].rev = delivery.deferredRev
        /\ item # None
        /\ item.known = "available"

\* Every scope's item and marker fit.
ScopesFit(s) ==
    \A x \in Scopes : /\ ItemFits(s, x, s.items[x])
                      /\ MarkerFits(s, x, s.items[x], s.delivery[x])

\* An event of the ledger is of a watch's scope, and its verdicts are consistent.
EventFits(s, id, event) ==
    event # None => InScope(s, id[1]) /\ EventConsistent(event) /\ EventRests(event)

\* Every event fits, and the ledger has its size.
LedgerFits(s) ==
    /\ \A id \in EventIds : EventFits(s, id, s.pending[id])
    /\ Cardinality(Ledger(s)) <= MaxPending

\* The whole snapshot fits.
Fits(s) == ScopesFit(s) /\ LedgerFits(s)

\* Storage accepts what fits.
LEMMA FittingIsSaveable ==
    ASSUME NEW s, Fits(s)
    PROVE  Saveable(s)
BY DEF Fits, ScopesFit, LedgerFits, ItemFits, MarkerFits, EventFits, Saveable, Ledger

\* What fits, fits whatever has the same watches.
LEMMA SameWatchesFit ==
    ASSUME NEW s, NEW new, new.watches = s.watches
    PROVE  /\ \A x : InScope(new, x) <=> InScope(s, x)
           /\ \A x, item : ItemFits(new, x, item) <=> ItemFits(s, x, item)
           /\ \A x, item, d : MarkerFits(new, x, item, d) <=> MarkerFits(s, x, item, d)
           /\ \A id, event : EventFits(new, id, event) <=> EventFits(s, id, event)
<1>1. \A x : InScope(new, x) <=> InScope(s, x)
  BY DEF InScope
<1>2. QED
  BY <1>1 DEF ItemFits, MarkerFits, EventFits

\* The ledger is finite.
LEMMA LedgerIsFinite ==
    ASSUME NEW s
    PROVE  IsFiniteSet(Ledger(s)) /\ Cardinality(Ledger(s)) \in Nat
<1>1. IsFiniteSet(1..MaxAlerts)
  BY BoundsAssumption, FS_Interval
<1>2. IsFiniteSet(EventIds)
  BY <1>1, ScopesAssumption, FS_Product DEF EventIds
<1>3. IsFiniteSet(Ledger(s))
  BY <1>2, FS_Subset DEF Ledger
<1>4. QED
  BY <1>3, FS_CardinalityType

\* A ledger that keeps or drops events, or changes them in a way that fits, fits.
LEMMA LedgerStillFits ==
    ASSUME NEW s, NEW new, LedgerFits(s),
           \A id \in EventIds : new.pending[id] # None =>
                s.pending[id] # None /\ EventFits(new, id, new.pending[id])
    PROVE  LedgerFits(new)
<1>1. Ledger(new) \subseteq Ledger(s)
  BY DEF Ledger
<1>2. Cardinality(Ledger(new)) <= Cardinality(Ledger(s))
  BY <1>1, LedgerIsFinite, FS_Subset
<1>3. Cardinality(Ledger(new)) <= MaxPending
  BY <1>2, LedgerIsFinite, BoundsAssumption DEF LedgerFits
<1>4. QED
  BY <1>3 DEF LedgerFits, EventFits

\* A ledger that is left alone, with its watches, fits.
LEMMA SameLedgerFits ==
    ASSUME NEW s, NEW new, LedgerFits(s),
           new.watches = s.watches, new.pending = s.pending
    PROVE  LedgerFits(new)
BY SameWatchesFit, LedgerStillFits DEF LedgerFits

\* Items and markers that are left alone, with their watches, fit.
LEMMA SameScopesFit ==
    ASSUME NEW s, NEW new, ScopesFit(s),
           new.watches = s.watches, new.items = s.items, new.delivery = s.delivery
    PROVE  ScopesFit(new)
BY SameWatchesFit DEF ScopesFit

\* A marker that has been closed fits a scope of its watch, whatever the item.
LEMMA ClosedMarkerFits ==
    ASSUME NEW s, NEW x, InScope(s, x), NEW d \in Delivery,
           NEW state \in MarkerState \ {"pending"}, NEW item
    PROVE  MarkerFits(s, x, item, ClearDeferredAvailability(d, state))
<1> DEFINE new == ClearDeferredAvailability(d, state)
<1>1. /\ new.deferred = state /\ new.deferredAt = None /\ new.deferredRev = None
      /\ state # "pending"
  <2>1. DOMAIN d = {"alertedAt", "deferred", "deferredAt", "deferredRev"}
    BY DEF Delivery
  <2>2. QED
    BY <2>1 DEF ClearDeferredAvailability
<1>2. MarkerFits(s, x, item, new)
  <2> HIDE DEF new
  <2> QED BY <1>1 DEF MarkerFits, DeliveryConsistent
<1>3. QED
  BY <1>2 DEF new

\* ... as it did before it was closed.
LEMMA ClearedFits ==
    ASSUME NEW s, NEW x, NEW item, NEW d \in Delivery, MarkerFits(s, x, item, d),
           d.deferred = "pending", NEW state \in MarkerState \ {"pending"}, NEW other
    PROVE  MarkerFits(s, x, other, ClearDeferredAvailability(d, state))
<1>1. InScope(s, x)
  BY DEF MarkerFits
<1>2. QED
  BY <1>1, ClosedMarkerFits

\* A marker goes on to fit when its item changes and stays known as it was.
LEMMA MarkerFitsItem ==
    ASSUME NEW s, NEW x, NEW item, NEW other, NEW d, MarkerFits(s, x, item, d),
           item # None => other # None /\ other.known = item.known
    PROVE  MarkerFits(s, x, other, d)
BY DEF MarkerFits

\* Closing copies of an event leaves it fit.
LEMMA CloseEventFits ==
    ASSUME NEW s, NEW id, NEW event \in Event, EventFits(s, id, event), NEW t \in Int,
           NEW verdict \in [Channels -> CopyState]
    PROVE  EventFits(s, id, CloseEvent(event, verdict, t))
<1> DEFINE new == CloseEvent(event, verdict, t)
<1>1. event # None /\ new \in Event /\ new # None
  BY CloseEventType, NoneIsNoRecord
<1>2. /\ new.createdAt = event.createdAt /\ new.observedAt = event.observedAt
      /\ \A c \in Channels : new.channels[c] =
            IF event.channels[c] = None THEN None
            ELSE IF event.channels[c].state = "pending" /\ verdict[c] # "pending"
                 THEN Closed(event.channels[c], verdict[c], t)
                 ELSE event.channels[c]
  <2>1. DOMAIN event = {"rev", "observedAt", "createdAt", "channels"}
    BY DEF Event
  <2>2. QED
    BY <2>1 DEF CloseEvent
<1>3. \A c \in Channels : event.channels[c] \in Copy \cup {None}
  BY DEF Event
<1>4. ASSUME NEW c \in Channels, event.channels[c] # None
      PROVE  /\ new.channels[c] # None
             /\ new.channels[c].state = "pending" <=> new.channels[c].doneAt = None
             /\ Rests(new.channels[c])
  <2>1. /\ event.channels[c].state = "pending" <=> event.channels[c].doneAt = None
        /\ Rests(event.channels[c])
    BY <1>1, <1>4 DEF EventFits, EventConsistent, EventRests
  <2>2. CASE new.channels[c] = event.channels[c]
    BY <1>4, <2>1, <2>2
  <2>3. CASE verdict[c] # "pending" /\ new.channels[c] = Closed(event.channels[c], verdict[c], t)
    <3> DEFINE copy == event.channels[c]
    <3>1. copy \in Copy /\ verdict[c] \in CopyState
      BY <1>3, <1>4
    <3>2. DOMAIN copy = {"state", "attempts", "next", "doneAt"}
      BY <3>1 DEF Copy
    <3> HIDE DEF copy
    <3>3. /\ Closed(copy, verdict[c], t).state = verdict[c]
          /\ Closed(copy, verdict[c], t).doneAt = t
          /\ Closed(copy, verdict[c], t).next = None
      BY <3>2 DEF Closed
    <3>4. new.channels[c] = Closed(copy, verdict[c], t) /\ new.channels[c] \in Copy
      BY <2>3, <3>1, ClosedType DEF copy
    <3> HIDE DEF new
    <3>5. QED
      BY <2>3, <3>3, <3>4, NoneAssumption, NoneIsNoRecord DEF Rests
  <2>4. QED
    BY <1>2, <1>4, <2>2, <2>3
<1>5. \A c \in Channels : event.channels[c] = None => new.channels[c] = None
  BY <1>2
<1>6. EventFits(s, id, new)
  <2> HIDE DEF new
  <2> QED BY <1>1, <1>2, <1>4, <1>5 DEF EventFits, EventConsistent, EventRests
<1>7. QED
  BY <1>6 DEF new

\* CloseCopies leaves a fitting snapshot fit.
LEMMA CloseCopiesFits ==
    ASSUME NEW s \in Snapshot, Fits(s), NEW t \in Int,
           NEW verdict \in [EventIds -> [Channels -> CopyState]]
    PROVE  Fits(CloseCopies(s, verdict, t))
<1> DEFINE new == CloseCopies(s, verdict, t)
<1>1. /\ new.watches = s.watches /\ new.items = s.items /\ new.delivery = s.delivery
      /\ \A id \in EventIds : new.pending[id] =
            IF s.pending[id] = None THEN None
            ELSE CloseEvent(s.pending[id], verdict[id], t)
  <2>1. DOMAIN s = {"watches", "items", "delivery", "pending", "nextEligibleAt",
                    "failures"}
    BY DEF Snapshot
  <2>2. QED
    BY <2>1 DEF CloseCopies
<1> HIDE DEF new
<1>2. ASSUME NEW id \in EventIds, new.pending[id] # None
      PROVE  s.pending[id] # None /\ EventFits(new, id, new.pending[id])
  <2>1. /\ s.pending[id] # None
        /\ new.pending[id] = CloseEvent(s.pending[id], verdict[id], t)
    BY <1>1, <1>2
  <2>2. s.pending[id] \in Event /\ verdict[id] \in [Channels -> CopyState]
    BY <2>1 DEF Snapshot
  <2>3. EventFits(s, id, s.pending[id])
    BY DEF Fits, LedgerFits
  <2>4. EventFits(s, id, new.pending[id])
    BY <2>1, <2>2, <2>3, CloseEventFits
  <2>5. QED
    BY <1>1, <2>1, <2>4, SameWatchesFit
<1>3. LedgerFits(new)
  BY <1>2, LedgerStillFits DEF Fits
<1>4. ScopesFit(new)
  BY <1>1, SameScopesFit DEF Fits
<1>5. QED
  BY <1>3, <1>4 DEF Fits, new

\* reconcileDurableDelivery leaves a fitting snapshot fit.
LEMMA ReconcileDurableDeliveryFits ==
    ASSUME NEW s \in Snapshot, Fits(s), NEW t \in Int
    PROVE  Fits(ReconcileDurableDelivery(s, t))
<1> DEFINE verdict == [id \in EventIds |-> [c \in Channels |->
            LET watch == s.watches[id[1][1]]
                event == s.pending[id]
            IN  IF watch = None THEN "revoked"
                ELSE IF watch.rev # event.rev THEN "superseded"
                ELSE IF c \notin watch.channels THEN "revoked"
                ELSE IF IsExpired(event, t) THEN "expired"
                ELSE "pending"]]
<1>1. verdict \in [EventIds -> [Channels -> CopyState]]
  BY DEF CopyState
<1>2. ReconcileDurableDelivery(s, t) = CloseCopies(s, verdict, t)
  BY DEF ReconcileDurableDelivery
<1> HIDE DEF verdict
<1>3. QED
  BY <1>1, <1>2, CloseCopiesFits

\* reconcileRetiredCatalogState leaves a fitting snapshot fit: the stock of a retired
\* watch is unknown, and its markers are closed.
LEMMA ReconcileRetiredCatalogStateFits ==
    ASSUME NEW s \in Snapshot, Fits(s), NEW t \in Int, NEW catalog
    PROVE  Fits(ReconcileRetiredCatalogState(s, catalog, t))
<1> DEFINE retired == RetiredWatches(s, catalog)
           items == [x \in Scopes |->
                    IF x[1] \in retired /\ s.items[x] # None
                    THEN [s.items[x] EXCEPT !.status = "unknown"]
                    ELSE s.items[x]]
           delivery == [x \in Scopes |->
                    IF x[1] \in retired /\ s.delivery[x].deferred = "pending"
                    THEN ClearDeferredAvailability(s.delivery[x], "superseded")
                    ELSE s.delivery[x]]
           verdict == [id \in EventIds |-> [c \in Channels |->
                IF id[1][1] \in retired THEN "superseded" ELSE "pending"]]
           marked == [s EXCEPT !.items = items, !.delivery = delivery]
<1>1. verdict \in [EventIds -> [Channels -> CopyState]]
  BY DEF CopyState
<1>2. /\ s.items \in [Scopes -> Item \cup {None}]
      /\ s.delivery \in [Scopes -> Delivery]
      /\ DOMAIN s = {"watches", "items", "delivery", "pending", "nextEligibleAt",
                     "failures"}
  BY DEF Snapshot
<1>3. "superseded" \in MarkerState \ {"pending"}
  BY DEF MarkerState
<1>4. items \in [Scopes -> Item \cup {None}]
  <2>1. \A i \in Item : [i EXCEPT !.status = "unknown"] \in Item
    BY DEF Item, Status
  <2> HIDE DEF retired
  <2>2. QED
    BY <1>2, <2>1
<1>5. delivery \in [Scopes -> Delivery]
  <2> HIDE DEF retired
  <2> QED BY <1>2, <1>3, ClearedType
<1>6. ASSUME NEW x \in Scopes
      PROVE  ItemFits(s, x, items[x]) /\ MarkerFits(s, x, items[x], delivery[x])
  <2>1. ItemFits(s, x, s.items[x]) /\ MarkerFits(s, x, s.items[x], s.delivery[x])
    BY DEF Fits, ScopesFit
  <2>2. /\ s.items[x] # None => items[x] # None /\ items[x].known = s.items[x].known
        /\ ItemFits(s, x, items[x])
    <3>1. CASE items[x] = s.items[x]
      BY <2>1, <3>1
    <3>2. CASE /\ s.items[x] # None
               /\ items[x] = [s.items[x] EXCEPT !.status = "unknown"]
      <4>1. s.items[x] \in Item /\ items[x] \in Item
        <5>1. s.items[x] \in Item
          BY <1>2, <3>2
        <5>2. [s.items[x] EXCEPT !.status = "unknown"] \in Item
          BY <5>1 DEF Item, Status
        <5> HIDE DEF items
        <5>3. QED
          BY <3>2, <5>1, <5>2
      <4>2. DOMAIN s.items[x] = {"status", "known", "checkedAt", "successAt"}
        BY <4>1 DEF Item
      <4>3. items[x].status = "unknown" /\ items[x].known = s.items[x].known
        BY <3>2, <4>2
      <4> HIDE DEF items
      <4>4. QED
        BY <2>1, <3>2, <4>1, <4>3, NoneIsNoRecord DEF ItemFits, ItemConsistent
    <3>3. QED
      BY <3>1, <3>2
  <2>3. MarkerFits(s, x, items[x], delivery[x])
    <3>1. CASE delivery[x] = s.delivery[x]
      <4> HIDE DEF items
      <4> QED BY <2>1, <2>2, <3>1, MarkerFitsItem
    <3>2. CASE /\ s.delivery[x].deferred = "pending"
               /\ delivery[x] = ClearDeferredAvailability(s.delivery[x], "superseded")
      <4>1. s.delivery[x] \in Delivery
        BY <1>2
      <4> HIDE DEF items
      <4>2. QED
        BY <1>3, <2>1, <3>2, <4>1, ClearedFits
    <3>3. QED
      BY <3>1, <3>2
  <2>4. QED
    BY <2>2, <2>3
<1> HIDE DEF items, delivery
<1>7. /\ marked \in Snapshot /\ marked.watches = s.watches
      /\ marked.pending = s.pending /\ marked.items = items
      /\ marked.delivery = delivery
  BY <1>2, <1>4, <1>5 DEF Snapshot
<1>8. ReconcileRetiredCatalogState(s, catalog, t) = CloseCopies(marked, verdict, t)
  BY DEF ReconcileRetiredCatalogState, items, delivery
<1> HIDE DEF marked, verdict
<1>9. ScopesFit(marked)
  BY <1>6, <1>7, SameWatchesFit DEF ScopesFit
<1>10. LedgerFits(marked)
  BY <1>7, SameLedgerFits DEF Fits
<1>11. QED
  BY <1>1, <1>7, <1>8, <1>9, <1>10, CloseCopiesFits DEF Fits

\* An edit of the watches ws replaces each by a later revision, or adds it.
Revises(s, new, ws) ==
    \A w \in Watches :
        IF w \in ws
        THEN /\ new.watches[w] # None
             /\ s.watches[w] # None
             /\ new.watches[w].rev # s.watches[w].rev
        ELSE new.watches[w] = s.watches[w]

\* pruneForWatchRevision makes what fitted the watches before an edit fit them after it:
\* what is out of scope goes, and no marker of an earlier revision stays.
LEMMA PruneForWatchRevisionFits ==
    ASSUME NEW s \in Snapshot, Fits(s), NEW mid \in Snapshot, NEW t \in Int,
           NEW ws \in SUBSET Watches, Revises(s, mid, ws),
           mid.items = s.items, mid.delivery = s.delivery, mid.pending = s.pending
    PROVE  Fits(PruneForWatchRevision(mid, ws, t))
<1> DEFINE kept(x) == x[1] \notin ws \/ InScope(mid, x)
           dropped == DropScopes(mid, ws)
           marked  == CloseStaleMarkers(dropped, ws)
           verdict == [id \in EventIds |-> [c \in Channels |->
                IF id[1][1] \notin ws \/ marked.pending[id] = None THEN "pending"
                ELSE IF c \notin marked.watches[id[1][1]].channels THEN "revoked"
                ELSE IF marked.pending[id].rev # marked.watches[id[1][1]].rev
                THEN "superseded"
                ELSE "pending"]]
<1>1. PruneForWatchRevision(mid, ws, t) = CloseCopies(marked, verdict, t)
  BY DEF PruneForWatchRevision, CloseStaleCopies
<1>2. /\ DOMAIN mid = {"watches", "items", "delivery", "pending", "nextEligibleAt",
                       "failures"}
      /\ s.delivery \in [Scopes -> Delivery]
      /\ mid.nextEligibleAt \in OptTime /\ mid.failures \in 0..MaxFailures
      /\ mid.watches \in [Watches -> Watch \cup {None}]
      /\ s.items \in [Scopes -> Item \cup {None}]
      /\ s.pending \in [EventIds -> Event \cup {None}]
  BY DEF Snapshot
<1>3. NoDelivery \in Delivery /\ NoDelivery.deferred # "pending"
      /\ DeliveryConsistent(NoDelivery)
  BY DEF NoDelivery, Delivery, OptTime, MarkerState, DeliveryConsistent
<1>4. /\ DOMAIN dropped = DOMAIN mid /\ dropped.watches = mid.watches
      /\ dropped.nextEligibleAt = mid.nextEligibleAt
      /\ dropped.failures = mid.failures
      /\ dropped.items = [x \in Scopes |-> IF kept(x) THEN s.items[x] ELSE None]
      /\ dropped.delivery = [x \in Scopes |->
                IF kept(x) THEN s.delivery[x] ELSE NoDelivery]
      /\ dropped.pending = [id \in EventIds |->
                IF kept(id[1]) THEN s.pending[id] ELSE None]
  <2> HIDE DEF kept
  <2> QED BY <1>2 DEF DropScopes, kept
<1>5. dropped \in Snapshot
  <2>1. dropped = [watches |-> dropped.watches, items |-> dropped.items,
                   delivery |-> dropped.delivery, pending |-> dropped.pending,
                   nextEligibleAt |-> dropped.nextEligibleAt,
                   failures |-> dropped.failures]
    <3>1. dropped = [mid EXCEPT !.items = dropped.items, !.delivery = dropped.delivery,
                                !.pending = dropped.pending]
      BY <1>2, <1>4 DEF DropScopes
    <3> HIDE DEF dropped
    <3>2. QED
      BY <1>2, <1>4, <3>1 DEF Snapshot
  <2> HIDE DEF dropped, kept
  <2>2. QED
    BY <1>2, <1>3, <1>4, <2>1 DEF Snapshot
<1>6. marked = [dropped EXCEPT !.delivery = marked.delivery]
      /\ \A x \in Scopes : marked.delivery[x] =
            IF x[1] \notin ws \/ dropped.delivery[x].deferred # "pending"
            THEN dropped.delivery[x]
            ELSE IF dropped.watches[x[1]].channels = {}
            THEN ClearDeferredAvailability(dropped.delivery[x], "revoked")
            ELSE IF dropped.delivery[x].deferredRev # dropped.watches[x[1]].rev
            THEN ClearDeferredAvailability(dropped.delivery[x], "superseded")
            ELSE dropped.delivery[x]
  <2> HIDE DEF dropped
  <2> QED BY <1>2, <1>4 DEF CloseStaleMarkers
<1>7. {"revoked", "superseded"} \subseteq MarkerState \ {"pending"}
  BY DEF MarkerState
<1>8. marked.delivery \in [Scopes -> Delivery]
  <2>1. \A x \in Scopes : dropped.delivery[x] \in Delivery
    <3> HIDE DEF dropped, marked
    <3> QED BY <1>5 DEF Snapshot
  <2>2. marked.delivery = [x \in Scopes |-> marked.delivery[x]]
    <3> HIDE DEF dropped
    <3> QED BY <1>2, <1>4 DEF CloseStaleMarkers
  <2> HIDE DEF dropped, marked
  <2>3. \A x \in Scopes : marked.delivery[x] \in Delivery
    BY <1>6, <1>7, <2>1, ClearedType
  <2>4. QED
    BY <2>2, <2>3
<1> HIDE DEF dropped, marked, verdict, kept
<1>9. /\ marked \in Snapshot /\ marked.watches = mid.watches
      /\ marked.items = dropped.items /\ marked.pending = dropped.pending
  BY <1>4, <1>5, <1>6, <1>8 DEF Snapshot
<1>10. \A x \in Scopes : x[1] \in Watches
  BY ScopeTypes
<1>11. \A x \in Scopes : x[1] \notin ws =>
        /\ mid.watches[x[1]] = s.watches[x[1]]
        /\ InScope(mid, x) <=> InScope(s, x)
  BY <1>10 DEF Revises, InScope
<1>12. ASSUME NEW x \in Scopes
       PROVE  /\ ItemFits(mid, x, marked.items[x])
              /\ MarkerFits(mid, x, marked.items[x], marked.delivery[x])
  <2>1. /\ ItemFits(s, x, s.items[x])
        /\ MarkerFits(s, x, s.items[x], s.delivery[x])
        /\ s.delivery[x] \in Delivery
    BY <1>2 DEF Fits, ScopesFit
  <2>2. CASE ~kept(x)
    <3>1. dropped.items[x] = None /\ dropped.delivery[x] = NoDelivery
      BY <1>4, <2>2
    <3>2. marked.items[x] = None /\ marked.delivery[x] = NoDelivery
      BY <1>3, <1>6, <1>9, <3>1
    <3>3. QED
      BY <1>3, <3>2 DEF ItemFits, MarkerFits
  <2>3. CASE x[1] \notin ws
    <3>1. dropped.items[x] = s.items[x] /\ dropped.delivery[x] = s.delivery[x]
      BY <1>4, <2>3 DEF kept
    <3>2. marked.items[x] = s.items[x] /\ marked.delivery[x] = s.delivery[x]
      BY <1>6, <1>9, <2>3, <3>1
    <3>3. QED
      BY <1>11, <2>1, <2>3, <3>2 DEF ItemFits, MarkerFits
  <2>4. CASE x[1] \in ws /\ InScope(mid, x)
    <3>1. dropped.items[x] = s.items[x] /\ dropped.delivery[x] = s.delivery[x]
      BY <1>4, <2>4 DEF kept
    <3>2. marked.items[x] = s.items[x]
      BY <1>9, <3>1
    <3>3. ItemFits(mid, x, marked.items[x])
      BY <2>1, <2>4, <3>2 DEF ItemFits
    <3>4. CASE s.delivery[x].deferred # "pending"
      <4>1. marked.delivery[x] = s.delivery[x]
        BY <1>6, <3>1, <3>4
      <4>2. MarkerFits(mid, x, marked.items[x], marked.delivery[x])
        BY <2>1, <2>4, <3>4, <4>1 DEF MarkerFits
      <4>3. QED
        BY <3>3, <4>2
    <3>5. CASE s.delivery[x].deferred = "pending"
      <4>1. s.delivery[x].deferredRev # mid.watches[x[1]].rev
        BY <1>10, <2>1, <2>4, <3>5 DEF MarkerFits, Revises
      <4>2. \E state \in {"revoked", "superseded"} :
                marked.delivery[x] = ClearDeferredAvailability(s.delivery[x], state)
        BY <1>4, <1>6, <2>4, <3>1, <3>5, <4>1
      <4>3. MarkerFits(mid, x, marked.items[x], marked.delivery[x])
        BY <1>7, <2>1, <2>4, <4>2, ClosedMarkerFits
      <4>4. QED
        BY <3>3, <4>3
    <3>6. QED
      BY <3>4, <3>5
  <2>5. QED
    BY <2>2, <2>3, <2>4 DEF kept
<1>13. ScopesFit(marked)
  BY <1>9, <1>12, SameWatchesFit DEF ScopesFit
<1>14. ASSUME NEW id \in EventIds, marked.pending[id] # None
       PROVE  s.pending[id] # None /\ EventFits(marked, id, marked.pending[id])
  <2>1. kept(id[1]) /\ marked.pending[id] = s.pending[id]
    BY <1>4, <1>9, <1>14
  <2>2. EventFits(s, id, s.pending[id]) /\ id[1] \in Scopes
    BY ScopeTypes DEF Fits, LedgerFits
  <2>3. InScope(mid, id[1])
    BY <1>11, <1>14, <2>1, <2>2 DEF kept, EventFits
  <2>4. EventFits(mid, id, marked.pending[id])
    BY <2>1, <2>2, <2>3 DEF EventFits
  <2>5. QED
    BY <1>9, <1>14, <2>1, <2>4, SameWatchesFit
<1>15. LedgerFits(marked)
  BY <1>14, LedgerStillFits DEF Fits
<1>16. verdict \in [EventIds -> [Channels -> CopyState]]
  BY DEF CopyState, verdict
<1>17. QED
  BY <1>1, <1>9, <1>13, <1>15, <1>16, CloseCopiesFits DEF Fits

\* A deleted watch takes with it all that was kept for it.
LEMMA WithoutWatchFits ==
    ASSUME NEW s \in Snapshot, Fits(s), NEW w \in Watches
    PROVE  Fits(WithoutWatch(s, w))
<1> DEFINE new == WithoutWatch(s, w)
<1>1. /\ new.watches = [s.watches EXCEPT ![w] = None]
      /\ \A x \in Scopes :
            /\ new.items[x] = IF x[1] = w THEN None ELSE s.items[x]
            /\ new.delivery[x] = IF x[1] = w THEN NoDelivery ELSE s.delivery[x]
      /\ \A id \in EventIds :
            new.pending[id] = IF id[1][1] = w THEN None ELSE s.pending[id]
  <2>1. DOMAIN s = {"watches", "items", "delivery", "pending", "nextEligibleAt",
                    "failures"}
    BY DEF Snapshot
  <2>2. QED
    BY <2>1 DEF WithoutWatch
<1> HIDE DEF new
<1>2. \A x \in Scopes : x[1] # w =>
        new.watches[x[1]] = s.watches[x[1]] /\ (InScope(new, x) <=> InScope(s, x))
  BY <1>1, ScopeTypes DEF InScope, Snapshot
<1>3. NoDelivery.deferred # "pending" /\ DeliveryConsistent(NoDelivery)
  BY DEF NoDelivery, DeliveryConsistent
<1>4. ASSUME NEW x \in Scopes
      PROVE  /\ ItemFits(new, x, new.items[x])
             /\ MarkerFits(new, x, new.items[x], new.delivery[x])
  <2>1. CASE x[1] = w
    BY <1>1, <1>3, <2>1 DEF ItemFits, MarkerFits
  <2>2. CASE x[1] # w
    BY <1>1, <1>2, <2>2 DEF Fits, ScopesFit, ItemFits, MarkerFits
  <2>3. QED
    BY <2>1, <2>2
<1>5. ASSUME NEW id \in EventIds, new.pending[id] # None
      PROVE  s.pending[id] # None /\ EventFits(new, id, new.pending[id])
  <2>1. id[1][1] # w /\ new.pending[id] = s.pending[id]
    BY <1>1, <1>5
  <2>2. InScope(new, id[1]) <=> InScope(s, id[1])
    BY <1>2, <2>1, ScopeTypes
  <2>3. QED
    BY <1>5, <2>1, <2>2 DEF Fits, LedgerFits, EventFits
<1>6. ScopesFit(new)
  BY <1>4 DEF ScopesFit
<1>7. LedgerFits(new)
  BY <1>5, LedgerStillFits DEF Fits
<1>8. QED
  BY <1>6, <1>7 DEF Fits, new

\* A watch under an id that had none finds nothing kept for it.
LEMMA NewWatchFits ==
    ASSUME NEW s \in Snapshot, Fits(s), NEW w \in Watches, s.watches[w] = None,
           NEW watch
    PROVE  Fits([s EXCEPT !.watches[w] = watch])
<1> DEFINE new == [s EXCEPT !.watches[w] = watch]
<1>1. /\ new.watches = [s.watches EXCEPT ![w] = watch]
      /\ new.items = s.items /\ new.delivery = s.delivery /\ new.pending = s.pending
  BY DEF Snapshot
<1> HIDE DEF new
<1>2. \A x \in Scopes : InScope(s, x) =>
        new.watches[x[1]] = s.watches[x[1]] /\ InScope(new, x)
  BY <1>1, ScopeTypes DEF InScope, Snapshot
<1>3. ScopesFit(new)
  BY <1>1, <1>2 DEF Fits, ScopesFit, ItemFits, MarkerFits
<1>4. ASSUME NEW id \in EventIds, new.pending[id] # None
      PROVE  s.pending[id] # None /\ EventFits(new, id, new.pending[id])
  BY <1>1, <1>2, <1>4, ScopeTypes DEF Fits, LedgerFits, EventFits
<1>5. LedgerFits(new)
  BY <1>4, LedgerStillFits DEF Fits
<1>6. QED
  BY <1>3, <1>5 DEF Fits, new

\* A new event for a watch with a channel fits.
LEMMA NewEventFits ==
    ASSUME NEW s, NEW id, InScope(s, id[1]), NEW watch \in Watch, watch.channels # {},
           NEW observedAt \in Int, NEW t \in Int, observedAt <= t
    PROVE  EventFits(s, id, NewEvent(watch, observedAt, t))
<1> DEFINE new == NewEvent(watch, observedAt, t)
           fresh == [state |-> "pending", attempts |-> 0, next |-> t, doneAt |-> None]
<1>1. /\ new.createdAt = t /\ new.observedAt = observedAt
      /\ \A c \in Channels :
            new.channels[c] = IF c \in watch.channels THEN fresh ELSE None
  BY DEF NewEvent
<1>2. fresh \in Copy /\ fresh.state = "pending" /\ fresh.doneAt = None
  BY BoundsAssumption DEF Copy, CopyState, OptTime
<1>3. PICK c \in watch.channels : c \in Channels
  BY DEF Watch
<1> HIDE DEF new, fresh
<1>4. fresh # None
  BY <1>2, NoneIsNoRecord
<1>5. EventConsistent(new)
  BY <1>1, <1>2, <1>3, <1>4 DEF EventConsistent
<1>6. EventRests(new)
  BY <1>1, <1>2 DEF EventRests, Rests
<1>7. QED
  BY <1>5, <1>6 DEF EventFits, new

\* What an admission says of the room in the ledger.
LEMMA AdmissionTypes ==
    ASSUME NEW s, NEW alerts \in SUBSET Scopes, NEW a \in Admissions(s, alerts)
    PROVE  /\ a.queued \subseteq alerts
           /\ a.evicted \subseteq Ledger(s)
           /\ IsFiniteSet(a.queued) /\ Cardinality(a.queued) \in Nat
           /\ Cardinality(a.evicted) = Greatest(0,
                Cardinality(Ledger(s)) + Cardinality(a.queued) - MaxPending)
<1>1. /\ a.queued \subseteq alerts /\ a.evicted \subseteq Finished(s)
      /\ Cardinality(a.evicted) = Greatest(0,
                Cardinality(Ledger(s)) + Cardinality(a.queued) - MaxPending)
  BY DEF Admissions
<1>2. IsFiniteSet(a.queued)
  BY <1>1, ScopesAssumption, FS_Subset
<1>3. QED
  BY <1>1, <1>2, FS_CardinalityType DEF Finished

\* Queueing what an admission allows keeps the ledger within its size.
LEMMA AdmitMakesRoom ==
    ASSUME NEW s, NEW a, NEW serial, NEW new,
           a.queued \subseteq Scopes, a.evicted \subseteq Ledger(s),
           IsFiniteSet(a.queued), Cardinality(a.queued) \in Nat,
           Cardinality(a.evicted) = Greatest(0,
                Cardinality(Ledger(s)) + Cardinality(a.queued) - MaxPending),
           \A id \in Ledger(new) :
                \/ id \in Ledger(s) /\ id \notin a.evicted
                \/ id[1] \in a.queued /\ id[2] = serial[id[1]] + 1
    PROVE  Cardinality(Ledger(new)) <= MaxPending
<1> DEFINE kept == Ledger(s) \ a.evicted
           fresh == {<<x, serial[x] + 1>> : x \in a.queued}
<1>1. Ledger(new) \subseteq kept \cup fresh
  BY DEF Ledger, EventIds
<1>2. IsFiniteSet(fresh) /\ Cardinality(fresh) <= Cardinality(a.queued)
      /\ Cardinality(fresh) \in Nat
  <2> DEFINE f == [x \in a.queued |-> <<x, serial[x] + 1>>]
  <2>1. f \in Surjection(a.queued, fresh)
    BY DEF Surjection
  <2> HIDE DEF f, fresh
  <2>2. QED
    BY <2>1, FS_Surjection, FS_CardinalityType
<1>3. IsFiniteSet(Ledger(s)) /\ Cardinality(Ledger(s)) \in Nat
  BY LedgerIsFinite
<1>4. Ledger(s) \cap a.evicted = a.evicted
  OBVIOUS
<1>5. IsFiniteSet(kept)
      /\ Cardinality(kept) = Cardinality(Ledger(s)) - Cardinality(a.evicted)
      /\ Cardinality(kept) \in Nat
  <2>1. /\ IsFiniteSet(kept)
        /\ Cardinality(kept) = Cardinality(Ledger(s)) - Cardinality(Ledger(s) \cap a.evicted)
    BY <1>3, FS_Difference
  <2> HIDE DEF kept
  <2>2. QED
    BY <1>4, <2>1, FS_CardinalityType
<1> HIDE DEF kept, fresh
<1>6. /\ IsFiniteSet(kept \cup fresh)
      /\ Cardinality(kept \cup fresh)
            = Cardinality(kept) + Cardinality(fresh) - Cardinality(kept \cap fresh)
      /\ Cardinality(kept \cap fresh) \in Nat
      /\ Cardinality(kept \cup fresh) \in Nat
  BY <1>2, <1>5, FS_Union, FS_Intersection, FS_CardinalityType
<1>7. Cardinality(Ledger(new)) <= Cardinality(kept \cup fresh)
      /\ Cardinality(Ledger(new)) \in Nat
  BY <1>1, <1>6, FS_Subset, LedgerIsFinite
<1>8. Cardinality(a.evicted)
        >= Cardinality(Ledger(s)) + Cardinality(a.queued) - MaxPending
      /\ Cardinality(a.evicted) \in Int
  BY <1>3, BoundsAssumption DEF Greatest
<1>9. QED
  BY <1>2, <1>3, <1>5, <1>6, <1>7, <1>8, BoundsAssumption

\* Queueing alerts that are in scope, for watches with a channel, leaves the snapshot
\* fit.
LEMMA AdmitFits ==
    ASSUME NEW s \in Snapshot, Fits(s), NEW t \in Int, NEW a, NEW serial, NEW seen,
           a.queued \subseteq Scopes, a.evicted \subseteq Ledger(s),
           IsFiniteSet(a.queued), Cardinality(a.queued) \in Nat,
           Cardinality(a.evicted) = Greatest(0,
                Cardinality(Ledger(s)) + Cardinality(a.queued) - MaxPending),
           \A x \in a.queued : /\ InScope(s, x)
                               /\ s.watches[x[1]].channels # {}
                               /\ seen[x] \in Int /\ seen[x] <= t
    PROVE  Fits(Admit(s, a, serial, seen, t))
<1> DEFINE new == Admit(s, a, serial, seen, t)
<1>1. DOMAIN s = {"watches", "items", "delivery", "pending", "nextEligibleAt",
                  "failures"}
      /\ s.watches \in [Watches -> Watch \cup {None}]
      /\ s.delivery \in [Scopes -> Delivery]
  BY DEF Snapshot
<1>2. /\ new.watches = s.watches /\ new.items = s.items
      /\ \A id \in EventIds : new.pending[id] =
            IF id \in a.evicted THEN None
            ELSE IF id[1] \in a.queued /\ id[2] = serial[id[1]] + 1
            THEN NewEvent(s.watches[id[1][1]], seen[id[1]], t)
            ELSE s.pending[id]
      /\ \A x \in Scopes : new.delivery[x] =
            IF x \notin a.queued THEN s.delivery[x]
            ELSE IF s.delivery[x].deferred = "pending"
            THEN [ClearDeferredAvailability(s.delivery[x], "none")
                    EXCEPT !.alertedAt = t]
            ELSE [s.delivery[x] EXCEPT !.alertedAt = t]
  BY <1>1 DEF Admit
<1> HIDE DEF new
<1>3. ASSUME NEW x \in Scopes
      PROVE  MarkerFits(s, x, s.items[x], new.delivery[x])
  <2>1. MarkerFits(s, x, s.items[x], s.delivery[x]) /\ s.delivery[x] \in Delivery
    BY <1>1 DEF Fits, ScopesFit
  <2>2. CASE x \notin a.queued
    BY <1>2, <2>1, <2>2
  <2>3. CASE x \in a.queued
    <3> DEFINE d == IF s.delivery[x].deferred = "pending"
                    THEN ClearDeferredAvailability(s.delivery[x], "none")
                    ELSE s.delivery[x]
    <3>1. "none" \in MarkerState \ {"pending"}
      BY DEF MarkerState
    <3>2. d \in Delivery /\ MarkerFits(s, x, s.items[x], d) /\ d.deferred # "pending"
      <4>1. CASE s.delivery[x].deferred # "pending"
        BY <2>1, <4>1
      <4>2. CASE s.delivery[x].deferred = "pending"
        <5>1. ClearDeferredAvailability(s.delivery[x], "none").deferred = "none"
          <6>1. DOMAIN s.delivery[x]
                  = {"alertedAt", "deferred", "deferredAt", "deferredRev"}
            BY <2>1 DEF Delivery
          <6>2. QED
            BY <6>1 DEF ClearDeferredAvailability
        <5>2. QED
          BY <2>1, <3>1, <4>2, <5>1, ClearedType, ClearedFits
      <4>3. QED
        BY <4>1, <4>2
    <3>3. new.delivery[x] = [d EXCEPT !.alertedAt = t]
      BY <1>2, <2>3
    <3> HIDE DEF d
    <3>4. /\ new.delivery[x].deferred = d.deferred
          /\ new.delivery[x].deferredAt = d.deferredAt
          /\ new.delivery[x].deferredRev = d.deferredRev
      BY <3>2, <3>3 DEF Delivery
    <3>5. InScope(s, x)
      BY <2>3
    <3>6. QED
      BY <3>2, <3>4, <3>5 DEF MarkerFits, DeliveryConsistent
  <2>4. QED
    BY <2>2, <2>3
<1>4. ScopesFit(new)
  BY <1>2, <1>3, SameWatchesFit DEF Fits, ScopesFit
<1>5. ASSUME NEW id \in EventIds, new.pending[id] # None
      PROVE  /\ EventFits(new, id, new.pending[id])
             /\ \/ id \in Ledger(s) /\ id \notin a.evicted
                \/ id[1] \in a.queued /\ id[2] = serial[id[1]] + 1
  <2>1. CASE id \notin a.evicted /\ new.pending[id] = s.pending[id]
    BY <1>2, <1>5, <2>1, SameWatchesFit DEF Fits, LedgerFits, Ledger
  <2>2. CASE /\ id[1] \in a.queued /\ id[2] = serial[id[1]] + 1
             /\ new.pending[id] = NewEvent(s.watches[id[1][1]], seen[id[1]], t)
    <3>1. /\ InScope(s, id[1]) /\ s.watches[id[1][1]] \in Watch
          /\ s.watches[id[1][1]].channels # {}
          /\ seen[id[1]] \in Int /\ seen[id[1]] <= t
      BY <1>1, <2>2, ScopeTypes DEF InScope
    <3>2. EventFits(s, id, new.pending[id])
      BY <2>2, <3>1, NewEventFits
    <3>3. QED
      BY <1>2, <2>2, <3>2, SameWatchesFit
  <2>3. QED
    BY <1>2, <1>5, <2>1, <2>2
<1>6. Cardinality(Ledger(new)) <= MaxPending
  <2>1. \A id \in Ledger(new) :
            \/ id \in Ledger(s) /\ id \notin a.evicted
            \/ id[1] \in a.queued /\ id[2] = serial[id[1]] + 1
    BY <1>5 DEF Ledger
  <2>2. QED
    BY <2>1, AdmitMakesRoom
<1>7. LedgerFits(new)
  BY <1>5, <1>6 DEF LedgerFits, EventFits
<1>8. QED
  BY <1>4, <1>7 DEF Fits, new

\* Recording observations in scope leaves the snapshot fit: stock that is gone closes
\* its marker, and an outage keeps what was known.
LEMMA RecordItemsFits ==
    ASSUME NEW s \in Snapshot, Fits(s), NEW t \in Int, NEW obs,
           \A x \in DOMAIN obs : obs[x] \in Status /\ InScope(s, x)
    PROVE  LET new == RecordItems(s, obs, t) IN
           /\ Fits(new)
           /\ \A x \in Scopes : x \in DOMAIN obs /\ obs[x] = "available" =>
                new.items[x] # None /\ new.items[x].known = "available"
<1> DEFINE new == RecordItems(s, obs, t)
<1>1. DOMAIN s = {"watches", "items", "delivery", "pending", "nextEligibleAt",
                  "failures"}
      /\ s.items \in [Scopes -> Item \cup {None}]
      /\ s.delivery \in [Scopes -> Delivery]
  BY DEF Snapshot
<1>2. /\ new.watches = s.watches /\ new.pending = s.pending
      /\ \A x \in Scopes :
            /\ new.items[x] = IF x \in DOMAIN obs THEN Observed(s.items[x], obs[x], t)
                              ELSE s.items[x]
            /\ new.delivery[x] =
                IF /\ x \in DOMAIN obs
                   /\ obs[x] = "unavailable"
                   /\ s.delivery[x].deferred = "pending"
                THEN ClearDeferredAvailability(s.delivery[x], "superseded")
                ELSE s.delivery[x]
  BY <1>1 DEF RecordItems
<1> HIDE DEF new
<1>3. "superseded" \in MarkerState \ {"pending"}
  BY DEF MarkerState
<1>4. ASSUME NEW x \in Scopes
      PROVE  /\ ItemFits(s, x, new.items[x])
             /\ MarkerFits(s, x, new.items[x], new.delivery[x])
             /\ x \in DOMAIN obs /\ obs[x] = "available" =>
                    new.items[x] # None /\ new.items[x].known = "available"
  <2>1. /\ ItemFits(s, x, s.items[x])
        /\ MarkerFits(s, x, s.items[x], s.delivery[x]) /\ s.delivery[x] \in Delivery
    BY <1>1 DEF Fits, ScopesFit
  <2>2. CASE x \notin DOMAIN obs
    BY <1>2, <2>1, <2>2
  <2>3. CASE x \in DOMAIN obs
    <3> DEFINE item == Observed(s.items[x], obs[x], t)
    <3>1. /\ item \in Item /\ item # None
          /\ item.status = obs[x]
          /\ obs[x] # "unknown" => item.known = obs[x] /\ item.successAt = t
          /\ obs[x] = "unknown" /\ s.items[x] # None => item.known = s.items[x].known
      <4>1. item \in Item
        BY <1>1, <2>3, ObservedType
      <4>2. QED
        BY <4>1, NoneIsNoRecord DEF Observed
    <3>2. new.items[x] = item
      BY <1>2, <2>3
    <3> HIDE DEF item
    <3>3. ItemFits(s, x, item)
      BY <2>3, <3>1, NoneAssumption DEF ItemFits, ItemConsistent
    <3>4. CASE obs[x] = "unavailable" /\ s.delivery[x].deferred = "pending"
      <4>1. MarkerFits(s, x, item, new.delivery[x])
        BY <1>2, <1>3, <2>1, <2>3, <3>4, ClearedFits
      <4>2. QED
        BY <3>2, <3>3, <3>4, <4>1
    <3>5. CASE obs[x] # "unavailable" \/ s.delivery[x].deferred # "pending"
      <4>1. new.delivery[x] = s.delivery[x]
        BY <1>2, <3>5
      <4>2. obs[x] \in {"available", "unavailable", "unknown"}
        BY <2>3 DEF Status, KnownStatus
      <4>3. MarkerFits(s, x, item, s.delivery[x])
        BY <2>1, <3>1, <3>5, <4>2 DEF MarkerFits
      <4>4. QED
        BY <3>1, <3>2, <3>3, <4>1, <4>3
    <3>6. QED
      BY <3>4, <3>5
  <2>4. QED
    BY <2>2, <2>3
<1>5. ScopesFit(new)
  BY <1>2, <1>4, SameWatchesFit DEF ScopesFit
<1>6. LedgerFits(new)
  BY <1>2, SameLedgerFits DEF Fits
<1>7. QED
  BY <1>4, <1>5, <1>6 DEF Fits, new

\* Markers left for stock that is known to be available fit.
LEMMA DeferFits ==
    ASSUME NEW s \in Snapshot, Fits(s), NEW t \in Int, NEW xs,
           \A x \in Scopes : x \in xs =>
                /\ InScope(s, x)
                /\ s.watches[x[1]].enabled
                /\ s.watches[x[1]].channels # {}
                /\ s.items[x] # None
                /\ s.items[x].known = "available"
    PROVE  Fits(Defer(s, xs, t))
<1> DEFINE new == Defer(s, xs, t)
<1>1. DOMAIN s = {"watches", "items", "delivery", "pending", "nextEligibleAt",
                  "failures"}
      /\ s.delivery \in [Scopes -> Delivery]
      /\ s.watches \in [Watches -> Watch \cup {None}]
  BY DEF Snapshot
<1>2. /\ new.watches = s.watches /\ new.pending = s.pending /\ new.items = s.items
      /\ \A x \in Scopes : new.delivery[x] =
            IF x \in xs
            THEN [s.delivery[x] EXCEPT !.deferred = "pending", !.deferredAt = t,
                                       !.deferredRev = s.watches[x[1]].rev]
            ELSE s.delivery[x]
  BY <1>1 DEF Defer
<1> HIDE DEF new
<1>3. ASSUME NEW x \in Scopes
      PROVE  MarkerFits(s, x, s.items[x], new.delivery[x])
  <2>1. CASE x \notin xs
    BY <1>2, <2>1 DEF Fits, ScopesFit
  <2>2. CASE x \in xs
    <3> DEFINE d == s.delivery[x]
               rev == s.watches[x[1]].rev
    <3>1. DOMAIN d = {"alertedAt", "deferred", "deferredAt", "deferredRev"}
      BY <1>1 DEF Delivery
    <3>2. s.watches[x[1]] \in Watch /\ rev \in Int
      BY <1>1, <2>2, ScopeTypes DEF InScope, Watch
    <3>3. new.delivery[x] = [d EXCEPT !.deferred = "pending", !.deferredAt = t,
                                      !.deferredRev = rev]
      BY <1>2, <2>2
    <3> HIDE DEF d
    <3>4. /\ new.delivery[x].deferred = "pending" /\ new.delivery[x].deferredAt = t
          /\ new.delivery[x].deferredRev = rev
      BY <3>1, <3>3
    <3>5. QED
      BY <2>2, <3>2, <3>4, NoneAssumption DEF MarkerFits, DeliveryConsistent
  <2>3. QED
    BY <2>1, <2>2
<1>4. ScopesFit(new)
  BY <1>2, <1>3, SameWatchesFit DEF Fits, ScopesFit
<1>5. LedgerFits(new)
  BY <1>2, SameLedgerFits DEF Fits
<1>6. QED
  BY <1>4, <1>5 DEF Fits, new

\* recordObservation leaves the snapshot fit.
LEMMA RecordObservationFits ==
    ASSUME NEW s \in Snapshot, Fits(s), NEW t \in Int, NEW obs, NEW catalog, NEW serial,
           DOMAIN obs \subseteq Scopes,
           \A x \in DOMAIN obs : obs[x] \in Status /\ InScope(s, x),
           NEW a \in Admissions(s, Alerting(s, obs, t, catalog))
    PROVE  Fits(RecordObservation(s, obs, a, serial, t, catalog))
<1> DEFINE alerts == Alerting(s, obs, t, catalog)
           items == RecordItems(s, obs, t)
           seen == [x \in Scopes |-> t]
           admitted == Admit(items, a, serial, seen, t)
           new == Defer(admitted, alerts \ a.queued, t)
<1>1. \A x \in alerts :
        /\ x \in Scopes /\ x \in DOMAIN obs /\ obs[x] = "available"
        /\ InScope(s, x) /\ s.watches[x[1]] # None
        /\ s.watches[x[1]].enabled /\ s.watches[x[1]].channels # {}
  BY DEF Alerting, CanMakeEvent, InScope, ShouldAlert
<1> HIDE DEF alerts
<1>2. /\ a.queued \subseteq alerts /\ a.evicted \subseteq Ledger(s)
      /\ IsFiniteSet(a.queued) /\ Cardinality(a.queued) \in Nat
      /\ Cardinality(a.evicted) = Greatest(0,
                Cardinality(Ledger(s)) + Cardinality(a.queued) - MaxPending)
  <2>1. alerts \in SUBSET Scopes /\ a \in Admissions(s, alerts)
    BY <1>1 DEF alerts
  <2>2. QED
    BY <2>1, AdmissionTypes
<1>3. /\ items \in Snapshot /\ items.watches = s.watches /\ items.pending = s.pending
      /\ Fits(items)
      /\ \A x \in alerts : items.items[x] # None /\ items.items[x].known = "available"
  BY <1>1, RecordItemsKeeps, RecordItemsFits
<1> HIDE DEF items
<1>4. Ledger(items) = Ledger(s)
  BY <1>3 DEF Ledger
<1>5. \A x \in alerts : /\ InScope(items, x)
                        /\ items.watches[x[1]].channels # {}
                        /\ seen[x] \in Int /\ seen[x] <= t
  BY <1>1, <1>3, SameWatchesFit
<1> HIDE DEF seen
<1>6. a.queued \subseteq Scopes
  BY <1>1, <1>2
<1>7. admitted \in Snapshot /\ admitted.watches = items.watches
  <2>1. \A x \in a.queued : /\ items.watches[x[1]] # None
                            /\ items.watches[x[1]].enabled
                            /\ seen[x] \in Int
    BY <1>1, <1>2, <1>3, <1>5
  <2>2. QED
    BY <1>3, <1>6, <2>1, AdmitKeeps
<1>8. Fits(admitted)
  BY <1>2, <1>3, <1>4, <1>5, <1>6, AdmitFits
<1>9. admitted.items = items.items
  BY <1>3 DEF Admit, Snapshot
<1>10. RecordObservation(s, obs, a, serial, t, catalog) = new
  BY DEF RecordObservation, items, alerts, seen
<1> HIDE DEF admitted
<1>11. \A x \in Scopes : x \in alerts \ a.queued =>
        /\ InScope(admitted, x)
        /\ admitted.watches[x[1]].enabled
        /\ admitted.watches[x[1]].channels # {}
        /\ admitted.items[x] # None
        /\ admitted.items[x].known = "available"
  BY <1>1, <1>3, <1>5, <1>7, <1>9, SameWatchesFit
<1>12. Fits(new)
  BY <1>7, <1>8, <1>11, DeferFits
<1>13. QED
  BY <1>10, <1>12

\* Closing stale markers leaves the snapshot fit, and a marker that stays is not from
\* the future.
LEMMA CloseMarkersFits ==
    ASSUME NEW s \in Snapshot, Fits(s), NEW t \in Int, NEW catalog
    PROVE  LET new == CloseMarkers(s, t, catalog) IN
           /\ Fits(new)
           /\ \A x \in Scopes :
                /\ s.delivery[x].deferred = "pending"
                /\ MarkerVerdict(s, x, t, catalog) = "ready"
                => new.delivery[x].deferredAt \in Int /\ new.delivery[x].deferredAt <= t
<1> DEFINE verdict(x) == MarkerVerdict(s, x, t, catalog)
           new == CloseMarkers(s, t, catalog)
<1>1. DOMAIN s = {"watches", "items", "delivery", "pending", "nextEligibleAt",
                  "failures"}
      /\ s.delivery \in [Scopes -> Delivery]
  BY DEF Snapshot
<1>2. \A x \in Scopes : verdict(x) \notin {"pending", "ready"} =>
                            verdict(x) \in MarkerState \ {"pending"}
  BY DEF MarkerVerdict, MarkerState
<1>3. /\ new.watches = s.watches /\ new.pending = s.pending /\ new.items = s.items
      /\ \A x \in Scopes : new.delivery[x] =
            IF s.delivery[x].deferred # "pending" THEN s.delivery[x]
            ELSE IF verdict(x) \in {"pending", "ready"}
            THEN [s.delivery[x] EXCEPT !.deferredAt = Least(@, t)]
            ELSE ClearDeferredAvailability(s.delivery[x], verdict(x))
  <2> HIDE DEF verdict
  <2> QED BY <1>1 DEF CloseMarkers, verdict
<1> HIDE DEF new, verdict
<1>4. ASSUME NEW x \in Scopes
      PROVE  /\ MarkerFits(s, x, s.items[x], new.delivery[x])
             /\ s.delivery[x].deferred = "pending" /\ verdict(x) = "ready" =>
                    new.delivery[x].deferredAt \in Int /\ new.delivery[x].deferredAt <= t
  <2> DEFINE d == s.delivery[x]
  <2>1. MarkerFits(s, x, s.items[x], d) /\ d \in Delivery
    BY <1>1 DEF Fits, ScopesFit
  <2>2. CASE d.deferred # "pending"
    BY <1>3, <2>1, <2>2
  <2>3. CASE d.deferred = "pending" /\ verdict(x) \in {"pending", "ready"}
    <3>1. new.delivery[x] = [d EXCEPT !.deferredAt = Least(@, t)]
      BY <1>3, <2>3
    <3> HIDE DEF d
    <3>2. Least(d.deferredAt, t) \in Int /\ Least(d.deferredAt, t) <= t
      BY <2>1, <2>3 DEF Delivery, OptTime, Least
    <3>3. /\ new.delivery[x].deferred = d.deferred
          /\ new.delivery[x].deferredRev = d.deferredRev
          /\ new.delivery[x].deferredAt = Least(d.deferredAt, t)
      BY <2>1, <3>1 DEF Delivery
    <3>4. MarkerFits(s, x, s.items[x], new.delivery[x])
      BY <2>1, <2>3, <3>2, <3>3, NoneAssumption DEF MarkerFits, DeliveryConsistent
    <3>5. QED
      BY <3>2, <3>3, <3>4
  <2>4. CASE d.deferred = "pending" /\ verdict(x) \notin {"pending", "ready"}
    <3>1. new.delivery[x] = ClearDeferredAvailability(d, verdict(x))
      BY <1>3, <2>4
    <3>2. MarkerFits(s, x, s.items[x], new.delivery[x])
      BY <1>2, <2>1, <2>4, <3>1, ClearedFits
    <3>3. QED
      BY <2>4, <3>2
  <2>5. QED
    BY <2>2, <2>3, <2>4
<1>5. ScopesFit(new)
  BY <1>3, <1>4, SameWatchesFit DEF Fits, ScopesFit
<1>6. LedgerFits(new)
  BY <1>3, SameLedgerFits DEF Fits
<1>7. QED
  BY <1>4, <1>5, <1>6 DEF Fits, new, verdict

\* promoteDeferredAvailability leaves the snapshot fit.
LEMMA PromoteDeferredAvailabilityFits ==
    ASSUME NEW s \in Snapshot, Fits(s), NEW t \in Int, NEW catalog, NEW live, NEW serial,
           NEW a \in Admissions(s, Promotable(s, t, catalog, live))
    PROVE  Fits(PromoteDeferredAvailability(s, a, serial, t, catalog))
<1> DEFINE alerts == Promotable(s, t, catalog, live)
           closed == CloseMarkers(s, t, catalog)
           seen == [x \in Scopes |-> closed.delivery[x].deferredAt]
<1>1. \A x \in alerts :
        /\ x \in Scopes /\ InScope(s, x)
        /\ s.delivery[x].deferred = "pending"
        /\ MarkerVerdict(s, x, t, catalog) = "ready"
        /\ s.watches[x[1]].channels # {}
  BY DEF Promotable, CanMakeEvent, MarkerVerdict
<1>2. PromoteDeferredAvailability(s, a, serial, t, catalog)
        = Admit(closed, a, serial, seen, t)
  BY DEF PromoteDeferredAvailability
<1> HIDE DEF alerts
<1>3. /\ a.queued \subseteq alerts /\ a.evicted \subseteq Ledger(s)
      /\ IsFiniteSet(a.queued) /\ Cardinality(a.queued) \in Nat
      /\ Cardinality(a.evicted) = Greatest(0,
                Cardinality(Ledger(s)) + Cardinality(a.queued) - MaxPending)
  <2>1. alerts \in SUBSET Scopes /\ a \in Admissions(s, alerts)
    BY <1>1 DEF alerts
  <2>2. QED
    BY <2>1, AdmissionTypes
<1>4. /\ closed \in Snapshot /\ closed.watches = s.watches
      /\ closed.pending = s.pending /\ Fits(closed)
      /\ \A x \in alerts : closed.delivery[x].deferredAt \in Int
                           /\ closed.delivery[x].deferredAt <= t
  BY <1>1, CloseMarkersKeeps, CloseMarkersFits
<1> HIDE DEF closed
<1>5. Ledger(closed) = Ledger(s)
  BY <1>4 DEF Ledger
<1>6. \A x \in a.queued : /\ InScope(closed, x)
                          /\ closed.watches[x[1]].channels # {}
                          /\ seen[x] \in Int /\ seen[x] <= t
  BY <1>1, <1>3, <1>4, SameWatchesFit
<1>7. a.queued \subseteq Scopes
  BY <1>1, <1>3
<1> HIDE DEF seen
<1>8. QED
  BY <1>2, <1>3, <1>4, <1>5, <1>6, <1>7, AdmitFits

\* updateBackoff leaves the snapshot fit.
LEMMA UpdateBackoffFits ==
    ASSUME NEW s \in Snapshot, Fits(s), NEW t \in Int, NEW failed \in BOOLEAN,
           NEW retryAfter \in Int
    PROVE  Fits(UpdateBackoff(s, failed, retryAfter, t))
<1> DEFINE new == UpdateBackoff(s, failed, retryAfter, t)
<1>1. /\ new.watches = s.watches /\ new.items = s.items
      /\ new.delivery = s.delivery /\ new.pending = s.pending
  BY DEF UpdateBackoff, Snapshot
<1> HIDE DEF new
<1>2. ScopesFit(new)
  BY <1>1, SameScopesFit DEF Fits
<1>3. LedgerFits(new)
  BY <1>1, SameLedgerFits DEF Fits
<1>4. QED
  BY <1>2, <1>3 DEF Fits, new

\* A copy whose times are set right waits for something only while it is pending.
LEMMA NormalizedCopyFits ==
    ASSUME NEW copy \in Copy, copy.state = "pending" <=> copy.doneAt = None,
           Rests(copy), NEW observedAt \in Int, NEW recovered \in BOOLEAN, NEW t \in Int
    PROVE  LET new == NormalizedCopy(copy, observedAt, recovered, t) IN
           /\ new # None
           /\ new.state = "pending" <=> new.doneAt = None
           /\ Rests(new)
<1> DEFINE late == copy.next # None /\ copy.next > observedAt + Retention
           doneAt == IF copy.doneAt = None THEN None ELSE Least(copy.doneAt, t)
           new == NormalizedCopy(copy, observedAt, recovered, t)
<1>1. new \in Copy /\ new # None
  BY NormalizedCopyType, NoneIsNoRecord
<1>2. DOMAIN copy = {"state", "attempts", "next", "doneAt"} /\ copy.doneAt \in OptTime
  BY DEF Copy
<1>3. CASE late /\ new = [copy EXCEPT !.next = t]
  <2>1. new.state = copy.state /\ new.doneAt = copy.doneAt
    BY <1>2, <1>3
  <2>2. copy.state = "pending"
    BY <1>3 DEF Rests
  <2> HIDE DEF new
  <2>3. QED
    BY <1>1, <2>1, <2>2 DEF new, Rests
<1>4. CASE new = Closed(copy, "expired", t)
  <2>1. new.state = "expired" /\ new.doneAt = t /\ new.next = None
    BY <1>2, <1>4 DEF Closed
  <2> HIDE DEF new
  <2>2. QED
    BY <1>1, <2>1, NoneAssumption DEF new, Rests
<1>5. CASE new = [copy EXCEPT !.doneAt = doneAt]
  <2>1. doneAt = None <=> copy.doneAt = None
    BY <1>2, NoneAssumption DEF OptTime, Least
  <2>2. new.state = copy.state /\ new.next = copy.next /\ new.doneAt = doneAt
    <3> HIDE DEF doneAt
    <3> QED BY <1>2, <1>5
  <2> HIDE DEF new, doneAt
  <2>3. QED
    BY <1>1, <2>1, <2>2 DEF new, Rests
<1>6. \/ late /\ new = [copy EXCEPT !.next = t]
      \/ new = Closed(copy, "expired", t)
      \/ new = [copy EXCEPT !.doneAt = doneAt]
  BY DEF NormalizedCopy
<1>7. QED
  BY <1>3, <1>4, <1>5, <1>6

\* An event whose times are set right fits.
LEMMA NormalizedEventFits ==
    ASSUME NEW s, NEW id, NEW event \in Event, EventFits(s, id, event), NEW t \in Int
    PROVE  EventFits(s, id, NormalizedEvent(event, t))
<1> DEFINE keep == KeepsProviderDeadline(event, t)
           observedAt == IF keep THEN event.observedAt ELSE Least(event.observedAt, t)
           createdAt == IF keep THEN event.createdAt ELSE Least(event.createdAt, t)
           recovered == observedAt # event.observedAt \/ createdAt # event.createdAt
           new == NormalizedEvent(event, t)
<1>1. /\ event.channels \in [Channels -> Copy \cup {None}]
      /\ event.observedAt \in Int /\ event.createdAt \in Int
      /\ DOMAIN event = {"rev", "observedAt", "createdAt", "channels"}
      /\ event # None
  BY NoneIsNoRecord DEF Event
<1>2. observedAt \in Int /\ createdAt \in Int /\ recovered \in BOOLEAN
  BY <1>1 DEF Least
<1> HIDE DEF keep, observedAt, createdAt, recovered
<1>3. /\ new.observedAt = observedAt
      /\ new.createdAt = Greatest(createdAt, observedAt)
      /\ \A c \in Channels : new.channels[c] =
            IF event.channels[c] = None THEN None
            ELSE NormalizedCopy(event.channels[c], observedAt, recovered, t)
  BY <1>1 DEF NormalizedEvent, keep, observedAt, createdAt, recovered
<1> HIDE DEF new
<1>4. /\ InScope(s, id[1])
      /\ \E c \in Channels : event.channels[c] # None
      /\ \A c \in Channels : event.channels[c] # None =>
            /\ event.channels[c].state = "pending" <=> event.channels[c].doneAt = None
            /\ Rests(event.channels[c])
  BY <1>1 DEF EventFits, EventConsistent, EventRests
<1>5. \A c \in Channels :
        /\ new.channels[c] = None <=> event.channels[c] = None
        /\ new.channels[c] # None =>
            /\ new.channels[c].state = "pending" <=> new.channels[c].doneAt = None
            /\ Rests(new.channels[c])
  <2> SUFFICES ASSUME NEW c \in Channels
               PROVE  /\ new.channels[c] = None <=> event.channels[c] = None
                      /\ new.channels[c] # None =>
                          /\ new.channels[c].state = "pending"
                                <=> new.channels[c].doneAt = None
                          /\ Rests(new.channels[c])
    OBVIOUS
  <2>1. CASE event.channels[c] = None
    BY <1>3, <2>1
  <2>2. CASE event.channels[c] # None
    <3> DEFINE copy == event.channels[c]
    <3>1. /\ copy \in Copy /\ Rests(copy)
          /\ copy.state = "pending" <=> copy.doneAt = None
          /\ new.channels[c] = NormalizedCopy(copy, observedAt, recovered, t)
      BY <1>1, <1>3, <1>4, <2>2
    <3> HIDE DEF copy
    <3>2. QED
      BY <1>2, <2>2, <3>1, NormalizedCopyFits DEF copy
  <2>3. QED
    BY <2>1, <2>2
<1>6. new.createdAt >= new.observedAt
  BY <1>2, <1>3 DEF Greatest
<1>7. EventFits(s, id, new)
  BY <1>4, <1>5, <1>6 DEF EventFits, EventConsistent, EventRests
<1>8. QED
  BY <1>7 DEF new

\* normalizePersistedClockSkew leaves the snapshot fit.
LEMMA NormalizePersistedClockSkewFits ==
    ASSUME NEW s \in Snapshot, Fits(s), NEW t \in Int
    PROVE  Fits(NormalizePersistedClockSkew(s, t))
<1> DEFINE new == NormalizePersistedClockSkew(s, t)
<1>1. /\ s.items \in [Scopes -> Item \cup {None}]
      /\ s.delivery \in [Scopes -> Delivery]
      /\ s.pending \in [EventIds -> Event \cup {None}]
  BY DEF Snapshot
<1>2. /\ new.watches = s.watches
      /\ \A x \in Scopes : new.items[x] =
            IF s.items[x] = None THEN None ELSE NormalizedItem(s.items[x], t)
      /\ \A x \in Scopes : new.delivery[x] = NormalizedDelivery(s.delivery[x], t)
      /\ \A id \in EventIds : new.pending[id] =
            IF s.pending[id] = None THEN None ELSE NormalizedEvent(s.pending[id], t)
      /\ new \in Snapshot
  BY NormalizePersistedClockSkewKeeps DEF NormalizePersistedClockSkew
<1> HIDE DEF new
<1>3. ASSUME NEW x \in Scopes
      PROVE  /\ ItemFits(s, x, new.items[x])
             /\ s.items[x] # None =>
                    new.items[x] # None /\ new.items[x].known = s.items[x].known
  <2>1. CASE s.items[x] = None
    BY <1>2, <2>1 DEF ItemFits
  <2>2. CASE s.items[x] # None
    <3> DEFINE i == s.items[x]
    <3>1. /\ i \in Item /\ DOMAIN i = {"status", "known", "checkedAt", "successAt"}
          /\ i.successAt \in OptTime
          /\ ItemFits(s, x, i)
      BY <1>1, <2>2 DEF Item, Fits, ScopesFit
    <3>2. new.items[x] = NormalizedItem(i, t) /\ new.items[x] \in Item \cup {None}
      BY <1>2, <2>2 DEF Snapshot
    <3> HIDE DEF i
    <3>3. /\ NormalizedItem(i, t).status = i.status
          /\ NormalizedItem(i, t).known = i.known
          /\ NormalizedItem(i, t).successAt =
                IF i.successAt = None THEN None
                ELSE IF i.successAt > t + FutureSkew THEN t ELSE i.successAt
      BY <3>1 DEF NormalizedItem
    <3>4. new.items[x] # None
      <4> DEFINE checkedAt == IF i.checkedAt > t + FutureSkew THEN t - PollInterval
                              ELSE i.checkedAt
                 successAt == IF i.successAt = None THEN None
                              ELSE IF i.successAt > t + FutureSkew THEN t
                              ELSE i.successAt
      <4>1. checkedAt \in Int /\ successAt \in OptTime
        BY <3>1, DelaysAssumption DEF Item, OptTime
      <4>2. NormalizedItem(i, t) \in Item
        <5>1. NormalizedItem(i, t) =
                [i EXCEPT !.checkedAt = checkedAt, !.successAt = successAt]
          BY DEF NormalizedItem
        <5> HIDE DEF checkedAt, successAt
        <5>2. QED
          BY <3>1, <4>1, <5>1 DEF Item
      <4>3. QED
        BY <3>2, <4>2, NoneIsNoRecord
    <3>5. i.successAt # None => NormalizedItem(i, t).successAt # None
      BY <3>1, <3>3, NoneAssumption DEF OptTime
    <3>6. QED
      BY <2>2, <3>1, <3>2, <3>3, <3>4, <3>5 DEF i, ItemFits, ItemConsistent
  <2>3. QED
    BY <2>1, <2>2
<1>4. ASSUME NEW x \in Scopes
      PROVE  MarkerFits(s, x, new.items[x], new.delivery[x])
  <2> DEFINE d == s.delivery[x]
             later == new.delivery[x]
  <2>1. /\ d \in Delivery /\ d.deferredAt \in OptTime
        /\ DOMAIN d = {"alertedAt", "deferred", "deferredAt", "deferredRev"}
        /\ MarkerFits(s, x, s.items[x], d)
    BY <1>1 DEF Fits, ScopesFit, Delivery
  <2>2. later = NormalizedDelivery(d, t)
    BY <1>2
  <2> HIDE DEF d, later
  <2>3. /\ later.deferred = d.deferred /\ later.deferredRev = d.deferredRev
        /\ later.deferredAt = IF d.deferredAt = None THEN None ELSE Least(d.deferredAt, t)
    BY <2>1, <2>2 DEF NormalizedDelivery
  <2>4. later.deferredAt = None <=> d.deferredAt = None
    BY <2>1, <2>3, NoneAssumption DEF OptTime, Least
  <2>5. d = NoDelivery => later = NoDelivery
    <3>1. d = NoDelivery => d.alertedAt = None /\ d.deferredAt = None
      BY DEF NoDelivery
    <3>2. d = NoDelivery => later = [d EXCEPT !.alertedAt = None, !.deferredAt = None]
      BY <2>2, <3>1 DEF NormalizedDelivery
    <3>3. d = NoDelivery => [d EXCEPT !.alertedAt = None, !.deferredAt = None] = d
      BY <2>1, <3>1 DEF Delivery
    <3>4. QED
      BY <3>2, <3>3
  <2>6. MarkerFits(s, x, s.items[x], later)
    BY <2>1, <2>3, <2>4, <2>5 DEF MarkerFits, DeliveryConsistent
  <2>7. QED
    BY <1>3, <2>6, MarkerFitsItem DEF later
<1>5. ScopesFit(new)
  BY <1>2, <1>3, <1>4, SameWatchesFit DEF ScopesFit
<1>6. ASSUME NEW id \in EventIds, new.pending[id] # None
      PROVE  s.pending[id] # None /\ EventFits(new, id, new.pending[id])
  <2>1. /\ s.pending[id] # None /\ s.pending[id] \in Event
        /\ new.pending[id] = NormalizedEvent(s.pending[id], t)
        /\ EventFits(s, id, s.pending[id])
    BY <1>1, <1>2, <1>6 DEF Fits, LedgerFits
  <2>2. EventFits(s, id, new.pending[id])
    BY <2>1, NormalizedEventFits
  <2>3. QED
    BY <1>2, <2>1, <2>2, SameWatchesFit
<1>7. LedgerFits(new)
  BY <1>6, LedgerStillFits DEF Fits
<1>8. QED
  BY <1>5, <1>7 DEF Fits, new

\* A snapshot that holds watches and nothing else fits.
LEMMA WatchesAloneFit ==
    ASSUME NEW s, s.items = EmptySnapshot.items,
           s.delivery = EmptySnapshot.delivery, s.pending = EmptySnapshot.pending
    PROVE  Fits(s)
<1>1. ScopesFit(s)
  BY DEF EmptySnapshot, NoDelivery, ScopesFit, ItemFits, MarkerFits, DeliveryConsistent
<1>2. Ledger(s) = {}
  BY DEF EmptySnapshot, Ledger
<1>3. Cardinality(Ledger(s)) <= MaxPending
  BY <1>2, FS_EmptySet, BoundsAssumption
<1>4. LedgerFits(s)
  BY <1>3 DEF LedgerFits, EventFits, EmptySnapshot
<1>5. QED
  BY <1>1, <1>4 DEF Fits

-------------------------------------------------------------------------------
(***************************************************************************)
(* What becomes of stock, markers and events.  Closing, forgetting and     *)
(* editing raise no alert; only an observation and a promotion do, each    *)
(* for the scopes it admits, and they make room with finished events only. *)
(***************************************************************************)

\* From s to new no stock comes back, no alert is raised or deferred, and no event
\* is queued.
RaisesNothing(s, new) ==
    /\ \A x \in Scopes : new.items[x] # None =>
        \/ new.items[x].status = "unknown"
        \/ s.items[x] # None /\ new.items[x].status = s.items[x].status
    /\ \A x \in Scopes :
        /\ new.delivery[x].alertedAt \in {None, s.delivery[x].alertedAt}
        /\ new.delivery[x].deferred = "pending" =>
            /\ s.delivery[x].deferred = "pending"
            /\ new.delivery[x].deferredAt = s.delivery[x].deferredAt
    /\ \A id \in EventIds : new.pending[id] # None => s.pending[id] # None

\* Events leave the ledger only with their scope.
DropsOnlyUnscoped(s, new) ==
    \A id \in EventIds : s.pending[id] # None /\ new.pending[id] = None
                            => ~InScope(new, id[1])

\* The fields of a snapshot.
LEMMA SnapshotFields ==
    ASSUME NEW s \in Snapshot
    PROVE  /\ DOMAIN s = {"watches", "items", "delivery", "pending",
                          "nextEligibleAt", "failures"}
           /\ \A x \in Scopes : s.delivery[x] \in Delivery
           /\ \A x \in Scopes : s.items[x] \in Item \cup {None}
           /\ \A id \in EventIds : s.pending[id] \in Event \cup {None}
           /\ s.nextEligibleAt \in OptTime
BY DEF Snapshot

\* The fields of a marker that was cleared.
LEMMA ClearedFields ==
    ASSUME NEW d \in Delivery, NEW state
    PROVE  /\ ClearDeferredAvailability(d, state).alertedAt = d.alertedAt
           /\ ClearDeferredAvailability(d, state).deferred = state
           /\ DOMAIN ClearDeferredAvailability(d, state) = DOMAIN d
BY DEF ClearDeferredAvailability, Delivery

\* A snapshot whose stock and markers stay raises nothing, if no event is new.
LEMMA SameStockRaisesNothing ==
    ASSUME NEW s \in Snapshot, NEW new, new.items = s.items, new.delivery = s.delivery,
           \A id \in EventIds : new.pending[id] # None => s.pending[id] # None
    PROVE  RaisesNothing(s, new)
BY DEF RaisesNothing

\* Raising nothing twice raises nothing.
LEMMA RaisesNothingIsTransitive ==
    ASSUME NEW s, NEW t, NEW u, RaisesNothing(s, t), RaisesNothing(t, u)
    PROVE  RaisesNothing(s, u)
<1>1. \A x \in Scopes : u.items[x] # None =>
        \/ u.items[x].status = "unknown"
        \/ s.items[x] # None /\ u.items[x].status = s.items[x].status
  BY DEF RaisesNothing
<1>2. \A x \in Scopes :
        /\ u.delivery[x].alertedAt \in {None, s.delivery[x].alertedAt}
        /\ u.delivery[x].deferred = "pending" =>
            /\ s.delivery[x].deferred = "pending"
            /\ u.delivery[x].deferredAt = s.delivery[x].deferredAt
  BY DEF RaisesNothing
<1>3. \A id \in EventIds : u.pending[id] # None => s.pending[id] # None
  BY DEF RaisesNothing
<1>4. QED
  BY <1>1, <1>2, <1>3 DEF RaisesNothing

\* Closing copies concerns neither stock nor markers, and drops no event.
LEMMA CloseCopiesFields ==
    ASSUME NEW s \in Snapshot, NEW t \in Int,
           NEW verdict \in [EventIds -> [Channels -> CopyState]]
    PROVE  LET new == CloseCopies(s, verdict, t) IN
           /\ new.watches = s.watches /\ new.items = s.items
           /\ new.delivery = s.delivery /\ new.nextEligibleAt = s.nextEligibleAt
           /\ \A id \in EventIds : new.pending[id] = None <=> s.pending[id] = None
<1> DEFINE new == CloseCopies(s, verdict, t)
<1>1. DOMAIN s = {"watches", "items", "delivery", "pending", "nextEligibleAt",
                  "failures"}
  BY SnapshotFields
<1>2. /\ new.watches = s.watches /\ new.items = s.items
      /\ new.delivery = s.delivery /\ new.nextEligibleAt = s.nextEligibleAt
      /\ \A id \in EventIds : new.pending[id] =
            IF s.pending[id] = None THEN None
            ELSE CloseEvent(s.pending[id], verdict[id], t)
  BY <1>1 DEF CloseCopies
<1> HIDE DEF new
<1>3. ASSUME NEW id \in EventIds, s.pending[id] # None
      PROVE  new.pending[id] # None
  <2>1. s.pending[id] \in Event
    BY <1>3, SnapshotFields
  <2>2. CloseEvent(s.pending[id], verdict[id], t) \in Event
    BY <2>1, CloseEventType
  <2>3. QED
    BY <1>2, <1>3, <2>2, NoneIsNoRecord
<1>4. QED
  BY <1>2, <1>3 DEF new

\* reconcileDurableDelivery raises nothing.
LEMMA ReconcileDurableDeliveryFields ==
    ASSUME NEW s \in Snapshot, NEW t \in Int
    PROVE  LET new == ReconcileDurableDelivery(s, t) IN
           /\ new.watches = s.watches /\ new.items = s.items
           /\ new.delivery = s.delivery /\ new.nextEligibleAt = s.nextEligibleAt
           /\ \A id \in EventIds : new.pending[id] = None <=> s.pending[id] = None
<1> DEFINE verdict == [id \in EventIds |-> [c \in Channels |->
            LET watch == s.watches[id[1][1]]
                event == s.pending[id]
            IN  IF watch = None THEN "revoked"
                ELSE IF watch.rev # event.rev THEN "superseded"
                ELSE IF c \notin watch.channels THEN "revoked"
                ELSE IF IsExpired(event, t) THEN "expired"
                ELSE "pending"]]
<1>1. verdict \in [EventIds -> [Channels -> CopyState]]
  BY DEF CopyState
<1>2. ReconcileDurableDelivery(s, t) = CloseCopies(s, verdict, t)
  BY DEF ReconcileDurableDelivery
<1> HIDE DEF verdict
<1>3. QED
  BY <1>1, <1>2, CloseCopiesFields

\* reconcileRetiredCatalogState raises nothing, and drops no event.
LEMMA ReconcileRetiredCatalogStateFields ==
    ASSUME NEW s \in Snapshot, NEW t \in Int, NEW catalog
    PROVE  LET new == ReconcileRetiredCatalogState(s, catalog, t) IN
           /\ new.watches = s.watches /\ new.nextEligibleAt = s.nextEligibleAt
           /\ \A id \in EventIds : new.pending[id] = None <=> s.pending[id] = None
           /\ \A x \in Scopes : new.delivery[x].alertedAt = s.delivery[x].alertedAt
           /\ RaisesNothing(s, new)
<1> DEFINE retired == RetiredWatches(s, catalog)
           items == [x \in Scopes |->
                    IF x[1] \in retired /\ s.items[x] # None
                    THEN [s.items[x] EXCEPT !.status = "unknown"]
                    ELSE s.items[x]]
           delivery == [x \in Scopes |->
                    IF x[1] \in retired /\ s.delivery[x].deferred = "pending"
                    THEN ClearDeferredAvailability(s.delivery[x], "superseded")
                    ELSE s.delivery[x]]
           verdict == [id \in EventIds |-> [c \in Channels |->
                IF id[1][1] \in retired THEN "superseded" ELSE "pending"]]
           marked == [s EXCEPT !.items = items, !.delivery = delivery]
           new == CloseCopies(marked, verdict, t)
<1>1. verdict \in [EventIds -> [Channels -> CopyState]]
  BY DEF CopyState
<1>2. ReconcileRetiredCatalogState(s, catalog, t) = new
  BY DEF ReconcileRetiredCatalogState
<1>3. \A x \in Scopes : items[x] \in Item \cup {None} /\ delivery[x] \in Delivery
  <2>1. \A i \in Item : [i EXCEPT !.status = "unknown"] \in Item
    BY DEF Item, Status
  <2>2. "superseded" \in MarkerState \ {"pending"}
    BY DEF MarkerState
  <2> HIDE DEF retired
  <2>3. QED
    BY <2>1, <2>2, ClearedType, SnapshotFields
<1>4. /\ marked \in Snapshot
      /\ marked.watches = s.watches /\ marked.pending = s.pending
      /\ marked.items = items /\ marked.delivery = delivery
      /\ marked.nextEligibleAt = s.nextEligibleAt
  <2>1. items \in [Scopes -> Item \cup {None}] /\ delivery \in [Scopes -> Delivery]
    BY <1>3
  <2> HIDE DEF items, delivery
  <2>2. QED
    BY <2>1 DEF Snapshot
<1>5. ASSUME NEW x \in Scopes, items[x] # None
      PROVE  \/ items[x].status = "unknown"
             \/ s.items[x] # None /\ items[x].status = s.items[x].status
  <2>1. \A i \in Item : [i EXCEPT !.status = "unknown"].status = "unknown"
    BY DEF Item
  <2>2. s.items[x] \in Item \cup {None}
    BY SnapshotFields
  <2> HIDE DEF retired
  <2>3. QED
    BY <1>5, <2>1, <2>2
<1>6. ASSUME NEW x \in Scopes
      PROVE  /\ delivery[x].alertedAt = s.delivery[x].alertedAt
             /\ delivery[x].deferred = "pending" =>
                  /\ s.delivery[x].deferred = "pending"
                  /\ delivery[x].deferredAt = s.delivery[x].deferredAt
  <2>1. s.delivery[x] \in Delivery
    BY SnapshotFields
  <2> HIDE DEF retired
  <2>2. QED
    BY <2>1, ClearedFields
<1> HIDE DEF items, delivery, marked, verdict
<1>7. /\ new.watches = marked.watches /\ new.items = marked.items
      /\ new.delivery = marked.delivery /\ new.nextEligibleAt = marked.nextEligibleAt
      /\ \A id \in EventIds : new.pending[id] = None <=> marked.pending[id] = None
  BY <1>1, <1>4, CloseCopiesFields
<1> HIDE DEF new
<1>8. RaisesNothing(s, new)
  BY <1>4, <1>5, <1>6, <1>7 DEF RaisesNothing
<1>9. QED
  BY <1>2, <1>4, <1>6, <1>7, <1>8

\* pruneForWatchRevision raises nothing, and drops events only with their scope.
LEMMA PruneForWatchRevisionFields ==
    ASSUME NEW s \in Snapshot, NEW ws \in SUBSET Watches, NEW t \in Int
    PROVE  LET new == PruneForWatchRevision(s, ws, t) IN
           /\ new.watches = s.watches /\ new.nextEligibleAt = s.nextEligibleAt
           /\ \A x \in Scopes : x[1] \notin ws => new.items[x] = s.items[x]
           /\ RaisesNothing(s, new)
           /\ DropsOnlyUnscoped(s, new)
<1> DEFINE kept(x) == x[1] \notin ws \/ InScope(s, x)
           dropped == DropScopes(s, ws)
           marked  == CloseStaleMarkers(dropped, ws)
           new     == PruneForWatchRevision(s, ws, t)
<1>1. DOMAIN s = {"watches", "items", "delivery", "pending", "nextEligibleAt",
                  "failures"}
      /\ s.delivery \in [Scopes -> Delivery]
  BY DEF Snapshot
<1>2. /\ DOMAIN dropped = DOMAIN s /\ dropped.watches = s.watches
      /\ dropped.nextEligibleAt = s.nextEligibleAt
      /\ \A x \in Scopes :
            /\ dropped.items[x] = IF kept(x) THEN s.items[x] ELSE None
            /\ dropped.delivery[x] = IF kept(x) THEN s.delivery[x] ELSE NoDelivery
      /\ \A id \in EventIds :
            dropped.pending[id] = IF kept(id[1]) THEN s.pending[id] ELSE None
  <2> HIDE DEF kept
  <2> QED BY <1>1 DEF DropScopes, kept
<1> HIDE DEF dropped
<1>3. /\ DOMAIN marked = DOMAIN s /\ marked.watches = s.watches
      /\ marked.nextEligibleAt = s.nextEligibleAt
      /\ marked.items = dropped.items /\ marked.pending = dropped.pending
      /\ \A x \in Scopes :
            \/ marked.delivery[x] = dropped.delivery[x]
            \/ /\ dropped.delivery[x].deferred = "pending"
               /\ \E state \in {"revoked", "superseded"} :
                    marked.delivery[x]
                        = ClearDeferredAvailability(dropped.delivery[x], state)
  BY <1>1, <1>2 DEF CloseStaleMarkers
<1> HIDE DEF marked
<1> DEFINE verdict == [id \in EventIds |-> [c \in Channels |->
                IF id[1][1] \notin ws \/ marked.pending[id] = None THEN "pending"
                ELSE IF c \notin marked.watches[id[1][1]].channels THEN "revoked"
                ELSE IF marked.pending[id].rev # marked.watches[id[1][1]].rev
                THEN "superseded"
                ELSE "pending"]]
<1>4. /\ new.watches = marked.watches /\ new.items = marked.items
      /\ new.delivery = marked.delivery /\ new.nextEligibleAt = marked.nextEligibleAt
      /\ \A id \in EventIds : new.pending[id] =
            IF marked.pending[id] = None THEN None
            ELSE CloseEvent(marked.pending[id], verdict[id], t)
  <2>1. new = CloseCopies(marked, verdict, t)
    BY DEF PruneForWatchRevision, CloseStaleCopies, marked, dropped
  <2> HIDE DEF new, verdict
  <2>2. QED
    BY <1>1, <1>2, <1>3, <2>1 DEF CloseCopies
<1> HIDE DEF new
<1>5. \A x \in Scopes : marked.items[x] = s.items[x] \/ marked.items[x] = None
  BY <1>2, <1>3
<1>6. ASSUME NEW x \in Scopes
      PROVE  \/ marked.delivery[x] = NoDelivery
             \/ /\ marked.delivery[x].alertedAt = s.delivery[x].alertedAt
                /\ marked.delivery[x].deferred = "pending" =>
                     /\ s.delivery[x].deferred = "pending"
                     /\ marked.delivery[x].deferredAt = s.delivery[x].deferredAt
  <2>1. s.delivery[x] \in Delivery
    BY <1>1
  <2>2. NoDelivery \in Delivery /\ NoDelivery.alertedAt = None
    BY DEF NoDelivery, Delivery, OptTime, MarkerState
  <2>3. CASE marked.delivery[x] = dropped.delivery[x]
    BY <1>2, <2>1, <2>3
  <2>4. CASE \E state \in {"revoked", "superseded"} :
                /\ dropped.delivery[x].deferred = "pending"
                /\ marked.delivery[x]
                        = ClearDeferredAvailability(dropped.delivery[x], state)
    <3>1. PICK state \in {"revoked", "superseded"} :
                /\ dropped.delivery[x].deferred = "pending"
                /\ marked.delivery[x]
                        = ClearDeferredAvailability(dropped.delivery[x], state)
      BY <2>4
    <3>2. marked.delivery[x].alertedAt = dropped.delivery[x].alertedAt
          /\ marked.delivery[x].deferred # "pending"
      BY <1>2, <2>1, <2>2, <3>1, ClearedFields
    <3>3. CASE kept(x)
      BY <1>2, <3>2, <3>3
    <3>4. kept(x)
      BY <1>2, <3>1 DEF NoDelivery
    <3>5. QED
      BY <3>3, <3>4
  <2>5. QED
    BY <1>3, <2>3, <2>4
<1>7. \A id \in EventIds : new.pending[id] # None => s.pending[id] # None
  BY <1>2, <1>3, <1>4, NoneIsNoRecord
<1>8. ASSUME NEW id \in EventIds, s.pending[id] # None, new.pending[id] = None
      PROVE  ~InScope(new, id[1])
  <2>1. CASE marked.pending[id] = None
    <3>1. ~kept(id[1])
      BY <1>2, <1>3, <1>8, <2>1
    <3>2. ~InScope(s, id[1])
      BY <3>1
    <3>3. QED
      BY <1>2, <1>3, <1>4, <3>2 DEF InScope
  <2>2. CASE marked.pending[id] # None
    <3>1. marked.pending[id] \in Event
      BY <1>2, <1>3, <2>2 DEF Snapshot
    <3>2. verdict[id] \in [Channels -> CopyState]
      BY DEF CopyState
    <3> HIDE DEF verdict
    <3>3. CloseEvent(marked.pending[id], verdict[id], t) \in Event
      BY <3>1, <3>2, CloseEventType
    <3>4. QED
      BY <1>4, <1>8, <2>2, <3>3, NoneIsNoRecord
  <2>3. QED
    BY <2>1, <2>2
<1>9. RaisesNothing(s, new)
  <2>1. NoDelivery.alertedAt = None /\ NoDelivery.deferred # "pending"
    BY DEF NoDelivery
  <2>2. \A x \in Scopes :
            /\ new.delivery[x].alertedAt \in {None, s.delivery[x].alertedAt}
            /\ new.delivery[x].deferred = "pending" =>
                /\ s.delivery[x].deferred = "pending"
                /\ new.delivery[x].deferredAt = s.delivery[x].deferredAt
    BY <1>4, <1>6, <2>1
  <2>3. QED
    BY <1>4, <1>5, <1>7, <2>2 DEF RaisesNothing
<1>10. DropsOnlyUnscoped(s, new)
  BY <1>8 DEF DropsOnlyUnscoped
<1>11. ASSUME NEW x \in Scopes, x[1] \notin ws PROVE new.items[x] = s.items[x]
  <2>1. kept(x)
    BY <1>11
  <2>2. dropped.items[x] = s.items[x]
    BY <1>2, <2>1
  <2>3. QED
    BY <1>3, <1>4, <2>2
<1>12. QED
  BY <1>2, <1>3, <1>4, <1>9, <1>10, <1>11 DEF new


\* Deleting a watch raises nothing, and drops events only with their scope.
LEMMA WithoutWatchFields ==
    ASSUME NEW s \in Snapshot, NEW w \in Watches
    PROVE  LET new == WithoutWatch(s, w) IN
           /\ new.nextEligibleAt = s.nextEligibleAt
           /\ \A x \in Scopes : x[1] # w => new.items[x] = s.items[x]
           /\ RaisesNothing(s, new)
           /\ DropsOnlyUnscoped(s, new)
<1> DEFINE new == WithoutWatch(s, w)
<1>1. DOMAIN s = {"watches", "items", "delivery", "pending", "nextEligibleAt",
                  "failures"}
      /\ s.watches \in [Watches -> Watch \cup {None}]
  BY DEF Snapshot
<1>2. /\ new.watches = [s.watches EXCEPT ![w] = None]
      /\ new.nextEligibleAt = s.nextEligibleAt
      /\ \A x \in Scopes :
            /\ new.items[x] = IF x[1] = w THEN None ELSE s.items[x]
            /\ new.delivery[x] = IF x[1] = w THEN NoDelivery ELSE s.delivery[x]
      /\ \A id \in EventIds :
            new.pending[id] = IF id[1][1] = w THEN None ELSE s.pending[id]
  BY <1>1 DEF WithoutWatch
<1> HIDE DEF new
<1>3. RaisesNothing(s, new)
  BY <1>2 DEF RaisesNothing, NoDelivery
<1>4. new.watches[w] = None
  BY <1>1, <1>2
<1>5. DropsOnlyUnscoped(s, new)
  BY <1>2, <1>4 DEF DropsOnlyUnscoped, InScope
<1>6. QED
  BY <1>2, <1>3, <1>5 DEF new

\* What recording does to the stock: only what was observed changes.
LEMMA RecordItemsFields ==
    ASSUME NEW s \in Snapshot, NEW t \in Int, NEW obs,
           DOMAIN obs \subseteq Scopes, \A x \in DOMAIN obs : obs[x] \in Status
    PROVE  LET new == RecordItems(s, obs, t) IN
           /\ new.watches = s.watches /\ new.pending = s.pending
           /\ new.nextEligibleAt = s.nextEligibleAt
           /\ \A x \in Scopes :
                /\ new.items[x] = IF x \in DOMAIN obs THEN Observed(s.items[x], obs[x], t)
                                  ELSE s.items[x]
                /\ new.delivery[x].alertedAt = s.delivery[x].alertedAt
                /\ new.delivery[x].deferred = "pending" =>
                     /\ s.delivery[x].deferred = "pending"
                     /\ new.delivery[x].deferredAt = s.delivery[x].deferredAt
<1> DEFINE new == RecordItems(s, obs, t)
<1>1. DOMAIN s = {"watches", "items", "delivery", "pending", "nextEligibleAt",
                  "failures"}
      /\ s.delivery \in [Scopes -> Delivery]
  BY DEF Snapshot
<1>2. /\ new.watches = s.watches /\ new.pending = s.pending
      /\ new.nextEligibleAt = s.nextEligibleAt
      /\ \A x \in Scopes :
            /\ new.items[x] = IF x \in DOMAIN obs THEN Observed(s.items[x], obs[x], t)
                              ELSE s.items[x]
            /\ \/ new.delivery[x] = s.delivery[x]
               \/ new.delivery[x]
                    = ClearDeferredAvailability(s.delivery[x], "superseded")
  BY <1>1 DEF RecordItems
<1> HIDE DEF new
<1>3. ASSUME NEW x \in Scopes
      PROVE  /\ new.delivery[x].alertedAt = s.delivery[x].alertedAt
             /\ new.delivery[x].deferred = "pending" =>
                  /\ s.delivery[x].deferred = "pending"
                  /\ new.delivery[x].deferredAt = s.delivery[x].deferredAt
  <2>1. s.delivery[x] \in Delivery
    BY <1>1
  <2>2. QED
    BY <1>2, <2>1, ClearedFields
<1>4. QED
  BY <1>2, <1>3 DEF new

\* Recording that nothing is known raises nothing.
LEMMA RecordUnknownFields ==
    ASSUME NEW s \in Snapshot, NEW t \in Int, NEW obs,
           DOMAIN obs \subseteq Scopes, \A x \in DOMAIN obs : obs[x] = "unknown"
    PROVE  LET new == RecordItems(s, obs, t) IN
           /\ new.watches = s.watches /\ new.pending = s.pending
           /\ new.nextEligibleAt = s.nextEligibleAt
           /\ RaisesNothing(s, new)
<1> DEFINE new == RecordItems(s, obs, t)
<1>1. \A x \in DOMAIN obs : obs[x] \in Status
  BY DEF Status
<1>2. /\ new.watches = s.watches /\ new.pending = s.pending
      /\ new.nextEligibleAt = s.nextEligibleAt
      /\ \A x \in Scopes :
           /\ new.items[x] = IF x \in DOMAIN obs THEN Observed(s.items[x], obs[x], t)
                             ELSE s.items[x]
           /\ new.delivery[x].alertedAt = s.delivery[x].alertedAt
           /\ new.delivery[x].deferred = "pending" =>
                /\ s.delivery[x].deferred = "pending"
                /\ new.delivery[x].deferredAt = s.delivery[x].deferredAt
  BY <1>1, RecordItemsFields
<1> HIDE DEF new
<1>3. \A x \in DOMAIN obs : Observed(s.items[x], obs[x], t).status = "unknown"
  BY DEF Observed
<1>4. RaisesNothing(s, new)
  BY <1>2, <1>3 DEF RaisesNothing
<1>5. QED
  BY <1>2, <1>4 DEF new

\* Updating the backoff concerns nothing else.
LEMMA UpdateBackoffFields ==
    ASSUME NEW s \in Snapshot, NEW t \in Int, NEW failed \in BOOLEAN, NEW retryAfter \in Int
    PROVE  LET new == UpdateBackoff(s, failed, retryAfter, t) IN
           /\ new.watches = s.watches /\ new.items = s.items
           /\ new.delivery = s.delivery /\ new.pending = s.pending
<1> DEFINE new == UpdateBackoff(s, failed, retryAfter, t)
<1>1. DOMAIN s = {"watches", "items", "delivery", "pending", "nextEligibleAt",
                  "failures"}
  BY DEF Snapshot
<1>2. \E failures, next :
        new = [s EXCEPT !.failures = failures, !.nextEligibleAt = next]
  BY DEF UpdateBackoff
<1> HIDE DEF new
<1>3. /\ new.watches = s.watches /\ new.items = s.items
      /\ new.delivery = s.delivery /\ new.pending = s.pending
  BY <1>1, <1>2
<1>4. QED
  BY <1>3 DEF new


(***************************************************************************)
(* From s to new the alerts of the scopes `queued` are given an event with *)
(* their next serial number, and those of the scopes `deferred` a marker.  *)
(* Finished events may make room, and other markers may only go.           *)
(***************************************************************************)
IsNext(id, queued, numbers) == id[1] \in queued /\ id[2] = numbers[id[1]] + 1

LedgerFollows(s, new, queued, numbers) ==
    \A id \in EventIds :
        \/ s.pending[id] # None /\ new.pending[id] = None /\ ~IsLive(s, id)
        \/ IF IsNext(id, queued, numbers)
           THEN new.pending[id] # None /\ IsLive(new, id)
           ELSE new.pending[id] = s.pending[id]

MarkersFollow(s, new, queued, deferred, t) ==
    \A x \in Scopes :
        IF x \in queued
        THEN new.delivery[x].alertedAt = t /\ new.delivery[x].deferred # "pending"
        ELSE /\ new.delivery[x].alertedAt = s.delivery[x].alertedAt
             /\ IF x \in deferred
                THEN new.delivery[x].deferred = "pending" /\ new.delivery[x].deferredAt = t
                ELSE new.delivery[x].deferred = "pending" =>
                     /\ s.delivery[x].deferred = "pending"
                     /\ new.delivery[x].deferredAt
                            \in {s.delivery[x].deferredAt, Least(s.delivery[x].deferredAt, t)}

\* From s to new the ready markers of `queued` are promoted.
Promotes(s, new, queued, numbers, t, catalog) ==
    /\ new.watches = s.watches
    /\ new.items = s.items
    /\ LedgerFollows(s, new, queued, numbers)
    /\ MarkersFollow(s, new, queued, {}, t)
    /\ \A x \in Scopes \ queued :
        /\ s.delivery[x].deferred = "pending"
        /\ MarkerVerdict(s, x, t, catalog) \in {"pending", "ready"}
        => new.delivery[x].deferred = "pending"

\* From s to new the observations obs are recorded, the alerts of `queued` queued and
\* those of `deferred` left for later.
Records(s, new, obs, queued, deferred, numbers, t) ==
    /\ new.watches = s.watches
    /\ \A x \in Scopes : new.items[x] =
        IF x \in DOMAIN obs THEN Observed(s.items[x], obs[x], t) ELSE s.items[x]
    /\ LedgerFollows(s, new, queued, numbers)
    /\ MarkersFollow(s, new, queued, deferred, t)
    /\ \A x \in deferred : new.delivery[x].deferredRev = s.watches[x[1]].rev

\* A new event has something to deliver if its watch has a channel.
LEMMA NewEventIsLive ==
    ASSUME NEW s, NEW id, NEW watch \in Watch, NEW observedAt, NEW t \in Int,
           s.pending[id] = NewEvent(watch, observedAt, t), watch.channels # {}
    PROVE  IsLive(s, id)
<1>1. PICK c \in watch.channels : TRUE
  OBVIOUS
<1>2. c \in Channels
  BY DEF Watch
<1>3. DOMAIN NewEvent(watch, observedAt, t) = {"rev", "observedAt", "createdAt", "channels"}
      /\ NewEvent(watch, observedAt, t).channels[c]
            = [state |-> "pending", attempts |-> 0, next |-> t, doneAt |-> None]
  BY <1>1, <1>2 DEF NewEvent
<1>4. [state |-> "pending", attempts |-> 0, next |-> t, doneAt |-> None] # None
  <2>1. [state |-> "pending", attempts |-> 0, next |-> t, doneAt |-> None] \in Copy
    BY BoundsAssumption DEF Copy, CopyState, OptTime
  <2>2. QED
    BY <2>1, NoneIsNoRecord
<1>5. QED
  BY <1>2, <1>3, <1>4 DEF IsLive

\* Queueing the alerts that were admitted.
LEMMA AdmitFollows ==
    ASSUME NEW s \in Snapshot, NEW t \in Int, NEW a, NEW serial, NEW seen,
           a.queued \subseteq Scopes, a.evicted \subseteq Finished(s),
           \A x \in a.queued : /\ s.watches[x[1]] \in Watch
                               /\ s.watches[x[1]].channels # {}
                               /\ seen[x] \in Int,
           NEW new, new = Admit(s, a, serial, seen, t)
    PROVE  /\ new.watches = s.watches /\ new.items = s.items
           /\ new.nextEligibleAt = s.nextEligibleAt
           /\ LedgerFollows(s, new, a.queued, serial)
           /\ MarkersFollow(s, new, a.queued, {}, t)
           /\ \A x \in Scopes : x \notin a.queued => new.delivery[x] = s.delivery[x]
<1>1. DOMAIN s = {"watches", "items", "delivery", "pending", "nextEligibleAt",
                  "failures"}
      /\ s.delivery \in [Scopes -> Delivery]
  BY DEF Snapshot
<1>2. /\ new.watches = s.watches /\ new.items = s.items
      /\ new.nextEligibleAt = s.nextEligibleAt
      /\ \A id \in EventIds : new.pending[id] =
            IF id \in a.evicted THEN None
            ELSE IF id[1] \in a.queued /\ id[2] = serial[id[1]] + 1
            THEN NewEvent(s.watches[id[1][1]], seen[id[1]], t)
            ELSE s.pending[id]
      /\ \A x \in Scopes : new.delivery[x] =
            IF x \notin a.queued THEN s.delivery[x]
            ELSE IF s.delivery[x].deferred = "pending"
            THEN [ClearDeferredAvailability(s.delivery[x], "none")
                    EXCEPT !.alertedAt = t]
            ELSE [s.delivery[x] EXCEPT !.alertedAt = t]
  BY <1>1 DEF Admit
<1>3. ASSUME NEW id \in EventIds, id \in a.evicted
      PROVE  s.pending[id] # None /\ new.pending[id] = None /\ ~IsLive(s, id)
  BY <1>2, <1>3 DEF Finished, Ledger
<1>4. ASSUME NEW id \in EventIds, id \notin a.evicted, IsNext(id, a.queued, serial)
      PROVE  new.pending[id] # None /\ IsLive(new, id)
  <2>1. /\ new.pending[id] = NewEvent(s.watches[id[1][1]], seen[id[1]], t)
        /\ s.watches[id[1][1]] \in Watch /\ s.watches[id[1][1]].channels # {}
        /\ seen[id[1]] \in Int
    BY <1>2, <1>4 DEF IsNext
  <2>2. NewEvent(s.watches[id[1][1]], seen[id[1]], t) \in Event
    BY <2>1, NewEventType
  <2>3. IsLive(new, id)
    BY <2>1, NewEventIsLive
  <2>4. QED
    BY <2>1, <2>2, <2>3, NoneIsNoRecord
<1>5. LedgerFollows(s, new, a.queued, serial)
  <2> SUFFICES ASSUME NEW id \in EventIds
               PROVE  \/ s.pending[id] # None /\ new.pending[id] = None /\ ~IsLive(s, id)
                      \/ IF IsNext(id, a.queued, serial)
                         THEN new.pending[id] # None /\ IsLive(new, id)
                         ELSE new.pending[id] = s.pending[id]
    BY DEF LedgerFollows
  <2>1. id \notin a.evicted /\ ~IsNext(id, a.queued, serial)
            => new.pending[id] = s.pending[id]
    BY <1>2 DEF IsNext
  <2>2. QED
    BY <1>3, <1>4, <2>1
<1>6. MarkersFollow(s, new, a.queued, {}, t)
  <2> SUFFICES ASSUME NEW x \in Scopes, x \in a.queued
               PROVE  new.delivery[x].alertedAt = t /\ new.delivery[x].deferred # "pending"
    BY <1>2 DEF MarkersFollow
  <2>1. s.delivery[x] \in Delivery
    BY <1>1
  <2>2. DOMAIN s.delivery[x] = {"alertedAt", "deferred", "deferredAt", "deferredRev"}
    BY <2>1 DEF Delivery
  <2> DEFINE cleared == ClearDeferredAvailability(s.delivery[x], "none")
  <2>3. cleared.deferred = "none" /\ DOMAIN cleared = DOMAIN s.delivery[x]
    BY <2>1, ClearedFields
  <2> HIDE DEF cleared
  <2>4. /\ [cleared EXCEPT !.alertedAt = t].alertedAt = t
        /\ [cleared EXCEPT !.alertedAt = t].deferred = "none"
    BY <2>2, <2>3
  <2>5. QED
    BY <1>2, <2>2, <2>4 DEF cleared
<1>7. QED
  BY <1>2, <1>5, <1>6

\* Leaving markers.
LEMMA DeferFollows ==
    ASSUME NEW s \in Snapshot, NEW t, NEW xs
    PROVE  LET new == Defer(s, xs, t) IN
           /\ new.watches = s.watches /\ new.items = s.items
           /\ new.nextEligibleAt = s.nextEligibleAt /\ new.pending = s.pending
           /\ \A x \in Scopes :
                IF x \in xs
                THEN /\ new.delivery[x].deferred = "pending"
                     /\ new.delivery[x].deferredAt = t
                     /\ new.delivery[x].deferredRev = s.watches[x[1]].rev
                     /\ new.delivery[x].alertedAt = s.delivery[x].alertedAt
                ELSE new.delivery[x] = s.delivery[x]
<1> DEFINE new == Defer(s, xs, t)
<1>1. DOMAIN s = {"watches", "items", "delivery", "pending", "nextEligibleAt",
                  "failures"}
      /\ s.delivery \in [Scopes -> Delivery]
  BY DEF Snapshot
<1>2. /\ new.watches = s.watches /\ new.items = s.items
      /\ new.nextEligibleAt = s.nextEligibleAt /\ new.pending = s.pending
      /\ \A x \in Scopes : new.delivery[x] =
            IF x \in xs
            THEN [s.delivery[x] EXCEPT !.deferred = "pending", !.deferredAt = t,
                                       !.deferredRev = s.watches[x[1]].rev]
            ELSE s.delivery[x]
  BY <1>1 DEF Defer
<1> HIDE DEF new
<1>3. ASSUME NEW x \in Scopes, x \in xs
      PROVE  /\ new.delivery[x].deferred = "pending"
             /\ new.delivery[x].deferredAt = t
             /\ new.delivery[x].deferredRev = s.watches[x[1]].rev
             /\ new.delivery[x].alertedAt = s.delivery[x].alertedAt
  <2>1. DOMAIN s.delivery[x] = {"alertedAt", "deferred", "deferredAt", "deferredRev"}
    BY <1>1 DEF Delivery
  <2>2. QED
    BY <1>2, <1>3, <2>1
<1>4. QED
  BY <1>2, <1>3 DEF new


\* What CloseMarkers leaves of a marker.
LEMMA CloseMarkersFields ==
    ASSUME NEW s \in Snapshot, NEW t \in Int, NEW catalog
    PROVE  LET new == CloseMarkers(s, t, catalog) IN
           /\ new.watches = s.watches /\ new.items = s.items
           /\ new.nextEligibleAt = s.nextEligibleAt /\ new.pending = s.pending
           /\ \A x \in Scopes :
                /\ new.delivery[x].alertedAt = s.delivery[x].alertedAt
                /\ new.delivery[x].deferred = "pending" =>
                     /\ s.delivery[x].deferred = "pending"
                     /\ new.delivery[x].deferredAt = Least(s.delivery[x].deferredAt, t)
                /\ /\ s.delivery[x].deferred = "pending"
                   /\ MarkerVerdict(s, x, t, catalog) \in {"pending", "ready"}
                   => new.delivery[x].deferred = "pending"
<1> DEFINE verdict(x) == MarkerVerdict(s, x, t, catalog)
           new == CloseMarkers(s, t, catalog)
<1>1. DOMAIN s = {"watches", "items", "delivery", "pending", "nextEligibleAt",
                  "failures"}
      /\ s.delivery \in [Scopes -> Delivery]
  BY DEF Snapshot
<1>2. /\ new.watches = s.watches /\ new.items = s.items
      /\ new.nextEligibleAt = s.nextEligibleAt /\ new.pending = s.pending
      /\ \A x \in Scopes : new.delivery[x] =
            IF s.delivery[x].deferred # "pending" THEN s.delivery[x]
            ELSE IF verdict(x) \in {"pending", "ready"}
            THEN [s.delivery[x] EXCEPT !.deferredAt = Least(@, t)]
            ELSE ClearDeferredAvailability(s.delivery[x], verdict(x))
  <2> HIDE DEF verdict
  <2>1. QED
    BY <1>1 DEF CloseMarkers, verdict
<1> HIDE DEF new
<1>3. ASSUME NEW x \in Scopes
      PROVE  /\ new.delivery[x].alertedAt = s.delivery[x].alertedAt
             /\ new.delivery[x].deferred = "pending" =>
                  /\ s.delivery[x].deferred = "pending"
                  /\ new.delivery[x].deferredAt = Least(s.delivery[x].deferredAt, t)
             /\ /\ s.delivery[x].deferred = "pending"
                /\ verdict(x) \in {"pending", "ready"}
                => new.delivery[x].deferred = "pending"
  <2>1. s.delivery[x] \in Delivery
        /\ DOMAIN s.delivery[x] = {"alertedAt", "deferred", "deferredAt", "deferredRev"}
    BY <1>1 DEF Delivery
  <2>2. /\ ClearDeferredAvailability(s.delivery[x], verdict(x)).alertedAt
                = s.delivery[x].alertedAt
        /\ ClearDeferredAvailability(s.delivery[x], verdict(x)).deferred = verdict(x)
    BY <2>1, ClearedFields
  <2> HIDE DEF verdict
  <2>3. CASE s.delivery[x].deferred # "pending"
    BY <1>2, <2>3
  <2>4. CASE s.delivery[x].deferred = "pending" /\ verdict(x) \in {"pending", "ready"}
    <3>1. new.delivery[x] = [s.delivery[x] EXCEPT !.deferredAt = Least(@, t)]
      BY <1>2, <2>4
    <3>2. QED
      BY <2>1, <2>4, <3>1
  <2>5. CASE s.delivery[x].deferred = "pending" /\ verdict(x) \notin {"pending", "ready"}
    <3>1. new.delivery[x] = ClearDeferredAvailability(s.delivery[x], verdict(x))
      BY <1>2, <2>5
    <3>2. QED
      BY <2>2, <2>5, <3>1
  <2>6. QED
    BY <2>3, <2>4, <2>5
<1>4. QED
  BY <1>2, <1>3 DEF new

\* What a promotion admits: scopes with a marker that is ready.
LEMMA PromotableIsReady ==
    ASSUME NEW s \in Snapshot, NEW t, NEW catalog, NEW live,
           NEW x \in Promotable(s, t, catalog, live)
    PROVE  /\ x \in Scopes
           /\ s.delivery[x].deferred = "pending"
           /\ s.watches[x[1]] \in Watch /\ s.watches[x[1]].enabled
           /\ s.watches[x[1]].channels # {}
           /\ s.items[x] # None /\ s.items[x].status \notin {"unknown", "unavailable"}
           /\ Supported(s.watches[x[1]], catalog)
<1>1. /\ x \in Scopes /\ s.delivery[x].deferred = "pending"
      /\ MarkerVerdict(s, x, t, catalog) = "ready" /\ s.watches[x[1]] # None
      /\ s.watches[x[1]].enabled
  BY DEF Promotable, CanMakeEvent, InScope
<1>2. s.watches[x[1]] \in Watch
  BY <1>1, ScopeTypes DEF Snapshot
<1>3. QED
  BY <1>1, <1>2 DEF MarkerVerdict

\* promoteDeferredAvailability queues alerts whose marker is ready, and keeps the
\* markers that are or may become so.
LEMMA PromotionFollows ==
    ASSUME NEW s \in Snapshot, NEW t \in Int, NEW catalog, NEW live, NEW serial,
           NEW a \in Admissions(s, Promotable(s, t, catalog, live))
    PROVE  LET new == PromoteDeferredAvailability(s, a, serial, t, catalog) IN
           /\ new.nextEligibleAt = s.nextEligibleAt
           /\ a.queued \subseteq Promotable(s, t, catalog, live)
           /\ Promotes(s, new, a.queued, serial, t, catalog)
<1> DEFINE closed == CloseMarkers(s, t, catalog)
           seen == [x \in Scopes |-> closed.delivery[x].deferredAt]
           new == Admit(closed, a, serial, seen, t)
<1>1. a.queued \subseteq Promotable(s, t, catalog, live) /\ a.evicted \subseteq Finished(s)
  BY DEF Admissions
<1>2. \A x \in a.queued : /\ x \in Scopes
                          /\ s.delivery[x].deferred = "pending"
                          /\ s.watches[x[1]] \in Watch
                          /\ s.watches[x[1]].channels # {}
                          /\ MarkerVerdict(s, x, t, catalog) = "ready"
  BY <1>1, PromotableIsReady DEF Promotable
<1>3. /\ closed \in Snapshot
      /\ \A x \in a.queued : closed.delivery[x].deferredAt \in Int
  BY <1>2, CloseMarkersKeeps
<1>4. /\ closed.watches = s.watches /\ closed.items = s.items
      /\ closed.nextEligibleAt = s.nextEligibleAt /\ closed.pending = s.pending
      /\ \A x \in Scopes :
           /\ closed.delivery[x].alertedAt = s.delivery[x].alertedAt
           /\ closed.delivery[x].deferred = "pending" =>
                /\ s.delivery[x].deferred = "pending"
                /\ closed.delivery[x].deferredAt = Least(s.delivery[x].deferredAt, t)
           /\ /\ s.delivery[x].deferred = "pending"
              /\ MarkerVerdict(s, x, t, catalog) \in {"pending", "ready"}
              => closed.delivery[x].deferred = "pending"
  BY CloseMarkersFields
<1>5. PromoteDeferredAvailability(s, a, serial, t, catalog) = new
  BY DEF PromoteDeferredAvailability
<1>6. new = Admit(closed, a, serial, seen, t)
  OBVIOUS
<1> HIDE DEF closed, new
<1>7. Finished(closed) = Finished(s)
  BY <1>4 DEF Finished, Ledger, IsLive
<1>8. \A x \in a.queued : /\ closed.watches[x[1]] \in Watch
                          /\ closed.watches[x[1]].channels # {}
                          /\ seen[x] \in Int
  BY <1>2, <1>3, <1>4
<1> HIDE DEF seen
<1>9. a.queued \subseteq Scopes /\ a.evicted \subseteq Finished(closed)
  BY <1>1, <1>2, <1>7
<1>10. /\ new.watches = closed.watches /\ new.items = closed.items
      /\ new.nextEligibleAt = closed.nextEligibleAt
      /\ LedgerFollows(closed, new, a.queued, serial)
      /\ MarkersFollow(closed, new, a.queued, {}, t)
      /\ \A x \in Scopes : x \notin a.queued => new.delivery[x] = closed.delivery[x]
  BY <1>3, <1>8, <1>9, <1>6, AdmitFollows
<1>11. LedgerFollows(s, new, a.queued, serial)
  BY <1>4, <1>10 DEF LedgerFollows, IsLive
<1>12. MarkersFollow(s, new, a.queued, {}, t)
  <2> SUFFICES ASSUME NEW x \in Scopes
               PROVE  IF x \in a.queued
                      THEN new.delivery[x].alertedAt = t /\ new.delivery[x].deferred # "pending"
                      ELSE /\ new.delivery[x].alertedAt = s.delivery[x].alertedAt
                           /\ new.delivery[x].deferred = "pending" =>
                                /\ s.delivery[x].deferred = "pending"
                                /\ new.delivery[x].deferredAt
                                        = Least(s.delivery[x].deferredAt, t)
    BY DEF MarkersFollow
  <2>1. CASE x \in a.queued
    BY <1>10, <2>1 DEF MarkersFollow
  <2>2. CASE x \notin a.queued
    BY <1>4, <1>10, <2>2
  <2>3. QED
    BY <2>1, <2>2
<1>13. \A x \in Scopes \ a.queued :
        /\ s.delivery[x].deferred = "pending"
        /\ MarkerVerdict(s, x, t, catalog) \in {"pending", "ready"}
        => new.delivery[x].deferred = "pending"
  BY <1>4, <1>10
<1>14. QED
  BY <1>1, <1>4, <1>5, <1>10, <1>11, <1>12, <1>13 DEF Promotes


\* recordObservation queues or defers the alerts of what it finds available.
LEMMA RecordingFollows ==
    ASSUME NEW s \in Snapshot, NEW t \in Int, NEW obs, NEW serial, NEW catalog,
           DOMAIN obs \subseteq Scopes, \A x \in DOMAIN obs : obs[x] \in Status,
           NEW a \in Admissions(s, Alerting(s, obs, t, catalog))
    PROVE  LET new == RecordObservation(s, obs, a, serial, t, catalog) IN
           /\ new.nextEligibleAt = s.nextEligibleAt
           /\ a.queued \subseteq Alerting(s, obs, t, catalog)
           /\ Records(s, new, obs, a.queued, Alerting(s, obs, t, catalog) \ a.queued,
                      serial, t)
<1> DEFINE items == RecordItems(s, obs, t)
           seen == [x \in Scopes |-> t]
           admitted == Admit(items, a, serial, seen, t)
           deferred == Alerting(s, obs, t, catalog) \ a.queued
           new == RecordObservation(s, obs, a, serial, t, catalog)
<1>1. a.queued \subseteq Alerting(s, obs, t, catalog) /\ a.evicted \subseteq Finished(s)
  BY DEF Admissions
<1>2. \A x \in Alerting(s, obs, t, catalog) :
        /\ x \in Scopes
        /\ s.watches[x[1]] # None /\ s.watches[x[1]].enabled
        /\ s.watches[x[1]] \in Watch /\ s.watches[x[1]].channels # {}
  BY ScopeTypes DEF Alerting, CanMakeEvent, InScope, Snapshot
<1>3. /\ items \in Snapshot
      /\ items.watches = s.watches /\ items.pending = s.pending
      /\ items.nextEligibleAt = s.nextEligibleAt
      /\ \A x \in Scopes :
            /\ items.items[x] = IF x \in DOMAIN obs THEN Observed(s.items[x], obs[x], t)
                                ELSE s.items[x]
            /\ items.delivery[x].alertedAt = s.delivery[x].alertedAt
            /\ items.delivery[x].deferred = "pending" =>
                 /\ s.delivery[x].deferred = "pending"
                 /\ items.delivery[x].deferredAt = s.delivery[x].deferredAt
  BY RecordItemsFields, RecordItemsKeeps
<1>4. new = Defer(admitted, deferred, t)
  BY DEF RecordObservation
<1>5. admitted = Admit(items, a, serial, seen, t)
  OBVIOUS
<1> HIDE DEF items, new
<1>6. Finished(items) = Finished(s)
  BY <1>3 DEF Finished, Ledger, IsLive
<1>7. \A x \in a.queued : /\ items.watches[x[1]] \in Watch
                          /\ items.watches[x[1]].channels # {}
                          /\ items.watches[x[1]].enabled
                          /\ items.watches[x[1]] # None
                          /\ seen[x] \in Int
  BY <1>1, <1>2, <1>3
<1> HIDE DEF seen
<1>8. a.queued \subseteq Scopes /\ a.evicted \subseteq Finished(items)
  BY <1>1, <1>2, <1>6
<1>9. /\ admitted \in Snapshot
      /\ admitted.watches = items.watches /\ admitted.items = items.items
      /\ admitted.nextEligibleAt = items.nextEligibleAt
      /\ LedgerFollows(items, admitted, a.queued, serial)
      /\ MarkersFollow(items, admitted, a.queued, {}, t)
      /\ \A x \in Scopes : x \notin a.queued => admitted.delivery[x] = items.delivery[x]
  <2>1. admitted \in Snapshot
    BY <1>3, <1>7, <1>8, AdmitKeeps
  <2>2. \A x \in a.queued : /\ items.watches[x[1]] \in Watch
                            /\ items.watches[x[1]].channels # {}
                            /\ seen[x] \in Int
    BY <1>7
  <2>3. items \in Snapshot
    BY <1>3
  <2> HIDE DEF admitted
  <2>4. /\ admitted.watches = items.watches /\ admitted.items = items.items
        /\ admitted.nextEligibleAt = items.nextEligibleAt
        /\ LedgerFollows(items, admitted, a.queued, serial)
        /\ MarkersFollow(items, admitted, a.queued, {}, t)
        /\ \A x \in Scopes : x \notin a.queued => admitted.delivery[x] = items.delivery[x]
    BY <1>5, <1>8, <2>2, <2>3, AdmitFollows
  <2>5. QED
    BY <2>1, <2>4
<1> HIDE DEF admitted
<1>10. /\ new.watches = admitted.watches /\ new.items = admitted.items
      /\ new.nextEligibleAt = admitted.nextEligibleAt
      /\ new.pending = admitted.pending
      /\ \A x \in Scopes :
            IF x \in deferred
            THEN /\ new.delivery[x].deferred = "pending"
                 /\ new.delivery[x].deferredAt = t
                 /\ new.delivery[x].deferredRev = admitted.watches[x[1]].rev
                 /\ new.delivery[x].alertedAt = admitted.delivery[x].alertedAt
            ELSE new.delivery[x] = admitted.delivery[x]
  BY <1>4, <1>9, DeferFollows
<1>11. deferred \subseteq Scopes /\ \A x \in deferred : x \notin a.queued
  BY <1>2
<1> HIDE DEF deferred
<1>12. LedgerFollows(s, new, a.queued, serial)
  BY <1>3, <1>9, <1>10 DEF LedgerFollows, IsLive
<1>13. MarkersFollow(s, new, a.queued, deferred, t)
  <2> SUFFICES ASSUME NEW x \in Scopes
               PROVE  IF x \in a.queued
                      THEN new.delivery[x].alertedAt = t /\ new.delivery[x].deferred # "pending"
                      ELSE /\ new.delivery[x].alertedAt = s.delivery[x].alertedAt
                           /\ IF x \in deferred
                              THEN /\ new.delivery[x].deferred = "pending"
                                   /\ new.delivery[x].deferredAt = t
                              ELSE new.delivery[x].deferred = "pending" =>
                                /\ s.delivery[x].deferred = "pending"
                                /\ new.delivery[x].deferredAt = s.delivery[x].deferredAt
    BY DEF MarkersFollow
  <2>1. CASE x \in a.queued
    BY <1>9, <1>10, <1>11, <2>1 DEF MarkersFollow
  <2>2. CASE x \notin a.queued
    BY <1>3, <1>9, <1>10, <2>2
  <2>3. QED
    BY <2>1, <2>2
<1>14. \A x \in deferred : new.delivery[x].deferredRev = s.watches[x[1]].rev
  BY <1>3, <1>9, <1>10, <1>11
<1>15. \A x \in Scopes : new.items[x] =
                IF x \in DOMAIN obs THEN Observed(s.items[x], obs[x], t) ELSE s.items[x]
  BY <1>3, <1>9, <1>10
<1>16. QED
  BY <1>1, <1>3, <1>9, <1>10, <1>12, <1>13, <1>14, <1>15 DEF Records, deferred, new

\* Loading a snapshot moves no alert forward in time.
LEMMA NormalizedDeliveryFields ==
    ASSUME NEW d \in Delivery, NEW t \in Int
    PROVE  /\ NormalizedDelivery(d, t).deferred = d.deferred
           /\ NormalizedDelivery(d, t).alertedAt =
                IF d.alertedAt = None THEN None
                ELSE IF d.alertedAt > t + FutureSkew THEN t - Cooldown ELSE d.alertedAt
           /\ NormalizedDelivery(d, t).deferredAt =
                IF d.deferredAt = None THEN None ELSE Least(d.deferredAt, t)
BY DEF NormalizedDelivery, Delivery
===============================================================================
