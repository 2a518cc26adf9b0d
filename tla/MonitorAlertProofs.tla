-------------------------- MODULE MonitorAlertProofs ---------------------------
(***************************************************************************)
(* What the engine tells its user, for every value of the constants: that  *)
(* an alert comes from a transition of an observed stock and is lost to    *)
(* none, that a provider hears of current stock only, that watches and     *)
(* alerts stay inside their limits and intervals, and that the engine      *)
(* implements DeliveryPromise.                                             *)
(*                                                                         *)
(* None of it is inductive either.  On the invariants of                   *)
(* MonitorEngineProofs rest                                                *)
(*   OfferStands, PolledStands   what the cycle has in hand still agrees   *)
(*                               with the stock and the watches in memory; *)
(*   AllSpaced                   the ages and intervals of every snapshot: *)
(*                               on disk, queued and in memory;            *)
(*   BackoffOnRecord             that a host's delay reaches the disk;     *)
(*   PromiseInv                  the order of the snapshots from the disk  *)
(*                               to memory.                                *)
(* Two theorems are about the behaviours without a clock set back or with  *)
(* the back-off kept by every step, and one about those without a reset    *)
(* during a load: the properties are false without that.                   *)
(***************************************************************************)
EXTENDS MonitorEngineProofs

\* A step that leaves stock, markers and events alone.
SameAlerts(s, new) ==
    new.items = s.items /\ new.delivery = s.delivery /\ new.pending = s.pending

\* No alert is raised by a step that changes only watches and copies.
LEMMA SameAlertsIsCalm ==
    ASSUME NEW s, NEW new, SameAlerts(s, new)
    PROVE  RaisesNothing(s, new) /\ DropsOnlyUnscoped(s, new)
BY DEF SameAlerts, RaisesNothing, DropsOnlyUnscoped

\* Replacing a copy concerns neither stock nor markers, and drops no event.
LEMMA WithCopyFields ==
    ASSUME NEW s \in Snapshot, NEW p \in Copies, NEW copy \in Copy,
           IsCurrentPendingChannel(s, p[1], p[2])
    PROVE  LET new == WithCopy(s, p, copy) IN
           /\ new.watches = s.watches /\ new.items = s.items
           /\ new.delivery = s.delivery /\ new.nextEligibleAt = s.nextEligibleAt
           /\ \A id \in EventIds : new.pending[id] = None <=> s.pending[id] = None
<1> DEFINE id == p[1]
           changed == [s.pending[id] EXCEPT !.channels[p[2]] = copy]
           pending == [s.pending EXCEPT ![id] = changed]
           new == WithCopy(s, p, copy)
<1>1. id \in EventIds /\ p[2] \in Channels
  BY CopiesTypes
<1>2. s.pending[id] \in Event /\ s.pending \in [EventIds -> Event \cup {None}]
  BY <1>1 DEF IsCurrentPendingChannel, Snapshot
<1>3. changed \in Event
  <2>1. s.pending[id].channels \in [Channels -> Copy \cup {None}]
    BY <1>2 DEF Event
  <2> DEFINE channels == [s.pending[id].channels EXCEPT ![p[2]] = copy]
  <2>2. channels \in [Channels -> Copy \cup {None}]
    BY <1>1, <2>1
  <2>3. changed = [s.pending[id] EXCEPT !.channels = channels]
    OBVIOUS
  <2> HIDE DEF channels, changed, id
  <2>4. QED
    BY <1>2, <2>2, <2>3 DEF Event
<1>4. new = [s EXCEPT !.pending = pending]
  BY DEF WithCopy
<1> HIDE DEF changed
<1>5. \A i \in EventIds : pending[i] = None <=> s.pending[i] = None
  <2>1. pending[id] = changed /\ \A i \in EventIds : i # id => pending[i] = s.pending[i]
    BY <1>1, <1>2
  <2>2. QED
    BY <1>2, <1>3, <2>1, NoneIsNoRecord
<1>6. DOMAIN s = {"watches", "items", "delivery", "pending", "nextEligibleAt",
                  "failures"}
  BY DEF Snapshot
<1> HIDE DEF pending
<1>7. /\ new.watches = s.watches /\ new.items = s.items
      /\ new.delivery = s.delivery /\ new.nextEligibleAt = s.nextEligibleAt
      /\ new.pending = pending
  BY <1>4, <1>6
<1>8. QED
  BY <1>5, <1>7 DEF new

\* What closes or replaces copies raises nothing and drops nothing.
LEMMA SameLedgerIsCalm ==
    ASSUME NEW s \in Snapshot, NEW new, new.items = s.items, new.delivery = s.delivery,
           \A id \in EventIds : new.pending[id] = None <=> s.pending[id] = None
    PROVE  RaisesNothing(s, new) /\ DropsOnlyUnscoped(s, new)
BY DEF RaisesNothing, DropsOnlyUnscoped

\* Reconciling as a cycle begins raises nothing, and drops no event.
LEMMA ReconciledFields ==
    ASSUME snap \in Snapshot, now \in Int
    PROVE  /\ Reconciled \in Snapshot
           /\ Reconciled.watches = snap.watches
           /\ Reconciled.nextEligibleAt = snap.nextEligibleAt
           /\ RaisesNothing(snap, Reconciled)
           /\ \A x \in Scopes :
                Reconciled.delivery[x].alertedAt = snap.delivery[x].alertedAt
           /\ \A id \in EventIds : Reconciled.pending[id] = None <=> snap.pending[id] = None
<1> DEFINE s == ReconcileDurableDelivery(snap, now)
<1>1. /\ s \in Snapshot
      /\ s.watches = snap.watches /\ s.items = snap.items
      /\ s.delivery = snap.delivery /\ s.nextEligibleAt = snap.nextEligibleAt
      /\ \A id \in EventIds : s.pending[id] = None <=> snap.pending[id] = None
  BY ReconcileDurableDeliveryKeeps, ReconcileDurableDeliveryFields
<1>2. Reconciled = IF catalog = None THEN s
                   ELSE ReconcileRetiredCatalogState(s, catalog, now)
  BY DEF Reconciled
<1> HIDE DEF s
<1>3. RaisesNothing(snap, s)
  BY <1>1, SameLedgerIsCalm
<1>4. CASE catalog = None
  BY <1>1, <1>2, <1>3, <1>4
<1>5. CASE catalog # None
  <2> DEFINE r == ReconcileRetiredCatalogState(s, catalog, now)
  <2>1. /\ r.watches = s.watches /\ r.nextEligibleAt = s.nextEligibleAt
        /\ \A id \in EventIds : r.pending[id] = None <=> s.pending[id] = None
        /\ \A x \in Scopes : r.delivery[x].alertedAt = s.delivery[x].alertedAt
        /\ RaisesNothing(s, r)
    BY <1>1, ReconcileRetiredCatalogStateFields
  <2>2. r \in Snapshot
    BY <1>1, ReconcileRetiredCatalogStateKeeps
  <2>3. Reconciled = r
    BY <1>2, <1>5
  <2> HIDE DEF r
  <2>4. RaisesNothing(snap, r)
    BY <1>3, <2>1, RaisesNothingIsTransitive
  <2>5. QED
    BY <1>1, <2>1, <2>2, <2>3, <2>4
<1>6. QED
  BY <1>4, <1>5

-------------------------------------------------------------------------------
(* The two ways alerts are raised *)

\* The engine promotes some of the ready markers of s.
SomePromoted(s, new, numbers, atStart) ==
    \E queued \in SUBSET Promotable(s, now, atStart, catalog) :
        /\ \A x \in queued : numbers[x] < MaxAlerts
        /\ Promotes(s, new, queued, numbers, now, atStart)

\* The engine records the observations obs, and queues some of the alerts they raise.
SomeRecorded(s, new, obs, numbers, later) ==
    \E queued \in SUBSET Alerting(s, obs, now, catalog) :
        /\ \A x \in queued : numbers[x] < MaxAlerts
        /\ later = [x \in Scopes |-> IF x \in queued THEN numbers[x] + 1 ELSE numbers[x]]
        /\ Records(s, new, obs, queued, Alerting(s, obs, now, catalog) \ queued,
                   numbers, now)

\* Every promotion of the engine is one.
LEMMA PromotionsPromote ==
    ASSUME NEW s \in Snapshot, now \in Int, NEW numbers, NEW atStart,
           NEW p \in Promotions(s, numbers, atStart)
    PROVE  SomePromoted(s, p.snap, numbers, atStart)
           /\ p.snap.nextEligibleAt = s.nextEligibleAt
<1>1. PICK a \in Admissions(s, Promotable(s, now, atStart, catalog)) :
        /\ \A x \in a.queued : numbers[x] < MaxAlerts
        /\ p = [snap   |-> PromoteDeferredAvailability(s, a, numbers, now, atStart),
                serial |-> NextSerial(numbers, a)]
  BY DEF Promotions
<1> DEFINE new == PromoteDeferredAvailability(s, a, numbers, now, atStart)
<1>2. p.snap = new
  BY <1>1
<1>3. /\ new.nextEligibleAt = s.nextEligibleAt
      /\ a.queued \subseteq Promotable(s, now, atStart, catalog)
      /\ Promotes(s, new, a.queued, numbers, now, atStart)
  BY PromotionFollows
<1> HIDE DEF new
<1>4. SomePromoted(s, new, numbers, atStart)
  BY <1>1, <1>3, Zenon DEF SomePromoted
<1>5. QED
  BY <1>2, <1>3, <1>4

\* ... also when the backoff is updated next.
LEMMA PromotedThenSame ==
    ASSUME NEW s, NEW new, NEW same, NEW numbers, NEW atStart,
           SomePromoted(s, new, numbers, atStart), SameAlerts(new, same),
           same.watches = new.watches
    PROVE  SomePromoted(s, same, numbers, atStart)
<1>1. same.items = new.items /\ same.delivery = new.delivery /\ same.pending = new.pending
  BY DEF SameAlerts
<1>2. PICK queued \in SUBSET Promotable(s, now, atStart, catalog) :
        /\ \A x \in queued : numbers[x] < MaxAlerts
        /\ Promotes(s, new, queued, numbers, now, atStart)
  BY DEF SomePromoted
<1>3. LedgerFollows(s, same, queued, numbers)
  BY <1>1, <1>2 DEF Promotes, LedgerFollows, IsLive
<1>4. MarkersFollow(s, same, queued, {}, now)
  BY <1>1, <1>2 DEF Promotes, MarkersFollow
<1>5. Promotes(s, same, queued, numbers, now, atStart)
  BY <1>1, <1>2, <1>3, <1>4 DEF Promotes
<1>6. QED
  BY <1>2, <1>5, Zenon DEF SomePromoted

\* Every recording of the engine is one.
LEMMA RecordingsRecord ==
    ASSUME NEW s \in Snapshot, now \in Int, NEW numbers, NEW obs,
           DOMAIN obs \subseteq Scopes, \A x \in DOMAIN obs : obs[x] \in Status,
           NEW r \in Recordings(s, obs, numbers)
    PROVE  SomeRecorded(s, r.snap, obs, numbers, r.serial)
           /\ r.snap.nextEligibleAt = s.nextEligibleAt
<1>1. PICK a \in Admissions(s, Alerting(s, obs, now, catalog)) :
        /\ \A x \in a.queued : numbers[x] < MaxAlerts
        /\ r = [snap   |-> RecordObservation(s, obs, a, numbers, now, catalog),
                serial |-> NextSerial(numbers, a)]
  BY DEF Recordings
<1> DEFINE new == RecordObservation(s, obs, a, numbers, now, catalog)
<1>2. r.snap = new /\ r.serial = NextSerial(numbers, a)
  BY <1>1
<1>3. /\ new.nextEligibleAt = s.nextEligibleAt
      /\ a.queued \subseteq Alerting(s, obs, now, catalog)
      /\ Records(s, new, obs, a.queued, Alerting(s, obs, now, catalog) \ a.queued,
                 numbers, now)
  BY RecordingFollows
<1> HIDE DEF new
<1>4. SomeRecorded(s, new, obs, numbers, NextSerial(numbers, a))
  BY <1>1, <1>3, Zenon DEF SomeRecorded, NextSerial
<1>5. QED
  BY <1>2, <1>3, <1>4

-------------------------------------------------------------------------------
(* Steps that raise no alert *)

\* From s to new nothing is raised, and no event in scope is dropped.
Calm(s, new) ==
    /\ RaisesNothing(s, new)
    /\ DropsOnlyUnscoped(s, new)
    /\ new.nextEligibleAt = s.nextEligibleAt

\* Nothing comes of leaving memory alone.
LEMMA SameIsCalm ==
    ASSUME NEW s \in Snapshot
    PROVE  Calm(s, s)
BY SameLedgerIsCalm DEF Calm

\* Replacing a copy is calm.
LEMMA WithCopyIsCalm ==
    ASSUME NEW s \in Snapshot, NEW p \in Copies, NEW copy \in Copy,
           IsCurrentPendingChannel(s, p[1], p[2]), NEW new, new = WithCopy(s, p, copy)
    PROVE  Calm(s, new)
<1>1. /\ new.items = s.items /\ new.delivery = s.delivery
      /\ new.nextEligibleAt = s.nextEligibleAt
      /\ \A id \in EventIds : new.pending[id] = None <=> s.pending[id] = None
  BY WithCopyFields
<1>2. QED
  BY <1>1, SameLedgerIsCalm DEF Calm

\* Delivery starts.
LEMMA StartDispatchIsCalm ==
    ASSUME IInv, StartDispatch
    PROVE  Calm(snap, snap')
<1>1. snap \in Snapshot /\ cycle.t \in Int
  BY WorkingCycle DEF StartDispatch, Cycle
<1>2. snap' = ReconcileDurableDelivery(snap, cycle.t)
  BY DEF StartDispatch
<1>3. /\ snap'.items = snap.items /\ snap'.delivery = snap.delivery
      /\ snap'.nextEligibleAt = snap.nextEligibleAt
      /\ \A id \in EventIds : snap'.pending[id] = None <=> snap.pending[id] = None
  BY <1>1, <1>2, ReconcileDurableDeliveryFields
<1>4. QED
  BY <1>1, <1>3, SameLedgerIsCalm DEF Calm

\* What an attempt does: a current copy is tried once more, or fails.
AttemptShape(p, after) ==
    /\ IsCurrentPendingChannel(snap, p[1], p[2])
    /\ after.state \in {"pending", "failed"}
    /\ snap' = WithCopy(snap, p, after)
    /\ Persist("cycle", snap')
    /\ \/ cycle'.pc = "settling"
       \/ cycle'.pc = "attempting" /\ cycle'.cur = p

LEMMA AttemptHasShape ==
    ASSUME IInv, Attempt
    PROVE  \E p \in Copies : \E after \in Copy : AttemptShape(p, after)
<1>1. /\ snap \in Snapshot /\ cycle \in Cycle /\ cycle.t \in Int
      /\ cycle.todo \in SUBSET Copies
  BY WorkingCycle DEF Attempt, Cycle
<1>2. PICK p \in Dispatchable :
        LET copy  == CopyAt(p)
            out   == copy.attempts >= MaxAttempts
            tried == [copy EXCEPT !.attempts = @ + 1,
                                  !.next = cycle.t + RetryDelay(copy.attempts + 1)]
            new   == WithCopy(snap, p, IF out THEN Closed(copy, "failed", cycle.t)
                                       ELSE tried)
        IN  /\ snap' = new
            /\ Persist("cycle", new)
            /\ cycle' = [cycle EXCEPT
                    !.pc   = IF out THEN "settling" ELSE "attempting",
                    !.todo = @ \ {p},
                    !.cur  = IF out THEN None ELSE p]
  BY DEF Attempt
<1> DEFINE copy  == CopyAt(p)
           out   == copy.attempts >= MaxAttempts
           tried == [copy EXCEPT !.attempts = @ + 1,
                                 !.next = cycle.t + RetryDelay(copy.attempts + 1)]
           after == IF out THEN Closed(copy, "failed", cycle.t) ELSE tried
<1>3. p \in Copies /\ IsCurrentPendingChannel(snap, p[1], p[2])
  BY <1>1 DEF Dispatchable, IsDispatchable
<1>4. copy \in Copy /\ copy.state = "pending"
  BY <1>1, <1>3, CopiesTypes DEF CopyAt, IsCurrentPendingChannel, Snapshot, Event
<1>5. after \in Copy /\ after.state \in {"pending", "failed"}
  <2> HIDE DEF copy
  <2>1. CASE out
    <3>1. Closed(copy, "failed", cycle.t).state = "failed"
      BY <1>4 DEF Closed, Copy
    <3>2. QED
      BY <1>1, <1>4, <2>1, <3>1, ClosedType DEF CopyState
  <2>2. CASE ~out
    <3>1. copy.attempts \in Int /\ copy.attempts + 1 \in 0..MaxAttempts
      BY <1>4, <2>2, BoundsAssumption DEF Copy
    <3>2. cycle.t + RetryDelay(copy.attempts + 1) \in Int
      BY <1>1, <3>1, RetryDelayType
    <3>3. tried \in Copy /\ tried.state = "pending"
      BY <1>4, <3>1, <3>2 DEF Copy, OptTime
    <3>4. QED
      BY <2>2, <3>3
  <2>3. QED
    BY <2>1, <2>2
<1>6. /\ snap' = WithCopy(snap, p, after) /\ Persist("cycle", snap')
      /\ \/ cycle'.pc = "settling"
         \/ cycle'.pc = "attempting" /\ cycle'.cur = p
  BY <1>1, <1>2 DEF Cycle, Persist
<1> HIDE DEF after
<1>7. AttemptShape(p, after)
  BY <1>3, <1>5, <1>6 DEF AttemptShape
<1>8. QED
  BY <1>3, <1>5, <1>7, Zenon

\* An attempt is recorded.
LEMMA AttemptIsCalm ==
    ASSUME IInv, Attempt
    PROVE  Calm(snap, snap')
<1>1. snap \in Snapshot
  BY WorkingCycle DEF Attempt
<1>2. PICK p \in Copies, after \in Copy : AttemptShape(p, after)
  BY AttemptHasShape
<1>3. QED
  BY <1>1, <1>2, WithCopyIsCalm DEF AttemptShape

\* An outcome is recorded, or dropped.
LEMMA SettleIsCalm ==
    ASSUME IInv, cycle.pc \in {"resolving", "sending", "answering"},
           NEW outcome, outcome.at \in Int, Settle(outcome)
    PROVE  Calm(snap, snap')
<1>1. snap \in Snapshot /\ now \in Int /\ cycle.cur \in Copies
  BY WorkingCycle DEF IInv, Coherent, InHand
<1>2. CASE snap' = snap
  BY <1>1, <1>2, SameIsCalm
<1>3. CASE IsCurrent(cycle.cur)
  <2>1. snap' = WithCopy(snap, cycle.cur, Settled(cycle.cur, outcome))
    BY <1>3 DEF Settle
  <2>2. Settled(cycle.cur, outcome) \in Copy
    BY <1>1, <1>3, SettledType
  <2>3. QED
    BY <1>1, <1>3, <2>1, <2>2, WithCopyIsCalm DEF IsCurrent
<1>4. QED
  BY <1>2, <1>3 DEF Settle

\* The adapter resolves, contacts, declines, hears from the provider or is aborted.
LEMMA DeliveryIsCalm ==
    ASSUME IInv,
           \/ Resolve \/ ContactProvider \/ DeclineDelivery
           \/ ProviderAnswers \/ DeliveryAborted
    PROVE  Calm(snap, snap')
<1>1. now \in Int /\ \A kind : Outcome(kind).at \in Int
  BY DEF IInv, TypeOK, Outcome
<1>2. snap \in Snapshot
  BY WorkingCycle DEF Resolve, ContactProvider, DeclineDelivery, ProviderAnswers,
                      DeliveryAborted
<1>3. CASE snap' = snap
  BY <1>2, <1>3, SameIsCalm
<1>4. CASE Resolve
  BY <1>1, <1>3, <1>4, SettleIsCalm DEF Resolve
<1>5. CASE DeclineDelivery
  BY <1>1, <1>5, SettleIsCalm DEF DeclineDelivery
<1>6. CASE ProviderAnswers
  <2>1. PICK outcome \in ProviderOutcomes(cycle.cur[2]) : Settle(outcome)
    BY <1>6 DEF ProviderAnswers
  <2>2. outcome.at \in Int
    BY <1>1, <2>1, EnvironmentAssumption DEF ProviderOutcomes
  <2>3. QED
    BY <1>6, <2>1, <2>2, SettleIsCalm DEF ProviderAnswers
<1>7. CASE DeliveryAborted
  BY <1>1, <1>7, SettleIsCalm DEF DeliveryAborted
<1>8. QED
  BY <1>3, <1>4, <1>5, <1>6, <1>7 DEF ContactProvider

\* A new watch is calm: nothing but the watches changes.
LEMMA AddWatchIsCalm ==
    ASSUME IInv, NEW w \in Watches, NEW form \in WatchForms, AddWatch(w, form)
    PROVE  Calm(snap, snap')
<1> DEFINE watches == [snap.watches EXCEPT ![w] = WithRev(form, now)]
<1>1. snap # None /\ snap' = [snap EXCEPT !.watches = watches]
  BY DEF AddWatch, Edit, Ready
<1>2. snap \in Snapshot
  BY <1>1, Editable
<1> HIDE DEF watches
<1>3. DOMAIN snap = {"watches", "items", "delivery", "pending", "nextEligibleAt",
                     "failures"}
  BY <1>2, SnapshotFields
<1>4. /\ snap'.items = snap.items /\ snap'.delivery = snap.delivery
      /\ snap'.nextEligibleAt = snap.nextEligibleAt /\ snap'.pending = snap.pending
  BY <1>1, <1>3
<1>5. QED
  BY <1>2, <1>4, SameLedgerIsCalm DEF Calm

\* Watches are replaced, then pruned.
LEMMA ReplacementIsCalm ==
    ASSUME NEW s \in Snapshot, now \in Int, NEW ws \in SUBSET Watches,
           NEW watches \in [Watches -> Watch \cup {None}], NEW new,
           new = PruneForWatchRevision([s EXCEPT !.watches = watches], ws, now)
    PROVE  Calm(s, new)
<1> DEFINE r == [s EXCEPT !.watches = watches]
<1>1. DOMAIN s = {"watches", "items", "delivery", "pending", "nextEligibleAt",
                  "failures"}
  BY SnapshotFields
<1>2. /\ r.items = s.items /\ r.delivery = s.delivery
      /\ r.nextEligibleAt = s.nextEligibleAt /\ r.pending = s.pending
  BY <1>1
<1>3. r \in Snapshot
  BY DEF Snapshot
<1> HIDE DEF r
<1>4. RaisesNothing(s, r)
  BY <1>2, SameLedgerIsCalm
<1>5. new = PruneForWatchRevision(r, ws, now)
  BY DEF r
<1>6. /\ new.nextEligibleAt = r.nextEligibleAt
      /\ RaisesNothing(r, new) /\ DropsOnlyUnscoped(r, new)
  <2> DEFINE pruned == PruneForWatchRevision(r, ws, now)
  <2>1. /\ pruned.nextEligibleAt = r.nextEligibleAt
        /\ RaisesNothing(r, pruned) /\ DropsOnlyUnscoped(r, pruned)
    BY <1>3, PruneForWatchRevisionFields
  <2> HIDE DEF pruned
  <2>2. pruned = new
    BY <1>5 DEF pruned
  <2>3. QED
    BY <2>1, <2>2
<1>7. RaisesNothing(s, new)
  BY <1>4, <1>6, RaisesNothingIsTransitive
<1>8. DropsOnlyUnscoped(s, new)
  BY <1>2, <1>6 DEF DropsOnlyUnscoped
<1>9. QED
  BY <1>2, <1>6, <1>7, <1>8 DEF Calm

\* One watch is replaced.
LEMMA ReplacedIsCalm ==
    ASSUME NEW s \in Snapshot, now \in Int, NEW w \in Watches, NEW watch \in Watch,
           NEW new, new = Replaced(s, w, watch)
    PROVE  Calm(s, new)
<1> DEFINE watches == [s.watches EXCEPT ![w] = watch]
<1>1. s.watches \in [Watches -> Watch \cup {None}]
  BY DEF Snapshot
<1>2. watches \in [Watches -> Watch \cup {None}]
  BY <1>1
<1>3. new = PruneForWatchRevision([s EXCEPT !.watches = watches], {w}, now)
  BY DEF Replaced
<1> HIDE DEF watches
<1>4. QED
  BY <1>2, <1>3, ReplacementIsCalm

\* The user edits a watch, switches it on or off.
LEMMA WatchEditIsCalm ==
    ASSUME IInv, NEW w \in Watches,
           \/ \E form \in WatchForms : ReplaceWatch(w, form)
           \/ \E enabled \in BOOLEAN : SetWatchEnabled(w, enabled)
    PROVE  Calm(snap, snap')
<1>1. snap # None /\ snap.watches[w] # None
  BY DEF ReplaceWatch, SetWatchEnabled
<1>2. /\ NextRev(w) \in Int /\ snap.watches[w] \in Watch
      /\ snap \in Snapshot /\ now \in Int
  BY <1>1, Editable, NextRevIsLater
<1>3. ASSUME NEW form \in WatchForms, ReplaceWatch(w, form)
      PROVE  Calm(snap, snap')
  <2>1. snap' = Replaced(snap, w, WithRev(form, NextRev(w)))
    BY <1>3 DEF ReplaceWatch, Edit
  <2>2. WithRev(form, NextRev(w)) \in Watch
    BY <1>2, WithRevType
  <2>3. QED
    BY <1>2, <2>1, <2>2, ReplacedIsCalm
<1>4. ASSUME NEW enabled \in BOOLEAN, SetWatchEnabled(w, enabled)
      PROVE  Calm(snap, snap')
  <2> DEFINE watch == [snap.watches[w] EXCEPT !.enabled = enabled, !.rev = NextRev(w)]
  <2>1. snap' = Replaced(snap, w, watch)
    BY <1>4 DEF SetWatchEnabled, Edit
  <2>2. watch \in Watch
    BY <1>2 DEF Watch
  <2> HIDE DEF watch
  <2>3. QED
    BY <1>2, <2>1, <2>2, ReplacedIsCalm
<1>5. QED
  BY <1>3, <1>4

\* Personal Telegram is switched off for every watch that has it.
LEMMA DisablePersonalTelegramIsCalm ==
    ASSUME IInv, DisablePersonalTelegramForAllWatches
    PROVE  Calm(snap, snap')
<1> DEFINE watches == [w \in Watches |->
                IF w \in TelegramWatches
                THEN [snap.watches[w] EXCEPT !.channels = @ \ {Telegram},
                                             !.rev = NextRev(w)]
                ELSE snap.watches[w]]
<1>1. /\ snap # None
      /\ snap' = PruneForWatchRevision([snap EXCEPT !.watches = watches],
                                       TelegramWatches, now)
  BY DEF DisablePersonalTelegramForAllWatches, Edit
<1>2. /\ snap \in Snapshot /\ now \in Int
      /\ snap.watches \in [Watches -> Watch \cup {None}]
  BY <1>1, Editable
<1>3. TelegramWatches \in SUBSET Watches
      /\ \A w \in TelegramWatches : snap.watches[w] # None
  BY DEF TelegramWatches
<1>4. ASSUME NEW w \in TelegramWatches
      PROVE  watches[w] \in Watch
  <2>1. w \in Watches /\ snap.watches[w] \in Watch
    BY <1>2, <1>3
  <2>2. NextRev(w) \in Int
    BY <1>2, <1>3, <2>1, NextRevIsLater
  <2>3. [snap.watches[w] EXCEPT !.channels = @ \ {Telegram}, !.rev = NextRev(w)] \in Watch
    BY <2>1, <2>2 DEF Watch
  <2>4. QED
    BY <2>1, <2>3
<1>5. watches \in [Watches -> Watch \cup {None}]
  <2>1. \A w \in Watches : watches[w] \in Watch \cup {None}
    BY <1>2, <1>4
  <2>2. QED
    BY <2>1
<1> HIDE DEF watches
<1>6. QED
  BY <1>1, <1>2, <1>3, <1>5, ReplacementIsCalm

\* A watch is deleted.
LEMMA DeleteWatchIsCalm ==
    ASSUME IInv, NEW w \in Watches, DeleteWatch(w)
    PROVE  Calm(snap, snap')
<1>1. snap # None /\ snap' = WithoutWatch(snap, w)
  BY DEF DeleteWatch, Edit
<1>2. QED
  BY <1>1, Editable, WithoutWatchFields DEF Calm

\* Everything is deleted.
LEMMA ResetIsCalm ==
    ASSUME IInv, Reset, snap # None
    PROVE  RaisesNothing(snap, snap') /\ DropsOnlyUnscoped(snap, snap')
<1>1. snap' = EmptySnapshot
  BY DEF Reset
<1>2. /\ \A x \in Scopes : EmptySnapshot.items[x] = None
      /\ \A x \in Scopes : EmptySnapshot.delivery[x] = NoDelivery
      /\ \A id \in EventIds : EmptySnapshot.pending[id] = None
      /\ \A w \in Watches : EmptySnapshot.watches[w] = None
  BY DEF EmptySnapshot
<1>3. RaisesNothing(snap, snap')
  BY <1>1, <1>2 DEF RaisesNothing, NoDelivery
<1>4. DropsOnlyUnscoped(snap, snap')
  BY <1>1, <1>2, ScopeTypes DEF DropsOnlyUnscoped, InScope
<1>5. QED
  BY <1>3, <1>4

\* Steps of a loaded engine other than the start of a cycle and an answer of Apple
\* raise nothing.
LEMMA QuietStepsAreCalm ==
    ASSUME IInv, [Next]_vars, Working, ~Wake, ~CheckNow, ~FetchSettles
    PROVE  /\ RaisesNothing(snap, snap')
           /\ DropsOnlyUnscoped(snap, snap')
           /\ Reset \/ snap'.nextEligibleAt = snap.nextEligibleAt
<1>1. snap \in Snapshot /\ snap # None /\ ~loading /\ snap' # None
  BY DEF IInv, TypeOK, Working, Ready
<1>2. CASE snap' = snap
  BY <1>1, <1>2, SameIsCalm DEF Calm
<1>3. CASE CycleStep
  BY <1>2, <1>3, StartDispatchIsCalm, AttemptIsCalm, DeliveryIsCalm
     DEF CycleStep, Calm, EndDispatch, Recheck
<1>4. CASE UserEdit
  BY <1>1, <1>4, AddWatchIsCalm, WatchEditIsCalm, DisablePersonalTelegramIsCalm,
     DeleteWatchIsCalm, ResetIsCalm DEF UserEdit, Calm
<1>5. CASE UNCHANGED vars
  BY <1>2, <1>5 DEF vars
<1>6. CASE \/ Tick \/ SetClockBack \/ WakeWhileBusy \/ Open \/ WakeCold \/ LoadFails
           \/ ReadAgain \/ StartMonitor
           \/ LearnStores \/ WriteSucceeds \/ WriteFails
  BY <1>2, <1>6 DEF Tick, SetClockBack, WakeWhileBusy, Open, WakeCold, LoadFails,
     ReadAgain, StartMonitor, BootWith,
     LearnStores, WriteSucceeds, WriteFails
<1>7. CASE FinishLoad \/ Crash
  BY <1>1, <1>7 DEF FinishLoad, Crash
<1>8. QED
  BY <1>3, <1>4, <1>5, <1>6, <1>7 DEF Next

-------------------------------------------------------------------------------
(* The two steps that raise alerts *)

\* The backoff in memory changes only with a save of the cycle.
SavesBackoff ==
    \/ saves' = saves /\ snap'.nextEligibleAt = snap.nextEligibleAt
    \/ Persist("cycle", snap')

\* A cycle that begins raises nothing, or promotes ready markers.
Begins ==
    \/ /\ RaisesNothing(snap, snap')
       /\ \A id \in EventIds : snap'.pending[id] = None <=> snap.pending[id] = None
    \/ /\ catalog # None
       /\ SomePromoted(Reconciled, snap', serial, catalog)

\* What the start of a cycle does to alerts and backoff.
LEMMA BeginCycleRaises ==
    ASSUME IInv, NEW force \in SUBSET Watches, NEW rung, BeginCycle(force, rung)
    PROVE  Begins /\ SavesBackoff
<1>1. /\ snap \in Snapshot /\ now \in Int /\ serial \in [Scopes -> Nat]
      /\ Sound(snap, added)
  BY DEF BeginCycle, Ready, IInv, TypeOK, AllSound
<1>2. /\ Reconciled \in Snapshot
      /\ Reconciled.nextEligibleAt = snap.nextEligibleAt
      /\ RaisesNothing(snap, Reconciled)
      /\ \A id \in EventIds : Reconciled.pending[id] = None <=> snap.pending[id] = None
  BY <1>1, ReconciledFields
<1>3. CASE BeginBackedOff(rung)
  <2>1. snap' = Reconciled /\ Persist("cycle", Reconciled)
    BY <1>3 DEF BeginBackedOff
  <2>2. SavesBackoff
    BY <2>1 DEF SavesBackoff
  <2>3. QED
    BY <1>2, <2>1, <2>2 DEF Begins
<1>4. CASE BeginWithoutCatalog(force, rung)
  <2> DEFINE xs  == UNION {ScopesOf(Reconciled, w) : w \in Selected(Reconciled, force)}
             obs == [x \in xs |-> "unknown"]
             new == RecordItems(Reconciled, obs, now)
  <2>1. DOMAIN obs \subseteq Scopes /\ \A x \in DOMAIN obs : obs[x] = "unknown"
    BY DEF ScopesOf
  <2>2. snap' = new /\ Persist("cycle", new)
    BY <1>4 DEF BeginWithoutCatalog
  <2> HIDE DEF obs
  <2>3. new.pending = Reconciled.pending /\ RaisesNothing(Reconciled, new)
    BY <1>1, <1>2, <2>1, RecordUnknownFields
  <2> HIDE DEF new
  <2>4. RaisesNothing(snap, new)
    BY <1>2, <2>3, RaisesNothingIsTransitive
  <2>5. SavesBackoff
    BY <2>2 DEF SavesBackoff
  <2>6. QED
    BY <1>2, <2>2, <2>3, <2>4, <2>5 DEF Begins
<1>5. ASSUME NEW p \in Promotions(Reconciled, serial, catalog)
      PROVE  /\ SomePromoted(Reconciled, p.snap, serial, catalog)
             /\ p.snap.nextEligibleAt = snap.nextEligibleAt
             /\ p.snap \in Snapshot
  <2>1. /\ SomePromoted(Reconciled, p.snap, serial, catalog)
        /\ p.snap.nextEligibleAt = Reconciled.nextEligibleAt
    BY <1>1, <1>2, PromotionsPromote
  <2>2. Sound(Reconciled, added)
    BY <1>1, ReconciledKeeps, SoundKept
  <2>3. p.snap \in Snapshot
    BY <1>1, <1>2, <2>2, PromotionsKeep
  <2>4. QED
    BY <1>2, <2>1, <2>3
<1>6. CASE BeginIdle(force, rung)
  <2>1. PICK p \in Promotions(Reconciled, serial, catalog) :
            snap' = p.snap /\ Persist("cycle", p.snap)
    BY <1>6 DEF BeginIdle
  <2>2. catalog # None
    BY <1>6 DEF BeginIdle
  <2>3. Begins
    BY <1>5, <2>1, <2>2 DEF Begins
  <2>4. SavesBackoff
    BY <2>1 DEF SavesBackoff
  <2>5. QED
    BY <2>3, <2>4
<1>7. CASE BeginUnsupported(force, rung)
  <2>1. PICK p \in Promotions(Reconciled, serial, catalog) :
            /\ snap' = UpdateBackoff(p.snap, FALSE, 0, now)
            /\ Persist("cycle", UpdateBackoff(p.snap, FALSE, 0, now))
    BY <1>7 DEF BeginUnsupported
  <2>2. catalog # None
    BY <1>7 DEF BeginUnsupported
  <2>3. /\ SomePromoted(Reconciled, p.snap, serial, catalog)
        /\ p.snap \in Snapshot
    BY <1>5
  <2>4. /\ snap'.watches = p.snap.watches /\ SameAlerts(p.snap, snap')
    <3>1. 0 \in Int /\ FALSE \in BOOLEAN
      OBVIOUS
    <3> DEFINE new == UpdateBackoff(p.snap, FALSE, 0, now)
    <3>2. /\ new.watches = p.snap.watches /\ new.items = p.snap.items
          /\ new.delivery = p.snap.delivery /\ new.pending = p.snap.pending
      BY <1>1, <2>3, <3>1, UpdateBackoffFields
    <3> HIDE DEF new
    <3>3. snap' = new
      BY <2>1 DEF new
    <3>4. QED
      BY <3>2, <3>3 DEF SameAlerts
  <2>5. SomePromoted(Reconciled, snap', serial, catalog)
    BY <2>3, <2>4, PromotedThenSame
  <2>6. SavesBackoff
    BY <2>1 DEF SavesBackoff
  <2>7. QED
    BY <2>2, <2>5, <2>6 DEF Begins
<1>8. CASE BeginPolling(force, rung)
  <2>1. PICK p \in Promotions(Reconciled, serial, catalog) : snap' = p.snap
    BY <1>8 DEF BeginPolling
  <2>2. saves' = saves /\ catalog # None
    BY <1>8 DEF BeginPolling
  <2>3. /\ SomePromoted(Reconciled, snap', serial, catalog)
        /\ snap'.nextEligibleAt = snap.nextEligibleAt
    BY <1>5, <2>1
  <2>4. QED
    BY <2>2, <2>3 DEF Begins, SavesBackoff
<1>9. QED
  BY <1>3, <1>4, <1>6, <1>7, <1>8 DEF BeginCycle

\* What an answer of Apple may speak of: scopes the user still asks for, of watches
\* whose revision is the one the cycle polled.
IsAnswer(obs) ==
    /\ DOMAIN obs \subseteq Scopes
    /\ \A x \in DOMAIN obs :
        obs[x] \in Status /\ IsCurrentRevision(x[1]) /\ InScope(snap, x)

\* An answer is recorded, and after the last one ready markers are promoted.
AnswerIsRecorded(obs, recorded, later) ==
    /\ recorded \in Snapshot
    /\ IsAnswer(obs)
    /\ SomeRecorded(snap, recorded, obs, serial, later)
    /\ snap' = recorded \/ SomePromoted(recorded, snap', later, cycle.catalog)

\* What an answer does to alerts and backoff.
LEMMA FetchSettlesRaises ==
    ASSUME IInv, FetchSettles
    PROVE  /\ \E obs, recorded, later : AnswerIsRecorded(obs, recorded, later)
           /\ SavesBackoff
<1>1. /\ snap \in Snapshot /\ snap # None /\ Sound(snap, added)
      /\ now \in Int /\ cycle \in Cycle
      /\ cycle.failed \in BOOLEAN /\ cycle.retry \in Nat
      /\ serial \in [Scopes -> Nat]
  BY WorkingCycle DEF FetchSettles, IInv, TypeOK, Cycle
<1>2. PICK anchor \in Stores :
        \E skus \in SUBSET cycle.work[anchor] : \E ans \in Answers(skus) :
            RequestSettles(anchor, skus, ans)
  BY DEF FetchSettles
<1>3. PICK skus \in SUBSET cycle.work[anchor] :
        \E ans \in Answers(skus) : RequestSettles(anchor, skus, ans)
  BY <1>2
<1>4. PICK answer \in Answers(skus) : RequestSettles(anchor, skus, answer)
  BY <1>3
<1> DEFINE obs    == [x \in Answered(anchor, skus) |-> answer.status[<<x[2], x[3]>>]]
           failed == cycle.failed \/ answer.failed
           retry  == Greatest(cycle.retry, answer.retry)
<1>5. /\ answer.status \in [skus \X Stores -> Status]
      /\ answer.failed \in BOOLEAN /\ answer.retry \in Nat
  BY AnswerType
<1>6. IsAnswer(obs)
  <2>1. ASSUME NEW x \in Answered(anchor, skus)
        PROVE  /\ x \in Scopes /\ <<x[2], x[3]>> \in skus \X Stores
               /\ IsCurrentRevision(x[1]) /\ InScope(snap, x)
    BY DEF Answered, Scopes
  <2>2. DOMAIN obs = Answered(anchor, skus)
        /\ \A x \in DOMAIN obs : obs[x] = answer.status[<<x[2], x[3]>>]
    OBVIOUS
  <2> HIDE DEF obs
  <2>3. QED
    BY <1>5, <2>1, <2>2 DEF IsAnswer
<1>7. failed \in BOOLEAN
  OBVIOUS
<1>8. retry \in Int
  BY <1>1, <1>5 DEF Greatest
<1>9. PICK r \in Recordings(snap, obs, serial) :
            \/ snap' = r.snap /\ saves' = saves
            \/ \E p \in Promotions(r.snap, r.serial, cycle.catalog) :
                    LET new == UpdateBackoff(p.snap, failed, retry, now) IN
                    snap' = new /\ Persist("cycle", new)
  BY <1>4 DEF RequestSettles
<1> HIDE DEF obs, failed, retry
<1>10. /\ DOMAIN obs \subseteq Scopes
       /\ \A x \in DOMAIN obs : obs[x] \in Status
  BY <1>6 DEF IsAnswer
<1>11. /\ SomeRecorded(snap, r.snap, obs, serial, r.serial)
       /\ r.snap.nextEligibleAt = snap.nextEligibleAt
  BY <1>1, <1>10, RecordingsRecord
<1>12. /\ r.snap \in Snapshot /\ Sound(r.snap, added)
       /\ r.serial \in [Scopes -> Nat]
  BY <1>1, <1>10, RecordingsKeep
<1>13. CASE snap' = r.snap /\ saves' = saves
  <2>1. AnswerIsRecorded(obs, r.snap, r.serial)
    BY <1>6, <1>11, <1>12, <1>13 DEF AnswerIsRecorded
  <2>2. SavesBackoff
    BY <1>11, <1>13 DEF SavesBackoff
  <2>3. QED
    BY <2>1, <2>2
<1>14. CASE \E p \in Promotions(r.snap, r.serial, cycle.catalog) :
                    LET new == UpdateBackoff(p.snap, failed, retry, now) IN
                    snap' = new /\ Persist("cycle", new)
  <2>1. PICK p \in Promotions(r.snap, r.serial, cycle.catalog) :
            /\ snap' = UpdateBackoff(p.snap, failed, retry, now)
            /\ Persist("cycle", UpdateBackoff(p.snap, failed, retry, now))
    BY <1>14
  <2>2. p.snap \in Snapshot
    BY <1>1, <1>12, PromotionsKeep
  <2>3. SomePromoted(r.snap, p.snap, r.serial, cycle.catalog)
    BY <1>1, <1>12, PromotionsPromote
  <2> DEFINE new == UpdateBackoff(p.snap, failed, retry, now)
  <2>4. /\ new.watches = p.snap.watches /\ new.items = p.snap.items
        /\ new.delivery = p.snap.delivery /\ new.pending = p.snap.pending
    BY <1>1, <1>7, <1>8, <2>2, UpdateBackoffFields
  <2> HIDE DEF new
  <2>5. snap' = new
    BY <2>1 DEF new
  <2>6. SomePromoted(r.snap, snap', r.serial, cycle.catalog)
    BY <2>3, <2>4, <2>5, PromotedThenSame DEF SameAlerts
  <2>7. AnswerIsRecorded(obs, r.snap, r.serial)
    BY <1>6, <1>11, <1>12, <2>6 DEF AnswerIsRecorded
  <2>8. SavesBackoff
    BY <2>1 DEF SavesBackoff
  <2>9. QED
    BY <2>7, <2>8
<1>15. QED
  BY <1>9, <1>13, <1>14

-------------------------------------------------------------------------------
(***************************************************************************)
(* What a provider hears, and what is polled.  The resolved delivery holds *)
(* until the provider is contacted, because the catalog only learns stores *)
(* while the worker runs and every edit that could change the stock of the *)
(* watch aborts the delivery.  A watch that is polled under its present    *)
(* revision is enabled and supported, because every edit gives it another. *)
(***************************************************************************)

\* What is about to be sent is available, of a watch the catalog supports.
OfferStands ==
    cycle.pc = "sending" /\ ~cycle.aborted =>
        /\ catalog # None
        /\ snap.watches[cycle.cur[1][1][1]] # None
        /\ Supported(snap.watches[cycle.cur[1][1][1]], catalog)
        /\ snap.items[cycle.cur[1][1]] # None
        /\ snap.items[cycle.cur[1][1]].status = "available"

\* What is polled and has not been edited since is enabled and supported.
PolledStands ==
    cycle.pc = "fetching" =>
        /\ catalog # None
        /\ \A w \in Watches : cycle.revs[w] # None =>
            /\ w \in added
            /\ snap.watches[w] # None =>
                /\ gen[w] >= cycle.revs[w].gen
                /\ gen[w] = cycle.revs[w].gen =>
                    /\ snap.watches[w].enabled
                    /\ Supported(snap.watches[w], catalog)

\* The catalog stays, or learns stores.
CatalogGrows ==
    catalog # None =>
        /\ catalog' # None
        /\ \A watch : Supported(watch, catalog) => Supported(watch, catalog')

\* Steps that end the polling or have not begun it.
LEMMA NotFetching ==
    ASSUME cycle'.pc # "fetching"
    PROVE  PolledStands'
BY DEF PolledStands

\* Steps that do not send.
LEMMA NotSending ==
    ASSUME \/ cycle'.pc # "sending"
           \/ cycle'.aborted
    PROVE  OfferStands'
BY DEF OfferStands

\* What steps of others have to show.
LEMMA ElsewhereStands ==
    ASSUME OfferStands, PolledStands, CatalogGrows, cycle' = cycle, snap' = snap,
           gen' = gen, added' = added
    PROVE  OfferStands' /\ PolledStands'
<1>1. OfferStands'
  BY DEF OfferStands, CatalogGrows
<1>2. PolledStands'
  BY DEF PolledStands, CatalogGrows
<1>3. QED
  BY <1>1, <1>2

\* Learning stores leaves every supported watch supported.
LEMMA LearnStoresGrows ==
    ASSUME LearnStores
    PROVE  CatalogGrows
<1>1. /\ catalog.stores \subseteq catalog'.stores /\ catalog'.skus = catalog.skus
      /\ catalog' # None
  BY DEF LearnStores
<1>2. QED
  BY <1>1 DEF CatalogGrows, Supported

\* A poll begins with watches that are enabled and supported.
LEMMA BeginCycleStands ==
    ASSUME IInv, NEW force \in SUBSET Watches, NEW rung, BeginCycle(force, rung)
    PROVE  OfferStands' /\ PolledStands'
<1>1. /\ snap \in Snapshot /\ now \in Int /\ serial \in [Scopes -> Nat]
      /\ Sound(snap, added) /\ gen \in [Watches -> Nat]
      /\ added' = added /\ gen' = gen /\ catalog' = catalog
  BY DEF BeginCycle, Ready, IInv, TypeOK, AllSound
<1>2. Reconciled \in Snapshot /\ Reconciled.watches = snap.watches
      /\ Sound(Reconciled, added)
  BY <1>1, ReconciledKeeps, SoundKept
<1>3. CASE cycle' = Recording
  BY <1>3, NotFetching, NotSending DEF Recording, IdleCycle
<1>4. CASE BeginPolling(force, rung)
  <2> DEFINE valid == Selected(Reconciled, force) \ RetiredWatches(Reconciled, catalog)
             revs == [w \in Watches |->
                        IF w \in valid
                        THEN [rev |-> Reconciled.watches[w].rev, gen |-> gen[w]]
                        ELSE None]
  <2>1. cycle'.pc = "fetching" /\ cycle'.revs = revs /\ catalog # None
    BY <1>4 DEF BeginPolling, IdleCycle
  <2>2. PICK p \in Promotions(Reconciled, serial, catalog) : snap' = p.snap
    BY <1>4 DEF BeginPolling
  <2>3. snap'.watches = snap.watches
    BY <1>1, <1>2, <2>2, PromotionsKeep
  <2>4. ASSUME NEW w \in Watches, cycle'.revs[w] # None
        PROVE  /\ w \in added'
               /\ gen'[w] >= cycle'.revs[w].gen
               /\ snap'.watches[w].enabled
               /\ Supported(snap'.watches[w], catalog')
    <3>1. w \in valid
      BY <2>1, <2>4
    <3>2. cycle'.revs[w].gen = gen[w]
      BY <2>1, <3>1
    <3>3. gen[w] \in Nat
      BY <1>1
    <3>4. /\ snap'.watches[w] # None /\ snap'.watches[w].enabled
          /\ Supported(snap'.watches[w], catalog)
      BY <1>2, <2>3, <3>1 DEF Selected, RetiredWatches
    <3>5. w \in added
      BY <1>1, <2>3, <3>4 DEF Sound
    <3>6. QED
      BY <1>1, <3>2, <3>3, <3>4, <3>5
  <2> HIDE DEF revs, valid
  <2>5. PolledStands'
    BY <1>1, <2>1, <2>4 DEF PolledStands
  <2>6. QED
    BY <2>1, <2>5, NotSending
<1>5. QED
  BY <1>3, <1>4 DEF BeginCycle, BeginBackedOff, BeginWithoutCatalog, BeginIdle,
                    BeginUnsupported

\* An answer leaves the cycle polling the same revisions, or ends the polling.
LEMMA PollingGoesOn ==
    ASSUME cycle \in Cycle, FetchSettles
    PROVE  \/ cycle'.pc = "fetching" /\ cycle'.revs = cycle.revs
           \/ cycle'.pc = "recording"
<1>1. PICK anchor \in Stores :
          \E skus \in SUBSET cycle.work[anchor] : \E answer \in Answers(skus) :
              RequestSettles(anchor, skus, answer)
  BY DEF FetchSettles
<1>2. PICK skus \in SUBSET cycle.work[anchor] :
          \E answer \in Answers(skus) : RequestSettles(anchor, skus, answer)
  BY <1>1
<1>3. PICK answer \in Answers(skus) : RequestSettles(anchor, skus, answer)
  BY <1>2
<1> DEFINE work == [cycle.work EXCEPT ![anchor] = @ \ skus]
           polled == [cycle EXCEPT !.t = now, !.work = work,
                                   !.failed = cycle.failed \/ answer.failed,
                                   !.retry = Greatest(cycle.retry, answer.retry)]
<1>4. \/ cycle' = polled
      \/ cycle' = [polled EXCEPT !.pc = "recording",
                          !.revs = [w \in Watches |-> None],
                          !.failed = FALSE, !.retry = 0]
  BY <1>3 DEF RequestSettles
<1>5. DOMAIN polled = DOMAIN cycle /\ polled.pc = cycle.pc /\ polled.revs = cycle.revs
  BY DEF Cycle
<1>6. cycle.pc = "fetching"
  BY DEF FetchSettles
<1> HIDE DEF polled
<1>7. QED
  BY <1>4, <1>5, <1>6 DEF Cycle

\* An answer changes no watch.
LEMMA FetchSettlesStands ==
    ASSUME IInv, PolledStands, FetchSettles
    PROVE  OfferStands' /\ PolledStands'
<1>1. snap \in Snapshot /\ Sound(snap, added) /\ now \in Int /\ cycle \in Cycle
      /\ serial \in [Scopes -> Nat] /\ cycle.pc = "fetching"
      /\ added' = added /\ gen' = gen /\ catalog' = catalog
  BY WorkingCycle DEF FetchSettles, IInv, TypeOK
<1>2. snap'.watches = snap.watches
  <2>1. PICK obs, recorded, later : AnswerIsRecorded(obs, recorded, later)
    BY FetchSettlesRaises
  <2>2. recorded.watches = snap.watches
    BY <2>1 DEF AnswerIsRecorded, SomeRecorded, Records
  <2>3. QED
    BY <2>1, <2>2 DEF AnswerIsRecorded, SomePromoted, Promotes
<1>3. \/ cycle'.pc = "fetching" /\ cycle'.revs = cycle.revs
      \/ cycle'.pc = "recording"
  BY <1>1, PollingGoesOn
<1>4. PolledStands'
  BY <1>1, <1>2, <1>3 DEF PolledStands
<1>5. QED
  BY <1>3, <1>4, NotSending

\* The steps of a delivery.
LEMMA DeliveryStands ==
    ASSUME IInv, OfferStands,
           \/ StartDispatch \/ Attempt \/ EndDispatch \/ Recheck
           \/ Resolve \/ ContactProvider \/ DeclineDelivery
           \/ ProviderAnswers \/ DeliveryAborted
    PROVE  OfferStands' /\ PolledStands'
<1>1. cycle \in Cycle
  BY DEF IInv, TypeOK
<1>2. NextCandidate.pc = "dispatching"
      /\ [NextCandidate EXCEPT !.pc = "settling"].pc = "settling"
  BY <1>1 DEF NextCandidate, Cycle
<1>3. \A outcome : Settle(outcome) => cycle'.pc \in {"dispatching", "settling"}
  BY <1>2 DEF Settle
<1>4. CASE StartDispatch \/ EndDispatch
  BY <1>1, <1>4, NotFetching, NotSending DEF StartDispatch, EndDispatch, Cycle
<1>5. CASE Attempt
  <2>1. PICK p \in Dispatchable, out \in BOOLEAN :
            cycle' = [cycle EXCEPT !.pc   = IF out THEN "settling" ELSE "attempting",
                                   !.todo = @ \ {p},
                                   !.cur  = IF out THEN None ELSE p]
    BY <1>5 DEF Attempt
  <2>2. cycle'.pc \in {"settling", "attempting"}
    BY <1>1, <2>1 DEF Cycle
  <2>3. QED
    BY <2>2, NotFetching, NotSending
<1>6. CASE Recheck
  BY <1>1, <1>2, <1>6, NotFetching, NotSending DEF Recheck, Cycle
<1>7. CASE \E outcome : Settle(outcome)
  BY <1>3, <1>7, NotFetching, NotSending
<1>8. CASE Resolve
  <2>1. CASE Resolvable(cycle.cur) /\ cycle' = [cycle EXCEPT !.pc = "sending"]
             /\ snap' = snap
    <3>1. cycle'.pc = "sending" /\ cycle'.cur = cycle.cur
      BY <1>1, <2>1 DEF Cycle
    <3>2. catalog' = catalog
      BY <1>8 DEF Resolve
    <3>3. OfferStands'
      BY <2>1, <3>1, <3>2 DEF OfferStands, Resolvable, StillOffered, CanMakeEvent, InScope
    <3>4. QED
      BY <3>1, <3>3, NotFetching
  <2>2. QED
    BY <1>7, <1>8, <2>1 DEF Resolve
<1>9. CASE ContactProvider
  BY <1>1, <1>9, NotFetching, NotSending DEF ContactProvider, Cycle
<1>10. QED
  BY <1>4, <1>5, <1>6, <1>7, <1>8, <1>9
     DEF DeclineDelivery, ProviderAnswers, DeliveryAborted

\* What every edit has to show: other watches and their stock stay, and an edited
\* watch was there before or is new.
LEMMA EditStands ==
    ASSUME IInv, OfferStands, PolledStands, NEW ws \in SUBSET Watches, NEW new,
           Edit(ws, new), added \subseteq added',
           \A w \in Watches \ ws : new.watches[w] = snap.watches[w],
           \A x \in Scopes : x[1] \notin ws => new.items[x] = snap.items[x],
           \A w \in ws : new.watches[w] # None => snap.watches[w] # None \/ w \notin added
    PROVE  OfferStands' /\ PolledStands'
<1> DEFINE aborted == \/ cycle.aborted
                      \/ /\ cycle.pc \in {"resolving", "sending", "answering"}
                         /\ cycle.cur[1][1][1] \in ws
<1>1. /\ cycle' = [cycle EXCEPT !.aborted = aborted]
      /\ snap' = new /\ catalog' = catalog
      /\ gen' = [w \in Watches |-> IF w \in ws THEN gen[w] + 1 ELSE gen[w]]
  BY DEF Edit
<1>2. cycle \in Cycle /\ gen \in [Watches -> Nat]
      /\ (cycle.pc \in InHand => cycle.cur \in Copies)
  BY DEF IInv, TypeOK, Coherent
<1>3. /\ cycle'.pc = cycle.pc /\ cycle'.cur = cycle.cur /\ cycle'.revs = cycle.revs
      /\ cycle'.aborted = aborted
  <2> HIDE DEF aborted
  <2>1. QED
    BY <1>1, <1>2 DEF Cycle
<1>4. OfferStands'
  <2> SUFFICES ASSUME cycle.pc = "sending", ~aborted
               PROVE  OfferStands'
    BY <1>3 DEF OfferStands
  <2>1. cycle.cur[1][1] \in Scopes /\ cycle.cur[1][1][1] \in Watches \ ws
    BY <1>2, CopiesTypes, ScopeTypes DEF InHand
  <2>2. /\ snap'.watches[cycle.cur[1][1][1]] = snap.watches[cycle.cur[1][1][1]]
        /\ snap'.items[cycle.cur[1][1]] = snap.items[cycle.cur[1][1]]
    BY <1>1, <2>1
  <2>3. QED
    BY <1>1, <1>3, <2>2 DEF OfferStands
<1>5. PolledStands'
  <2> SUFFICES ASSUME cycle.pc = "fetching", NEW w \in Watches, cycle.revs[w] # None
               PROVE  /\ w \in added'
                      /\ snap'.watches[w] # None =>
                            /\ gen'[w] >= cycle.revs[w].gen
                            /\ gen'[w] = cycle.revs[w].gen =>
                                /\ snap'.watches[w].enabled
                                /\ Supported(snap'.watches[w], catalog)
    BY <1>1, <1>3 DEF PolledStands
  <2>1. w \in added /\ gen[w] \in Nat /\ cycle.revs[w].gen \in Nat
    BY <1>2 DEF PolledStands, Cycle, Revision
  <2>2. CASE w \in ws
    <3>1. gen'[w] = gen[w] + 1
      BY <1>1, <2>2
    <3>2. snap'.watches[w] # None => snap.watches[w] # None
      BY <1>1, <2>1, <2>2
    <3>3. snap.watches[w] # None => gen[w] >= cycle.revs[w].gen
      BY DEF PolledStands
    <3>4. QED
      BY <2>1, <3>1, <3>2, <3>3
  <2>3. CASE w \notin ws
    <3>1. gen'[w] = gen[w] /\ snap'.watches[w] = snap.watches[w]
      BY <1>1, <2>3
    <3>2. QED
      BY <2>1, <3>1 DEF PolledStands
  <2>4. QED
    BY <2>2, <2>3
<1>6. QED
  BY <1>4, <1>5

\* A new watch.
LEMMA AddWatchStands ==
    ASSUME IInv, OfferStands, PolledStands, NEW w \in Watches, NEW form \in WatchForms,
           AddWatch(w, form)
    PROVE  OfferStands' /\ PolledStands'
<1> DEFINE watches == [snap.watches EXCEPT ![w] = WithRev(form, now)]
           new == [snap EXCEPT !.watches = watches]
<1>1. snap # None /\ w \notin added /\ added' = added \cup {w} /\ Edit({w}, new)
  BY DEF AddWatch, Edit, Ready
<1>2. /\ snap \in Snapshot /\ snap.watches \in [Watches -> Watch \cup {None}]
  BY <1>1, Editable
<1>3. \A v \in Watches \ {w} : watches[v] = snap.watches[v]
  BY <1>2
<1> HIDE DEF watches
<1>4. new.watches = watches /\ new.items = snap.items
  BY <1>2, SnapshotFields
<1> HIDE DEF new
<1>5. QED
  BY <1>1, <1>3, <1>4, EditStands

\* Watches are replaced, then pruned.
LEMMA ReplacementStands ==
    ASSUME IInv, OfferStands, PolledStands, snap # None, NEW ws \in SUBSET Watches,
           NEW watches \in [Watches -> Watch \cup {None}],
           \A w \in ws : snap.watches[w] # None,
           \A w \in Watches \ ws : watches[w] = snap.watches[w],
           Edit(ws, PruneForWatchRevision([snap EXCEPT !.watches = watches], ws, now)),
           UNCHANGED added
    PROVE  OfferStands' /\ PolledStands'
<1> DEFINE r == [snap EXCEPT !.watches = watches]
           new == PruneForWatchRevision(r, ws, now)
<1>1. snap \in Snapshot /\ now \in Int
  BY Editable
<1>2. r \in Snapshot
  BY <1>1 DEF Snapshot
<1>3. r.watches = watches /\ r.items = snap.items
  BY <1>1, SnapshotFields
<1> HIDE DEF r
<1>4. new.watches = r.watches /\ \A x \in Scopes : x[1] \notin ws => new.items[x] = r.items[x]
  BY <1>1, <1>2, PruneForWatchRevisionFields
<1>5. Edit(ws, new)
  BY DEF r
<1> HIDE DEF new
<1>6. QED
  BY <1>3, <1>4, <1>5, EditStands

\* One watch is replaced.
LEMMA ReplacedStands ==
    ASSUME IInv, OfferStands, PolledStands, snap # None, NEW w \in Watches,
           NEW watch \in Watch, snap.watches[w] # None,
           Edit({w}, Replaced(snap, w, watch)), UNCHANGED added
    PROVE  OfferStands' /\ PolledStands'
<1> DEFINE watches == [snap.watches EXCEPT ![w] = watch]
<1>1. snap.watches \in [Watches -> Watch \cup {None}]
  BY Editable
<1>2. watches \in [Watches -> Watch \cup {None}]
      /\ \A v \in Watches \ {w} : watches[v] = snap.watches[v]
  BY <1>1
<1>3. Edit({w}, PruneForWatchRevision([snap EXCEPT !.watches = watches], {w}, now))
  BY DEF Replaced
<1> HIDE DEF watches
<1>4. QED
  BY <1>2, <1>3, ReplacementStands

\* The user edits a watch, switches it on or off.
LEMMA WatchEditStands ==
    ASSUME IInv, OfferStands, PolledStands, NEW w \in Watches,
           \/ \E form \in WatchForms : ReplaceWatch(w, form)
           \/ \E enabled \in BOOLEAN : SetWatchEnabled(w, enabled)
    PROVE  OfferStands' /\ PolledStands'
<1>1. snap # None /\ snap.watches[w] # None /\ UNCHANGED added
  BY DEF ReplaceWatch, SetWatchEnabled
<1>2. NextRev(w) \in Int /\ snap.watches[w] \in Watch
  BY <1>1, Editable, NextRevIsLater
<1>3. ASSUME NEW form \in WatchForms, ReplaceWatch(w, form)
      PROVE  OfferStands' /\ PolledStands'
  <2>1. Edit({w}, Replaced(snap, w, WithRev(form, NextRev(w))))
    BY <1>3 DEF ReplaceWatch
  <2>2. WithRev(form, NextRev(w)) \in Watch
    BY <1>2, WithRevType
  <2>3. QED
    BY <1>1, <2>1, <2>2, ReplacedStands
<1>4. ASSUME NEW enabled \in BOOLEAN, SetWatchEnabled(w, enabled)
      PROVE  OfferStands' /\ PolledStands'
  <2> DEFINE watch == [snap.watches[w] EXCEPT !.enabled = enabled, !.rev = NextRev(w)]
  <2>1. Edit({w}, Replaced(snap, w, watch))
    BY <1>4 DEF SetWatchEnabled
  <2>2. watch \in Watch
    BY <1>2 DEF Watch
  <2> HIDE DEF watch
  <2>3. QED
    BY <1>1, <2>1, <2>2, ReplacedStands
<1>5. QED
  BY <1>3, <1>4

\* Personal Telegram is switched off for every watch that has it.
LEMMA DisablePersonalTelegramStands ==
    ASSUME IInv, OfferStands, PolledStands, DisablePersonalTelegramForAllWatches
    PROVE  OfferStands' /\ PolledStands'
<1> DEFINE watches == [w \in Watches |->
                IF w \in TelegramWatches
                THEN [snap.watches[w] EXCEPT !.channels = @ \ {Telegram},
                                             !.rev = NextRev(w)]
                ELSE snap.watches[w]]
<1>1. /\ snap # None /\ UNCHANGED added
      /\ Edit(TelegramWatches,
              PruneForWatchRevision([snap EXCEPT !.watches = watches],
                                    TelegramWatches, now))
  BY DEF DisablePersonalTelegramForAllWatches
<1>2. /\ snap \in Snapshot /\ now \in Int
      /\ snap.watches \in [Watches -> Watch \cup {None}]
  BY <1>1, Editable
<1>3. TelegramWatches \in SUBSET Watches
      /\ \A w \in TelegramWatches : snap.watches[w] # None
  BY DEF TelegramWatches
<1>4. ASSUME NEW w \in TelegramWatches
      PROVE  watches[w] \in Watch
  <2>1. w \in Watches /\ snap.watches[w] \in Watch
    BY <1>2, <1>3
  <2>2. NextRev(w) \in Int
    BY <1>2, <1>3, <2>1, NextRevIsLater
  <2>3. [snap.watches[w] EXCEPT !.channels = @ \ {Telegram}, !.rev = NextRev(w)] \in Watch
    BY <2>1, <2>2 DEF Watch
  <2>4. QED
    BY <2>1, <2>3
<1>5. \A w \in Watches \ TelegramWatches : watches[w] = snap.watches[w]
  OBVIOUS
<1>6. watches \in [Watches -> Watch \cup {None}]
  <2>1. \A w \in Watches : watches[w] \in Watch \cup {None}
    BY <1>2, <1>4, <1>5
  <2>2. QED
    BY <2>1
<1> HIDE DEF watches
<1>7. QED
  BY <1>1, <1>3, <1>5, <1>6, ReplacementStands

\* The user deletes a watch.
LEMMA DeleteWatchStands ==
    ASSUME IInv, OfferStands, PolledStands, NEW w \in Watches, DeleteWatch(w)
    PROVE  OfferStands' /\ PolledStands'
<1> DEFINE new == WithoutWatch(snap, w)
<1>1. snap # None /\ snap.watches[w] # None /\ UNCHANGED added /\ Edit({w}, new)
  BY DEF DeleteWatch
<1>2. /\ snap \in Snapshot /\ snap.watches \in [Watches -> Watch \cup {None}]
  BY <1>1, Editable
<1>3. new.watches = [snap.watches EXCEPT ![w] = None]
  BY <1>2, WithoutWatchKeeps
<1>4. \A x \in Scopes : x[1] # w => new.items[x] = snap.items[x]
  BY <1>2, WithoutWatchFields
<1> HIDE DEF new
<1>5. \A v \in Watches \ {w} : new.watches[v] = snap.watches[v]
  BY <1>2, <1>3
<1>6. QED
  BY <1>1, <1>4, <1>5, EditStands

\* The user clears the monitor's data: nothing is left to poll.
LEMMA ResetStands ==
    ASSUME IInv, OfferStands, PolledStands, Reset
    PROVE  OfferStands' /\ PolledStands'
<1> DEFINE aborted == \/ cycle.aborted
                      \/ cycle.pc \in {"resolving", "sending", "answering"}
<1>1. /\ cycle' = [cycle EXCEPT !.aborted = aborted]
      /\ snap' = EmptySnapshot /\ catalog' = catalog /\ added' = added
  BY DEF Reset
<1>2. cycle \in Cycle
  BY DEF IInv, TypeOK
<1>3. /\ cycle'.pc = cycle.pc /\ cycle'.cur = cycle.cur /\ cycle'.revs = cycle.revs
      /\ cycle'.aborted = aborted
  <2> HIDE DEF aborted
  <2>1. QED
    BY <1>1, <1>2 DEF Cycle
<1>4. OfferStands'
  BY <1>3 DEF OfferStands
<1>5. \A w \in Watches : snap'.watches[w] = None
  BY <1>1 DEF EmptySnapshot
<1>6. PolledStands'
  BY <1>1, <1>3, <1>5 DEF PolledStands
<1>7. QED
  BY <1>4, <1>6

\* A write settles: the cycle goes on to no poll and no provider.
LEMMA WriteStands ==
    ASSUME IInv, OfferStands, PolledStands, WriteSucceeds \/ WriteFails
    PROVE  OfferStands' /\ PolledStands'
<1>1. /\ saves # << >> /\ cycle \in Cycle
      /\ snap' = snap /\ gen' = gen /\ catalog' = catalog /\ added' = added
  BY DEF WriteSucceeds, WriteFails, IInv, TypeOK
<1>2. CASE cycle' = cycle
  BY <1>1, <1>2, ElsewhereStands DEF CatalogGrows
<1>3. CASE cycle' = IdleCycle
  BY <1>3, NotFetching, NotSending DEF IdleCycle
<1>4. CASE Head(saves).by = "cycle" /\ cycle' = [cycle EXCEPT !.pc = AfterSave[cycle.pc]]
  <2>1. cycle.pc \in Waiting
    BY <1>1, <1>4, HeadOfSaves DEF IInv, CycleSaves
  <2>2. AfterSave[cycle.pc] \in {"starting", "rechecking", "dispatching", "idle"}
    BY <2>1 DEF AfterSave, Waiting
  <2>3. cycle'.pc \in {"starting", "rechecking", "dispatching", "idle"}
    BY <1>1, <1>4, <2>2 DEF Cycle
  <2>4. QED
    BY <2>3, NotFetching, NotSending
<1>5. QED
  BY <1>2, <1>3, <1>4 DEF WriteSucceeds, WriteFails

\* Every step leaves the offer and the poll standing.
LEMMA NextKeepsStanding ==
    IInv /\ OfferStands /\ PolledStands /\ [Next]_vars => OfferStands' /\ PolledStands'
<1> SUFFICES ASSUME IInv, OfferStands, PolledStands, [Next]_vars
             PROVE  OfferStands' /\ PolledStands'
  OBVIOUS
<1>1. CASE UNCHANGED vars
  BY <1>1, ElsewhereStands DEF vars, CatalogGrows
<1>2. CASE Tick \/ SetClockBack \/ WakeWhileBusy \/ StartMonitor
  BY <1>2, ElsewhereStands DEF Tick, SetClockBack, WakeWhileBusy, StartMonitor,
     CatalogGrows
<1>3. CASE LearnStores
  BY <1>3, LearnStoresGrows, ElsewhereStands DEF LearnStores
<1>4. CASE Open \/ WakeCold \/ FinishLoad \/ LoadFails \/ ReadAgain
  <2>1. cycle'.pc = "idle"
    <3>1. (loading \/ snap = None) /\ cycle' = cycle
      BY <1>4 DEF Open, WakeCold, BootWith, Alive, FinishLoad, LoadFails, ReadAgain
    <3>2. QED
      BY <3>1 DEF IInv, Coherent
  <2>2. QED
    BY <2>1, NotFetching, NotSending
<1>5. CASE Crash
  BY <1>5, NotFetching, NotSending DEF Crash, IdleCycle
<1>6. CASE WriteSucceeds \/ WriteFails
  BY <1>6, WriteStands
<1>7. CASE Wake \/ CheckNow
  <2>1. {} \in SUBSET Watches
    OBVIOUS
  <2>2. QED
    BY <1>7, <2>1, BeginCycleStands DEF Wake, CheckNow
<1>8. CASE CycleStep
  BY <1>8, FetchSettlesStands, DeliveryStands DEF CycleStep
<1>9. CASE UserEdit
  BY <1>9, AddWatchStands, WatchEditStands, DisablePersonalTelegramStands,
     DeleteWatchStands, ResetStands DEF UserEdit
<1>10. QED
  BY <1>1, <1>2, <1>3, <1>4, <1>5, <1>6, <1>7, <1>8, <1>9 DEF Next

\* What is sent is on offer, and what is polled is wanted, in every reachable state.
THEOREM StandingAlways == Spec => [](OfferStands /\ PolledStands)
<1>1. Init => OfferStands /\ PolledStands
  BY DEF Init, IdleCycle, OfferStands, PolledStands
<1>2. QED
  BY <1>1, NextKeepsStanding, IInvAlways, PTL DEF Spec

\* A provider hears only of stock that is available when it is contacted, for a
\* watch that the catalog still supports and whose revision still asks for the
\* channel: nothing that happens between the resolution and the contact can
\* change that without aborting the delivery.
THEOREM ProvidersHearCurrentStock == Spec => ProviderHearsCurrentStock
<1> DEFINE A == \A p \in Copies : sends'[p] # sends[p] =>
        /\ IsCurrent(p)
        /\ catalog # None
        /\ Supported(snap.watches[p[1][1][1]], catalog)
        /\ snap.items[p[1][1]] # None
        /\ snap.items[p[1][1]].status = "available"
<1>1. IInv /\ OfferStands /\ [Next]_vars => [A]_vars
  <2> SUFFICES ASSUME IInv, OfferStands, [Next]_vars, NEW p \in Copies,
                      sends'[p] # sends[p]
               PROVE  /\ IsCurrent(p)
                      /\ catalog # None
                      /\ Supported(snap.watches[p[1][1][1]], catalog)
                      /\ snap.items[p[1][1]] # None
                      /\ snap.items[p[1][1]].status = "available"
    OBVIOUS
  <2>1. CASE ContactProvider
    <3>1. /\ cycle.pc = "sending" /\ ~cycle.aborted /\ cycle.cur \in Copies
          /\ sends' = [sends EXCEPT ![cycle.cur] = @ + 1]
          /\ sends \in [Copies -> Nat]
      BY <2>1 DEF ContactProvider, IInv, TypeOK, Coherent, InHand
    <3>2. p = cycle.cur
      BY <3>1
    <3>3. IsCurrent(p)
      BY <3>1, <3>2 DEF IInv, InFlightDeliveryIsCurrent
    <3>4. QED
      BY <3>1, <3>2, <3>3 DEF OfferStands
  <2>2. CASE ~ContactProvider
    <3>1. sends' = sends
      BY <2>2 DEF Next, vars, Tick, SetClockBack, WakeWhileBusy, Open, WakeCold,
         LoadFails, ReadAgain, StartMonitor, BootWith,
         FinishLoad, Crash, LearnStores, WriteSucceeds, WriteFails, Wake, CheckNow,
         BeginCycle, CycleStep, FetchSettles, StartDispatch, Attempt, EndDispatch,
         Recheck, Resolve, DeclineDelivery, ProviderAnswers, DeliveryAborted, UserEdit,
         AddWatch, ReplaceWatch, SetWatchEnabled, DeleteWatch,
         DisablePersonalTelegramForAllWatches, Edit, Reset
    <3>2. QED
      BY <3>1
  <2>3. QED
    BY <2>1, <2>2
<1>2. QED
  BY <1>1, IInvAlways, StandingAlways, PTL DEF Spec, ProviderHearsCurrentStock

-------------------------------------------------------------------------------
(***************************************************************************)
(* Where alerts come from, and what becomes of those that are queued.  A   *)
(* step of a loaded engine is calm, begins a cycle or records an answer.   *)
(***************************************************************************)

\* The three kinds of step of a loaded engine.
LEMMA WorkingStep ==
    ASSUME IInv, [Next]_vars, Working
    PROVE  /\ snap \in Snapshot /\ now \in Int
           /\ \/ RaisesNothing(snap, snap') /\ DropsOnlyUnscoped(snap, snap')
              \/ catalog # None /\ SomePromoted(Reconciled, snap', serial, catalog)
              \/ /\ cycle.pc = "fetching"
                 /\ \E obs, recorded, later : AnswerIsRecorded(obs, recorded, later)
<1>1. snap \in Snapshot /\ now \in Int
  BY DEF Working, Ready, IInv, TypeOK
<1>2. CASE Wake \/ CheckNow
  <2>1. {} \in SUBSET Watches
    OBVIOUS
  <2>2. Begins
    BY <1>2, <2>1, BeginCycleRaises DEF Wake, CheckNow
  <2>3. QED
    BY <1>1, <2>2 DEF Begins, DropsOnlyUnscoped
<1>3. CASE FetchSettles
  BY <1>1, <1>3, FetchSettlesRaises DEF FetchSettles
<1>4. CASE ~Wake /\ ~CheckNow /\ ~FetchSettles
  BY <1>1, <1>4, QuietStepsAreCalm
<1>5. QED
  BY <1>2, <1>3, <1>4

\* What a recording queues or defers was not known to be available, and is outside
\* the cooldown.
LEMMA AlertingIsNew ==
    ASSUME NEW s, Fits(s), NEW obs, DOMAIN obs \subseteq Scopes, NEW t,
           NEW x \in Alerting(s, obs, t, catalog)
    PROVE  /\ s.items[x] = None \/ s.items[x].known # "available"
           /\ CooledDown(t, s.delivery[x].alertedAt, Cooldown)
           /\ obs[x] = "available" /\ x \in DOMAIN obs
<1>1. CASE s.items[x] = None
  BY <1>1 DEF Alerting, ShouldAlert
<1>2. CASE s.items[x] # None
  <2>1. ShouldAlert(s.items[x].status, s.items[x].known, obs[x], t,
                    s.delivery[x].alertedAt, Cooldown) /\ x \in DOMAIN obs
    BY <1>2 DEF Alerting
  <2>2. ItemConsistent(s.items[x])
    BY <1>2, <2>1 DEF Fits, ScopesFit, ItemFits
  <2>3. QED
    BY <2>1, <2>2 DEF ShouldAlert, Baseline, ItemConsistent
<1>3. QED
  BY <1>1, <1>2

\* What follows from a promotion that queues an event.
LEMMA PromotedIsReady ==
    ASSUME NEW s \in Snapshot, NEW new, NEW numbers, NEW atStart,
           SomePromoted(s, new, numbers, atStart), NEW id \in EventIds,
           s.pending[id] = None, new.pending[id] # None
    PROVE  s.delivery[id[1]].deferred = "pending"
<1>1. PICK queued \in SUBSET Promotable(s, now, atStart, catalog) :
        Promotes(s, new, queued, numbers, now, atStart)
  BY DEF SomePromoted
<1>2. LedgerFollows(s, new, queued, numbers)
  BY <1>1 DEF Promotes
<1>3. IsNext(id, queued, numbers)
  BY <1>2 DEF LedgerFollows
<1>4. id[1] \in Promotable(s, now, atStart, catalog)
  BY <1>1, <1>3 DEF IsNext
<1>5. QED
  BY <1>4, PromotableIsReady

\* A new event comes from a deferred alert or from stock not known to be available
\* before: an outage in between, or a restart, raises no second alert, however the
\* cycle and the edits interleave.
THEOREM AlertsComeFromTransitions == Spec => AlertsFollowTransitions
<1> DEFINE A == Working =>
        \A id \in Ledger(snap') \ Ledger(snap) :
            \/ snap.delivery[id[1]].deferred = "pending"
            \/ snap.items[id[1]] = None
            \/ snap.items[id[1]].known # "available"
<1>1. IInv /\ FInv /\ [Next]_vars => [A]_vars
  <2> SUFFICES ASSUME IInv, FInv, [Next]_vars, Working, NEW id \in EventIds,
                      snap'.pending[id] # None, snap.pending[id] = None
               PROVE  \/ snap.delivery[id[1]].deferred = "pending"
                      \/ snap.items[id[1]] = None
                      \/ snap.items[id[1]].known # "available"
    BY DEF Ledger
  <2>1. id[1] \in Scopes /\ snap \in Snapshot /\ now \in Int /\ Fits(snap)
    BY ScopeTypes, WorkingStep DEF FInv, Working, Ready
  <2>2. CASE RaisesNothing(snap, snap')
    BY <2>2 DEF RaisesNothing
  <2>3. CASE SomePromoted(Reconciled, snap', serial, catalog)
    <3>1. Reconciled \in Snapshot /\ RaisesNothing(snap, Reconciled)
      BY <2>1, ReconciledFields
    <3>2. Reconciled.pending[id] = None
      BY <3>1 DEF RaisesNothing
    <3>3. Reconciled.delivery[id[1]].deferred = "pending"
      BY <2>3, <3>1, <3>2, PromotedIsReady
    <3>4. QED
      BY <2>1, <3>1, <3>3 DEF RaisesNothing
  <2>4. CASE \E obs, recorded, later : AnswerIsRecorded(obs, recorded, later)
    <3>1. PICK obs, recorded, later : AnswerIsRecorded(obs, recorded, later)
      BY <2>4
    <3> DEFINE alerting == Alerting(snap, obs, now, catalog)
    <3>2. /\ recorded \in Snapshot /\ DOMAIN obs \subseteq Scopes
          /\ snap' = recorded \/ SomePromoted(recorded, snap', later, cycle.catalog)
      BY <3>1 DEF AnswerIsRecorded, IsAnswer
    <3>3. PICK queued \in SUBSET alerting :
            Records(snap, recorded, obs, queued, alerting \ queued, serial, now)
      BY <3>1 DEF AnswerIsRecorded, SomeRecorded
    <3>4. \A x \in alerting : snap.items[x] = None \/ snap.items[x].known # "available"
      BY <2>1, <3>2, AlertingIsNew
    <3> HIDE DEF alerting
    <3>5. CASE recorded.pending[id] # None
      <4>1. LedgerFollows(snap, recorded, queued, serial)
        BY <3>3 DEF Records
      <4>2. id[1] \in queued
        BY <3>5, <4>1 DEF LedgerFollows, IsNext
      <4>3. QED
        BY <3>4, <4>2
    <3>6. CASE recorded.pending[id] = None
      <4>1. recorded.delivery[id[1]].deferred = "pending"
        BY <3>2, <3>6, PromotedIsReady
      <4>2. MarkersFollow(snap, recorded, queued, alerting \ queued, now)
        BY <3>3 DEF Records
      <4>3. id[1] \in alerting \/ snap.delivery[id[1]].deferred = "pending"
        BY <2>1, <4>1, <4>2 DEF MarkersFollow
      <4>4. QED
        BY <3>4, <4>3
    <3>7. QED
      BY <3>5, <3>6
  <2>5. QED
    BY <2>2, <2>3, <2>4, WorkingStep
<1>2. QED
  BY <1>1, IInvAlways, FInvAlways, PTL DEF Spec, AlertsFollowTransitions

\* Reconciling as a cycle begins leaves live work that may still be delivered.
LEMMA ReconciledKeepsLive ==
    ASSUME snap \in Snapshot, now \in Int, Authorised(snap), NEW id \in EventIds,
           snap.pending[id] # None, IsLive(snap, id), ~IsExpired(snap.pending[id], now),
           catalog # None => Supported(snap.watches[id[1][1]], catalog)
    PROVE  IsLive(Reconciled, id)
<1>1. PICK c \in Channels : /\ snap.pending[id].channels[c] # None
                            /\ snap.pending[id].channels[c].state = "pending"
  BY DEF IsLive
<1>2. IsCurrentPendingChannel(snap, id, c) /\ id[1][1] \in Watches
  BY <1>1, ScopeTypes DEF Authorised
<1> DEFINE verdict == [i \in EventIds |-> [ch \in Channels |->
                LET watch == snap.watches[i[1][1]]
                    event == snap.pending[i]
                IN  IF watch = None THEN "revoked"
                    ELSE IF watch.rev # event.rev THEN "superseded"
                    ELSE IF ch \notin watch.channels THEN "revoked"
                    ELSE IF IsExpired(event, now) THEN "expired"
                    ELSE "pending"]]
           s == ReconcileDurableDelivery(snap, now)
<1>3. verdict[id][c] = "pending"
  BY <1>2 DEF IsCurrentPendingChannel
<1>4. s = CloseCopies(snap, verdict, now)
  BY DEF ReconcileDurableDelivery
<1> HIDE DEF verdict
<1>5. ASSUME NEW before \in Snapshot, NEW v, NEW base, base.pending = before.pending,
             DOMAIN base = {"watches", "items", "delivery", "pending",
                            "nextEligibleAt", "failures"},
             before.pending[id] # None, v[id][c] = "pending"
      PROVE  CloseCopies(base, v, now).pending[id].channels[c]
                = before.pending[id].channels[c]
  <2>1. CloseCopies(base, v, now).pending[id] = CloseEvent(before.pending[id], v[id], now)
    BY <1>5 DEF CloseCopies
  <2>2. before.pending[id] \in Event
    BY <1>5 DEF Snapshot
  <2>3. CloseEvent(before.pending[id], v[id], now).channels[c]
            = before.pending[id].channels[c]
    BY <1>5, <2>2 DEF CloseEvent, Event
  <2>4. QED
    BY <2>1, <2>3
<1>6. DOMAIN snap = {"watches", "items", "delivery", "pending",
                     "nextEligibleAt", "failures"}
  BY SnapshotFields
<1>7. s.pending[id].channels[c] = snap.pending[id].channels[c]
  BY <1>3, <1>4, <1>5, <1>6
<1>8. s \in Snapshot /\ s.pending[id] # None /\ s.watches = snap.watches
  BY ReconcileDurableDeliveryKeeps, ReconcileDurableDeliveryFields
<1> HIDE DEF s
<1>9. CASE catalog = None
  <2>1. Reconciled = s
    BY <1>9 DEF Reconciled, s
  <2>2. QED
    BY <1>1, <1>7, <2>1 DEF IsLive
<1>10. CASE catalog # None
  <2> DEFINE retired == RetiredWatches(s, catalog)
             v == [i \in EventIds |-> [ch \in Channels |->
                    IF i[1][1] \in retired THEN "superseded" ELSE "pending"]]
             base == [s EXCEPT
               !.items = [x \in Scopes |->
                    IF x[1] \in retired /\ s.items[x] # None
                    THEN [s.items[x] EXCEPT !.status = "unknown"]
                    ELSE s.items[x]],
               !.delivery = [x \in Scopes |->
                    IF x[1] \in retired /\ s.delivery[x].deferred = "pending"
                    THEN ClearDeferredAvailability(s.delivery[x], "superseded")
                    ELSE s.delivery[x]]]
  <2>1. Reconciled = CloseCopies(base, v, now)
    BY <1>10 DEF Reconciled, ReconcileRetiredCatalogState, s
  <2>2. id[1][1] \notin retired
    BY <1>8, <1>10 DEF RetiredWatches
  <2>3. v[id][c] = "pending"
    BY <2>2
  <2>4. DOMAIN s = {"watches", "items", "delivery", "pending",
                    "nextEligibleAt", "failures"}
    BY <1>8, SnapshotFields
  <2>5. base.pending = s.pending /\ DOMAIN base = DOMAIN s
    BY <2>4
  <2> HIDE DEF v, base, retired
  <2>6. Reconciled.pending[id].channels[c] = s.pending[id].channels[c]
    BY <1>5, <1>8, <2>1, <2>3, <2>4, <2>5
  <2>7. QED
    BY <1>1, <1>7, <2>6 DEF IsLive
<1>11. QED
  BY <1>9, <1>10

\* A promotion or a recording evicts nothing that is live.
LEMMA LedgerKeepsLive ==
    ASSUME NEW s, NEW new, NEW queued, NEW numbers,
           LedgerFollows(s, new, queued, numbers), NEW id \in EventIds,
           s.pending[id] # None, IsLive(s, id)
    PROVE  new.pending[id] # None /\ IsLive(new, id)
<1>1. CASE IsNext(id, queued, numbers)
  BY <1>1 DEF LedgerFollows
<1>2. CASE ~IsNext(id, queued, numbers)
  <2>1. new.pending[id] = s.pending[id]
    BY <1>2 DEF LedgerFollows
  <2>2. QED
    BY <2>1 DEF IsLive
<1>3. QED
  BY <1>1, <1>2

\* An event that may still be delivered leaves the ledger only with its scope: no
\* alert, promotion or recording makes room at its expense, even when the ledger is
\* full, and no cycle forgets it.
THEOREM LiveWorkStays == Spec => LiveWorkIsNeverEvicted
<1> DEFINE A == Working =>
        \A id \in Ledger(snap) :
            /\ IsLive(snap, id)
            /\ ~IsExpired(snap.pending[id], now)
            /\ catalog # None => Supported(snap.watches[id[1][1]], catalog)
            /\ snap'.pending[id] = None
            => ~InScope(snap', id[1])
<1>1. IInv /\ [Next]_vars => [A]_vars
  <2> SUFFICES ASSUME IInv, [Next]_vars, Working, NEW id \in EventIds,
                      snap.pending[id] # None, IsLive(snap, id),
                      ~IsExpired(snap.pending[id], now),
                      catalog # None => Supported(snap.watches[id[1][1]], catalog),
                      snap'.pending[id] = None
               PROVE  ~InScope(snap', id[1])
    BY DEF Ledger
  <2>1. snap \in Snapshot /\ now \in Int /\ Authorised(snap)
    BY WorkingStep DEF IInv, AllSound, Sound, Working, Ready
  <2>2. CASE DropsOnlyUnscoped(snap, snap')
    BY <2>2 DEF DropsOnlyUnscoped
  <2>3. CASE SomePromoted(Reconciled, snap', serial, catalog)
    <3>1. IsLive(Reconciled, id) /\ Reconciled.pending[id] # None
      BY <2>1, ReconciledKeepsLive, ReconciledFields
    <3>2. PICK queued : Promotes(Reconciled, snap', queued, serial, now, catalog)
      BY <2>3 DEF SomePromoted
    <3>3. LedgerFollows(Reconciled, snap', queued, serial)
      BY <3>2 DEF Promotes
    <3>4. QED
      BY <3>1, <3>3, LedgerKeepsLive
  <2>4. CASE \E obs, recorded, later : AnswerIsRecorded(obs, recorded, later)
    <3>1. PICK obs, recorded, later : AnswerIsRecorded(obs, recorded, later)
      BY <2>4
    <3>2. PICK queued, deferred :
            Records(snap, recorded, obs, queued, deferred, serial, now)
      BY <3>1 DEF AnswerIsRecorded, SomeRecorded
    <3>3. LedgerFollows(snap, recorded, queued, serial)
      BY <3>2 DEF Records
    <3>4. recorded.pending[id] # None /\ IsLive(recorded, id)
      BY <3>3, LedgerKeepsLive
    <3>5. SomePromoted(recorded, snap', later, cycle.catalog)
      BY <3>1, <3>4 DEF AnswerIsRecorded
    <3>6. PICK promoted : Promotes(recorded, snap', promoted, later, now, cycle.catalog)
      BY <3>5 DEF SomePromoted
    <3>7. LedgerFollows(recorded, snap', promoted, later)
      BY <3>6 DEF Promotes
    <3>8. QED
      BY <3>4, <3>7, LedgerKeepsLive
  <2>5. QED
    BY <2>2, <2>3, <2>4, WorkingStep
<1>2. QED
  BY <1>1, IInvAlways, PTL DEF Spec, LiveWorkIsNeverEvicted

\* A marker the answer has just left is ready, or waits for the catalog.
LEMMA FreshMarkerStays ==
    ASSUME now \in Int, NEW s, NEW x, NEW atStart,
           s.delivery[x].deferredAt = now, s.watches[x[1]] # None,
           s.delivery[x].deferredRev = s.watches[x[1]].rev,
           s.watches[x[1]].enabled, s.watches[x[1]].channels # {},
           s.items[x] # None, s.items[x].status = "available"
    PROVE  MarkerVerdict(s, x, now, atStart) \in {"pending", "ready"}
<1>1. Least(s.delivery[x].deferredAt, now) = now /\ ~(now - now > Retention)
  BY DelaysAssumption DEF Least
<1>2. QED
  BY <1>1 DEF MarkerVerdict

\* What an answer finds available again, of a watch with a channel and outside the
\* cooldown, deserves an alert.
LEMMA RestockIsAlerting ==
    ASSUME IInv, FInv, PolledStands, cycle.pc = "fetching",
           NEW obs, IsAnswer(obs), NEW x \in DOMAIN obs, obs[x] = "available",
           snap.items[x] # None, snap.items[x].status = "unavailable",
           snap.watches[x[1]].channels # {},
           CooledDown(now, snap.delivery[x].alertedAt, Cooldown)
    PROVE  /\ x \in Alerting(snap, obs, now, catalog)
           /\ snap.watches[x[1]] # None /\ snap.watches[x[1]].enabled
<1>1. x \in Scopes /\ x[1] \in Watches /\ IsCurrentRevision(x[1]) /\ InScope(snap, x)
  BY ScopeTypes DEF IsAnswer
<1>2. /\ catalog # None /\ snap.watches[x[1]] # None
      /\ snap.watches[x[1]].enabled /\ Supported(snap.watches[x[1]], catalog)
  BY <1>1 DEF PolledStands, IsCurrentRevision
<1>3. snap.items[x].known # "available"
  <2>1. ItemConsistent(snap.items[x])
    BY <1>1, WorkingCycle DEF FInv, Fits, ScopesFit, ItemFits
  <2>2. QED
    BY <2>1 DEF ItemConsistent
<1>4. ShouldAlert(snap.items[x].status, snap.items[x].known, obs[x], now,
                  snap.delivery[x].alertedAt, Cooldown)
  BY DEF ShouldAlert, Baseline
<1>5. CanMakeEvent(snap, x, now, now, catalog)
  <2>1. now \in Int
    BY DEF IInv, TypeOK
  <2>2. now - now <= Retention /\ now <= now + EventSkew
    BY <2>1, DelaysAssumption
  <2>3. x[2] \in catalog.skus /\ x[3] \in catalog.stores
    BY <1>1, <1>2 DEF Supported, InScope
  <2>4. QED
    BY <1>1, <1>2, <2>2, <2>3 DEF CanMakeEvent
<1>6. QED
  BY <1>2, <1>4, <1>5 DEF Alerting

\* Stock that comes back for a watch with a channel, outside the cooldown, is queued
\* or kept as a deferred alert in the same step, however full the ledger, whatever
\* the catalog learnt meanwhile and however the promotion at the end of the cycle
\* spends the room.
THEOREM AvailabilityIsKept == Spec => AvailabilityIsNeverLost
<1> DEFINE A == Working =>
        \A x \in Scopes :
            /\ BecameAvailable(x)
            /\ snap.watches[x[1]].channels # {}
            /\ CooledDown(now, snap.delivery[x].alertedAt, Cooldown)
            => \/ snap'.delivery[x].deferred = "pending"
               \/ \E id \in Ledger(snap') : id[1] = x /\ id \notin Ledger(snap)
<1>1. IInv /\ FInv /\ RInv /\ PolledStands /\ [Next]_vars => [A]_vars
  <2> SUFFICES ASSUME IInv, FInv, RInv, PolledStands, [Next]_vars, Working,
                      NEW x \in Scopes, BecameAvailable(x),
                      snap.watches[x[1]].channels # {},
                      CooledDown(now, snap.delivery[x].alertedAt, Cooldown)
               PROVE  \/ snap'.delivery[x].deferred = "pending"
                      \/ \E id \in EventIds : /\ id[1] = x /\ snap'.pending[id] # None
                                              /\ snap.pending[id] = None
    BY DEF Ledger
  <2>1. /\ snap.items[x] # None /\ snap.items[x].status = "unavailable"
        /\ snap'.items[x] # None /\ snap'.items[x].status = "available"
    BY DEF BecameAvailable
  <2>2. /\ snap \in Snapshot /\ now \in Int /\ snap # None
        /\ serial \in [Scopes -> Nat]
    BY WorkingStep DEF Working, Ready, IInv, TypeOK
  <2>3. CASE RaisesNothing(snap, snap')
    BY <2>1, <2>3 DEF RaisesNothing
  <2>4. CASE SomePromoted(Reconciled, snap', serial, catalog)
    <3>1. RaisesNothing(snap, Reconciled)
      BY <2>2, ReconciledFields
    <3>2. snap'.items = Reconciled.items
      BY <2>4 DEF SomePromoted, Promotes
    <3>3. QED
      BY <2>1, <3>1, <3>2 DEF RaisesNothing
  <2>5. CASE /\ cycle.pc = "fetching"
             /\ \E obs, recorded, later : AnswerIsRecorded(obs, recorded, later)
    <3>1. PICK obs, recorded, later : AnswerIsRecorded(obs, recorded, later)
      BY <2>5
    <3> DEFINE alerting == Alerting(snap, obs, now, catalog)
    <3>2. /\ IsAnswer(obs)
          /\ snap' = recorded \/ SomePromoted(recorded, snap', later, cycle.catalog)
      BY <3>1 DEF AnswerIsRecorded
    <3>3. PICK queued \in SUBSET alerting :
            /\ \A y \in queued : serial[y] < MaxAlerts
            /\ later = [y \in Scopes |-> IF y \in queued THEN serial[y] + 1
                                         ELSE serial[y]]
            /\ Records(snap, recorded, obs, queued, alerting \ queued, serial, now)
      BY <3>1 DEF AnswerIsRecorded, SomeRecorded
    <3>4. snap'.items = recorded.items
      BY <3>2 DEF SomePromoted, Promotes
    <3>5. recorded.items[x] = IF x \in DOMAIN obs THEN Observed(snap.items[x], obs[x], now)
                              ELSE snap.items[x]
      BY <3>3 DEF Records
    <3>6. x \in DOMAIN obs /\ obs[x] = "available"
      BY <2>1, <3>4, <3>5 DEF Observed
    <3>7. /\ x \in alerting
          /\ snap.watches[x[1]] # None /\ snap.watches[x[1]].enabled
      BY <2>1, <2>5, <3>2, <3>6, RestockIsAlerting
    <3> DEFINE id == <<x, serial[x] + 1>>
    <3>8. ASSUME serial[x] < MaxAlerts
          PROVE  /\ id \in EventIds /\ id[1] = x /\ id[2] = serial[x] + 1
                 /\ snap.pending[id] = None
      <4>1. serial[x] + 1 \in 1..MaxAlerts
        BY <2>2, <3>8, BoundsAssumption
      <4>2. id \in EventIds /\ id[1] = x /\ id[2] = serial[x] + 1
        BY <4>1 DEF EventIds
      <4>3. snap.pending[id] # None => id[2] <= serial[id[1]]
        BY <2>2, <4>2 DEF RInv, AllRecorded, Recorded
      <4>4. QED
        BY <2>2, <4>2, <4>3
    <3> HIDE DEF alerting, id
    <3>9. CASE x \in queued
      <4>1. /\ id \in EventIds /\ id[1] = x /\ id[2] = serial[x] + 1
            /\ snap.pending[id] = None
        BY <3>3, <3>8, <3>9
      <4>2. LedgerFollows(snap, recorded, queued, serial)
        BY <3>3 DEF Records
      <4>3. recorded.pending[id] # None /\ IsLive(recorded, id)
        BY <3>9, <4>1, <4>2 DEF LedgerFollows, IsNext
      <4>4. snap'.pending[id] # None
        <5>1. CASE snap' = recorded
          BY <4>3, <5>1
        <5>2. CASE SomePromoted(recorded, snap', later, cycle.catalog)
          <6>1. PICK promoted :
                  Promotes(recorded, snap', promoted, later, now, cycle.catalog)
            BY <5>2 DEF SomePromoted
          <6>2. LedgerFollows(recorded, snap', promoted, later)
            BY <6>1 DEF Promotes
          <6>3. QED
            BY <4>1, <4>3, <6>2, LedgerKeepsLive
        <5>3. QED
          BY <3>2, <5>1, <5>2
      <4>5. QED
        BY <4>1, <4>4
    <3>10. CASE x \notin queued
      <4>1. MarkersFollow(snap, recorded, queued, alerting \ queued, now)
        BY <3>3 DEF Records
      <4>2. /\ recorded.delivery[x].deferred = "pending"
            /\ recorded.delivery[x].deferredAt = now
        BY <3>7, <3>10, <4>1 DEF MarkersFollow
      <4>3. CASE snap' = recorded
        BY <4>2, <4>3
      <4>4. CASE SomePromoted(recorded, snap', later, cycle.catalog)
        <5>1. PICK promoted \in SUBSET Promotable(recorded, now, cycle.catalog, catalog) :
                /\ \A y \in promoted : later[y] < MaxAlerts
                /\ Promotes(recorded, snap', promoted, later, now, cycle.catalog)
          BY <4>4 DEF SomePromoted
        <5>2. CASE x \in promoted
          <6>1. later[x] = serial[x]
            BY <3>3, <3>10
          <6>2. /\ id \in EventIds /\ id[1] = x /\ id[2] = serial[x] + 1
                /\ snap.pending[id] = None
            BY <3>8, <5>1, <5>2, <6>1
          <6>3. LedgerFollows(snap, recorded, queued, serial)
            BY <3>3 DEF Records
          <6>4. recorded.pending[id] = None
            BY <3>10, <6>2, <6>3 DEF LedgerFollows, IsNext
          <6>5. LedgerFollows(recorded, snap', promoted, later)
            BY <5>1 DEF Promotes
          <6>6. IsNext(id, promoted, later)
            BY <5>2, <6>1, <6>2 DEF IsNext
          <6>7. snap'.pending[id] # None
            BY <6>2, <6>4, <6>5, <6>6 DEF LedgerFollows
          <6>8. QED
            BY <6>2, <6>7
        <5>3. CASE x \notin promoted
          <6>1. /\ recorded.watches = snap.watches
                /\ recorded.delivery[x].deferredRev = snap.watches[x[1]].rev
            BY <3>3, <3>7, <3>10 DEF Records
          <6>2. MarkerVerdict(recorded, x, now, cycle.catalog) \in {"pending", "ready"}
            BY <2>1, <2>2, <3>4, <3>7, <4>2, <6>1, FreshMarkerStays
          <6>3. snap'.delivery[x].deferred = "pending"
            BY <4>2, <5>1, <5>3, <6>2 DEF Promotes
          <6>4. QED
            BY <6>3
        <5>4. QED
          BY <5>2, <5>3
      <4>5. QED
        BY <3>2, <4>3, <4>4
    <3>11. QED
      BY <3>9, <3>10
  <2>6. QED
    BY <2>3, <2>4, <2>5, WorkingStep
<1>2. QED
  BY <1>1, IInvAlways, FInvAlways, RInvAlways, StandingAlways, PTL
     DEF Spec, AvailabilityIsNeverLost

-------------------------------------------------------------------------------
(***************************************************************************)
(* The cooldown.  As long as the clock has not been set back, no alert     *)
(* lies in the future, and a deferred alert was deferred a cooldown after  *)
(* the last one: so its promotion, which looks at no cooldown, is spaced   *)
(* as well.  Every snapshot has to say so, because a crash or a restart    *)
(* brings an earlier one back.                                             *)
(***************************************************************************)

\* At time t, no alert of s lies ahead, and what is deferred has cooled down.
Spaced(s, t) ==
    \A x \in Scopes :
        /\ s.delivery[x].alertedAt # None => s.delivery[x].alertedAt <= t
        /\ s.delivery[x].deferred = "pending" =>
            /\ s.delivery[x].deferredAt <= t
            /\ s.delivery[x].alertedAt # None =>
                s.delivery[x].deferredAt - s.delivery[x].alertedAt >= Cooldown

\* Every snapshot is spaced, unless the clock has been set back.
AllSpaced ==
    spent.setBacks = 0 =>
        /\ Spaced(disk, now)
        /\ snap # None => Spaced(snap, now)
        /\ \A i \in 1..Len(saves) : Spaced(saves[i].snap, now)

\* The times of a scope.
LEMMA DeliveryTimes ==
    ASSUME NEW s \in Snapshot, NEW x \in Scopes
    PROVE  /\ s.delivery[x].alertedAt # None => s.delivery[x].alertedAt \in Int
           /\ s.delivery[x].deferredAt # None => s.delivery[x].deferredAt \in Int
           /\ s.delivery[x].deferred = "pending" => s.delivery[x].deferredAt \in Int
<1>1. s.delivery[x] \in Delivery
  BY SnapshotFields
<1>2. QED
  BY <1>1 DEF Delivery, OptTime

\* What is spaced stays so as time passes.
LEMMA SpacedLater ==
    ASSUME NEW s \in Snapshot, NEW t \in Int, NEW later \in Int, t <= later, Spaced(s, t)
    PROVE  Spaced(s, later)
<1> SUFFICES ASSUME NEW x \in Scopes
             PROVE  /\ s.delivery[x].alertedAt # None => s.delivery[x].alertedAt <= later
                    /\ s.delivery[x].deferred = "pending" =>
                        /\ s.delivery[x].deferredAt <= later
                        /\ s.delivery[x].alertedAt # None =>
                            s.delivery[x].deferredAt - s.delivery[x].alertedAt >= Cooldown
  BY DEF Spaced
<1>1. QED
  BY DeliveryTimes DEF Spaced

\* What raises nothing stays spaced.
LEMMA CalmIsSpaced ==
    ASSUME NEW s, NEW new, NEW t, RaisesNothing(s, new), Spaced(s, t)
    PROVE  Spaced(new, t)
BY DEF RaisesNothing, Spaced

\* Alerts queued now, and alerts deferred now after a cooldown, are spaced.
LEMMA MarkersAreSpaced ==
    ASSUME NEW s \in Snapshot, NEW new, NEW t \in Int, NEW queued, NEW deferred,
           MarkersFollow(s, new, queued, deferred, t), Spaced(s, t),
           \A x \in Scopes \cap deferred : CooledDown(t, s.delivery[x].alertedAt, Cooldown)
    PROVE  Spaced(new, t)
<1> SUFFICES ASSUME NEW x \in Scopes
             PROVE  /\ new.delivery[x].alertedAt # None => new.delivery[x].alertedAt <= t
                    /\ new.delivery[x].deferred = "pending" =>
                        /\ new.delivery[x].deferredAt <= t
                        /\ new.delivery[x].alertedAt # None =>
                            new.delivery[x].deferredAt - new.delivery[x].alertedAt
                                >= Cooldown
  BY DEF Spaced
<1>1. CASE x \in queued
  BY <1>1 DEF MarkersFollow
<1>2. CASE x \notin queued /\ x \in deferred
  <2>1. /\ new.delivery[x].alertedAt = s.delivery[x].alertedAt
        /\ new.delivery[x].deferredAt = t
    BY <1>2 DEF MarkersFollow
  <2>2. CooledDown(t, s.delivery[x].alertedAt, Cooldown)
    BY <1>2
  <2>3. QED
    BY <2>1, <2>2 DEF Spaced, CooledDown
<1>3. CASE x \notin queued /\ x \notin deferred
  <2>1. new.delivery[x].alertedAt = s.delivery[x].alertedAt
    BY <1>3 DEF MarkersFollow
  <2>2. ASSUME new.delivery[x].deferred = "pending"
        PROVE  /\ s.delivery[x].deferred = "pending"
               /\ new.delivery[x].deferredAt = s.delivery[x].deferredAt
    <3>1. /\ s.delivery[x].deferred = "pending"
          /\ new.delivery[x].deferredAt
                \in {s.delivery[x].deferredAt, Least(s.delivery[x].deferredAt, t)}
      BY <1>3, <2>2 DEF MarkersFollow
    <3>2. s.delivery[x].deferredAt <= t
      BY <3>1 DEF Spaced
    <3>3. QED
      BY <3>1, <3>2 DEF Least
  <2>3. QED
    BY <2>1, <2>2 DEF Spaced
<1>4. QED
  BY <1>1, <1>2, <1>3

\* A promotion leaves everything spaced.
LEMMA PromotionIsSpaced ==
    ASSUME NEW s \in Snapshot, NEW new, now \in Int, NEW numbers, NEW atStart,
           SomePromoted(s, new, numbers, atStart), Spaced(s, now)
    PROVE  Spaced(new, now)
<1>1. PICK queued : Promotes(s, new, queued, numbers, now, atStart)
  BY DEF SomePromoted
<1>2. MarkersFollow(s, new, queued, {}, now)
  BY <1>1 DEF Promotes
<1>3. QED
  BY <1>2, MarkersAreSpaced

\* An answer leaves everything spaced.
LEMMA RecordingIsSpaced ==
    ASSUME NEW s \in Snapshot, Fits(s), NEW new, now \in Int, NEW numbers, NEW later,
           NEW obs, DOMAIN obs \subseteq Scopes,
           SomeRecorded(s, new, obs, numbers, later), Spaced(s, now)
    PROVE  Spaced(new, now)
<1> DEFINE alerting == Alerting(s, obs, now, catalog)
<1>1. PICK queued : Records(s, new, obs, queued, alerting \ queued, numbers, now)
  BY DEF SomeRecorded
<1>2. MarkersFollow(s, new, queued, alerting \ queued, now)
  BY <1>1 DEF Records
<1>3. \A x \in alerting : CooledDown(now, s.delivery[x].alertedAt, Cooldown)
  BY AlertingIsNew
<1> HIDE DEF alerting
<1>4. QED
  BY <1>2, <1>3, MarkersAreSpaced

\* A step of a loaded engine leaves everything spaced.
LEMMA WorkingIsSpaced ==
    ASSUME IInv, FInv, [Next]_vars, Working, Spaced(snap, now)
    PROVE  Spaced(snap', now)
<1>1. snap \in Snapshot /\ now \in Int /\ Fits(snap)
  BY WorkingStep DEF Working, Ready, FInv
<1>2. CASE RaisesNothing(snap, snap')
  BY <1>2, CalmIsSpaced
<1>3. CASE SomePromoted(Reconciled, snap', serial, catalog)
  <2>1. Reconciled \in Snapshot /\ Spaced(Reconciled, now)
    BY <1>1, ReconciledFields, CalmIsSpaced
  <2>2. QED
    BY <1>1, <1>3, <2>1, PromotionIsSpaced
<1>4. CASE \E obs, recorded, later : AnswerIsRecorded(obs, recorded, later)
  <2>1. PICK obs, recorded, later : AnswerIsRecorded(obs, recorded, later)
    BY <1>4
  <2>2. /\ recorded \in Snapshot /\ DOMAIN obs \subseteq Scopes
        /\ SomeRecorded(snap, recorded, obs, serial, later)
        /\ snap' = recorded \/ SomePromoted(recorded, snap', later, cycle.catalog)
    BY <2>1 DEF AnswerIsRecorded, IsAnswer
  <2>3. Spaced(recorded, now)
    BY <1>1, <2>2, RecordingIsSpaced
  <2>4. QED
    BY <1>1, <2>2, <2>3, PromotionIsSpaced
<1>5. QED
  BY <1>2, <1>3, <1>4, WorkingStep

\* Loading leaves everything spaced.
LEMMA LoadIsSpaced ==
    ASSUME NEW s \in Snapshot, NEW t \in Int, Spaced(s, t)
    PROVE  Spaced(NormalizePersistedClockSkew(s, t), t)
<1> DEFINE new == NormalizePersistedClockSkew(s, t)
<1>1. \A x \in Scopes : new.delivery[x] = NormalizedDelivery(s.delivery[x], t)
  BY DEF NormalizePersistedClockSkew
<1> HIDE DEF new
<1> SUFFICES ASSUME NEW x \in Scopes
             PROVE  /\ new.delivery[x].alertedAt # None => new.delivery[x].alertedAt <= t
                    /\ new.delivery[x].deferred = "pending" =>
                        /\ new.delivery[x].deferredAt <= t
                        /\ new.delivery[x].alertedAt # None =>
                            new.delivery[x].deferredAt - new.delivery[x].alertedAt
                                >= Cooldown
  BY DEF Spaced, new
<1>2. s.delivery[x] \in Delivery
  BY SnapshotFields
<1>3. /\ s.delivery[x].alertedAt # None =>
            s.delivery[x].alertedAt \in Int /\ s.delivery[x].alertedAt <= t
      /\ s.delivery[x].deferred = "pending" =>
            s.delivery[x].deferredAt \in Int /\ s.delivery[x].deferredAt <= t
      /\ FutureSkew \in Nat
  BY DeliveryTimes, DelaysAssumption DEF Spaced
<1>4. /\ new.delivery[x].deferred = s.delivery[x].deferred
      /\ new.delivery[x].alertedAt = s.delivery[x].alertedAt
  BY <1>1, <1>2, <1>3, NormalizedDeliveryFields
<1>5. s.delivery[x].deferred = "pending" =>
        new.delivery[x].deferredAt = s.delivery[x].deferredAt
  BY <1>1, <1>2, <1>3, NormalizedDeliveryFields, NoneAssumption DEF Least
<1>6. QED
  BY <1>3, <1>4, <1>5 DEF Spaced

\* What every step that changes memory and perhaps queues its save has to show.
LEMMA MemoryStepSpaced ==
    ASSUME IInv, IInv', AllSpaced, UNCHANGED <<now, disk>>, spent'.setBacks = spent.setBacks,
           spent.setBacks = 0 /\ snap' # None => Spaced(snap', now),
           \/ saves' = saves
           \/ \E by \in {"cycle", "edit", "reset"} : Persist(by, snap')
    PROVE  AllSpaced'
<1> SUFFICES ASSUME spent.setBacks = 0
             PROVE  \A i \in 1..Len(saves') : Spaced(saves'[i].snap, now)
  BY DEF AllSpaced
<1>1. saves \in Seq(Save) /\ saves' \in Seq(Save)
  BY DEF IInv, TypeOK
<1>2. CASE saves' = saves
  BY <1>2 DEF AllSpaced
<1>3. CASE \E by \in {"cycle", "edit", "reset"} : Persist(by, snap')
  <2>1. PICK by \in {"cycle", "edit", "reset"} : saves' = Append(saves, [by |-> by, snap |-> snap'])
    BY <1>3 DEF Persist
  <2>2. /\ Len(saves') = Len(saves) + 1
        /\ \A i \in 1..Len(saves) : saves'[i] = saves[i]
        /\ saves'[Len(saves) + 1].snap = snap'
    BY <1>1, <2>1
  <2>3. snap' # None
    <3>1. saves'[Len(saves) + 1] \in Save
      BY <1>1, <2>2
    <3>2. QED
      BY <2>2, <3>1, NoneIsNoRecord DEF Save
  <2>4. ASSUME NEW i \in 1..Len(saves') PROVE Spaced(saves'[i].snap, now)
    <3>1. i \in 1..Len(saves) \/ i = Len(saves) + 1
      BY <1>1, <2>2
    <3>2. QED
      BY <2>2, <2>3, <3>1 DEF AllSpaced
  <2>5. QED
    BY <2>4
<1>4. QED
  BY <1>2, <1>3

\* What the cycle and the edits leave alone.
LEMMA WorkerSteps ==
    ASSUME Wake \/ CheckNow \/ CycleStep \/ UserEdit, TypeOK
    PROVE  /\ UNCHANGED <<now, disk>>
           /\ spent'.setBacks = spent.setBacks
           /\ \/ saves' = saves
              \/ \E by \in {"cycle", "edit", "reset"} : Persist(by, snap')
<1>1. \A outcome : Settle(outcome) =>
        saves' = saves \/ \E by \in {"cycle", "edit", "reset"} : Persist(by, snap')
  BY DEF Settle
<1>2. CASE Wake \/ CheckNow
  <2>1. PICK force, rung : BeginCycle(force, rung)
    BY <1>2 DEF Wake, CheckNow
  <2>2. UNCHANGED <<now, disk, spent>>
    BY <2>1 DEF BeginCycle
  <2>3. saves' = saves \/ Persist("cycle", snap')
    BY <2>1 DEF BeginCycle, BeginBackedOff, BeginWithoutCatalog, BeginIdle,
                BeginUnsupported, BeginPolling
  <2>4. QED
    BY <2>2, <2>3
<1>3. CASE FetchSettles
  <2>1. UNCHANGED <<now, disk, spent>>
    BY <1>3 DEF FetchSettles
  <2>2. saves' = saves \/ Persist("cycle", snap')
    BY <1>3 DEF FetchSettles, RequestSettles
  <2>3. QED
    BY <2>1, <2>2
<1>4. CASE CycleStep /\ ~FetchSettles
  <2>1. UNCHANGED <<now, disk, spent>>
    BY <1>4 DEF CycleStep, StartDispatch, Attempt, EndDispatch, Recheck, Resolve,
                ContactProvider, DeclineDelivery, ProviderAnswers, DeliveryAborted
  <2>2. saves' = saves \/ \E by \in {"cycle", "edit", "reset"} : Persist(by, snap')
    BY <1>1, <1>4 DEF CycleStep, StartDispatch, Attempt, EndDispatch, Recheck, Resolve,
                ContactProvider, DeclineDelivery, ProviderAnswers, DeliveryAborted
  <2>3. QED
    BY <2>1, <2>2
<1>5. CASE UserEdit
  <2>1. spent \in [edits : Nat, crashes : Nat, faults : Nat, setBacks : Nat]
    BY DEF TypeOK
  <2>2. \A ws, new : Edit(ws, new) => /\ UNCHANGED <<now, disk>>
                                      /\ spent' = [spent EXCEPT !.edits = @ + 1]
                                      /\ Persist("edit", snap')
    BY DEF Edit
  <2>3. CASE Reset
    BY <2>1, <2>3 DEF Reset
  <2>4. CASE \E ws, new : Edit(ws, new)
    BY <2>1, <2>2, <2>4
  <2>5. QED
    BY <1>5, <2>3, <2>4 DEF UserEdit, AddWatch, ReplaceWatch, SetWatchEnabled, DeleteWatch,
                            DisablePersonalTelegramForAllWatches
<1>6. QED
  BY <1>2, <1>3, <1>4, <1>5

\* Every step leaves every snapshot spaced.
LEMMA NextKeepsSpaced == IInv /\ FInv /\ IInv' /\ AllSpaced /\ [Next]_vars => AllSpaced'
<1> SUFFICES ASSUME IInv, FInv, IInv', AllSpaced, [Next]_vars
             PROVE  AllSpaced'
  OBVIOUS
<1>1. /\ now \in Int /\ disk \in Snapshot /\ snap \in Snapshot \cup {None}
      /\ saves \in Seq(Save) /\ TypeOK
      /\ spent \in [edits : Nat, crashes : Nat, faults : Nat, setBacks : Nat]
  BY DEF IInv, TypeOK
<1>2. CASE UNCHANGED <<now, disk, snap, saves, spent>>
  BY <1>2 DEF AllSpaced
<1>3. CASE Tick
  <2>1. /\ now' = now + 1 /\ UNCHANGED <<disk, snap, saves, spent>>
    BY <1>3 DEF Tick
  <2>2. \A s \in Snapshot : Spaced(s, now) => Spaced(s, now + 1)
    BY <1>1, SpacedLater
  <2>3. ASSUME NEW i \in 1..Len(saves) PROVE saves[i].snap \in Snapshot
    <3>1. saves[i] \in Save
      BY <1>1
    <3>2. QED
      BY <3>1 DEF Save
  <2>4. QED
    BY <1>1, <2>1, <2>2, <2>3 DEF AllSpaced
<1>4. CASE SetClockBack
  <2>1. spent'.setBacks = spent.setBacks + 1 /\ spent.setBacks \in Nat
    BY <1>1, <1>4 DEF SetClockBack
  <2>2. QED
    BY <2>1 DEF AllSpaced
<1>5. CASE WakeWhileBusy \/ Open \/ WakeCold \/ ReadAgain \/ LearnStores
  BY <1>2, <1>5 DEF WakeWhileBusy, Open, WakeCold, ReadAgain, BootWith, LearnStores
<1>6. CASE FinishLoad
  <2>1. /\ snap' = NormalizePersistedClockSkew(disk, now)
        /\ UNCHANGED <<now, disk, saves, spent>>
    BY <1>6 DEF FinishLoad
  <2>2. Spaced(disk, now) => Spaced(snap', now)
    BY <1>1, <2>1, LoadIsSpaced
  <2>3. QED
    BY <2>1, <2>2 DEF AllSpaced
<1>7. CASE Crash \/ WriteSucceeds \/ WriteFails
  <2>1. /\ now' = now /\ spent'.setBacks = spent.setBacks
        /\ \/ disk' = disk
           \/ saves # << >> /\ disk' = Head(saves).snap
        /\ \/ saves' = << >>
           \/ saves # << >> /\ saves' = Tail(saves)
        /\ \/ snap' = None
           \/ snap' = snap
    BY <1>1, <1>7 DEF Crash, WriteSucceeds, WriteFails
  <2>2. spent.setBacks = 0 => Spaced(disk', now)
    BY <2>1, HeadOfSaves DEF AllSpaced
  <2>3. spent.setBacks = 0 => \A i \in 1..Len(saves') : Spaced(saves'[i].snap, now)
    BY <2>1, HeadOfSaves DEF AllSpaced
  <2>4. QED
    BY <2>1, <2>2, <2>3 DEF AllSpaced
<1>8. CASE Wake \/ CheckNow \/ CycleStep \/ UserEdit
  <2>1. /\ UNCHANGED <<now, disk>> /\ spent'.setBacks = spent.setBacks
        /\ \/ saves' = saves
           \/ \E by \in {"cycle", "edit", "reset"} : Persist(by, snap')
    BY <1>1, <1>8, WorkerSteps
  <2>2. ASSUME spent.setBacks = 0, snap' # None PROVE Spaced(snap', now)
    <3>1. CASE Reset
      <4>1. \A x \in Scopes : snap'.delivery[x] = NoDelivery
        BY <3>1 DEF Reset, EmptySnapshot
      <4>2. QED
        BY <4>1 DEF Spaced, NoDelivery
    <3>2. CASE ~Reset
      <4>1. Working
        BY <1>8, <2>2, <3>2, WorkingCycle
           DEF Working, Ready, Wake, CheckNow, BeginCycle, CycleStep, FetchSettles,
               StartDispatch, Attempt, EndDispatch, Recheck, Resolve, ContactProvider,
               DeclineDelivery, ProviderAnswers, DeliveryAborted, UserEdit, AddWatch,
               ReplaceWatch, SetWatchEnabled, DeleteWatch,
               DisablePersonalTelegramForAllWatches, Edit
      <4>2. Spaced(snap, now)
        BY <2>2, <4>1 DEF AllSpaced, Working, Ready
      <4>3. QED
        BY <4>1, <4>2, WorkingIsSpaced
    <3>3. QED
      BY <3>1, <3>2
  <2>3. QED
    BY <2>1, <2>2, MemoryStepSpaced
<1>9. CASE LoadFails \/ StartMonitor
  <2>1. UNCHANGED <<now, disk, snap, saves>> /\ spent'.setBacks = spent.setBacks
    BY <1>1, <1>9 DEF LoadFails, StartMonitor
  <2>2. QED
    BY <1>1, <2>1 DEF AllSpaced
<1>10. QED
  BY <1>2, <1>3, <1>4, <1>5, <1>6, <1>7, <1>8, <1>9 DEF Next, vars

\* Every snapshot is spaced in every reachable state.
THEOREM AllSpacedAlways == Spec => []AllSpaced
<1>1. Init => AllSpaced
  <2> SUFFICES ASSUME Init PROVE AllSpaced
    OBVIOUS
  <2>1. PICK watches : disk = [EmptySnapshot EXCEPT !.watches = watches]
    BY DEF Init
  <2>2. \A x \in Scopes : disk.delivery[x] = NoDelivery
    BY <2>1 DEF EmptySnapshot
  <2>3. Spaced(disk, now)
    BY <2>2 DEF Spaced, NoDelivery
  <2>4. snap = None /\ Len(saves) = 0
    BY DEF Init
  <2>5. QED
    BY <2>3, <2>4 DEF AllSpaced
<1>2. IInv /\ FInv /\ IInv' /\ AllSpaced /\ [Next]_vars => AllSpaced'
  BY NextKeepsSpaced
<1>3. QED
  BY <1>1, <1>2, IInvAlways, FInvAlways, PTL DEF Spec

\* Two alerts of one scope are a cooldown apart, deferred ones included, as long as
\* the clock is not set back: neither a crash, a restart nor a full ledger brings
\* the second one forward.  (The code compares wall clock readings, so a clock that
\* is set back may bring a deferred alert closer.)
THEOREM AlertsAreAlwaysSpaced == Spec /\ [](spent.setBacks = 0) => AlertsAreSpaced
<1> DEFINE A == Working =>
        \A x \in Scopes :
            LET before == snap.delivery[x].alertedAt
                after  == snap'.delivery[x].alertedAt
            IN  before # None /\ after # None /\ before # after
                => after - before >= Cooldown
           Calm0 == spent.setBacks = 0
<1>1. IInv /\ FInv /\ AllSpaced /\ Calm0 /\ [Next]_vars => [A]_vars
  <2> DEFINE before(x) == snap.delivery[x].alertedAt
             after(x)  == snap'.delivery[x].alertedAt
  <2> SUFFICES ASSUME IInv, FInv, AllSpaced, Calm0, [Next]_vars, Working,
                      NEW x \in Scopes,
                      before(x) # None, after(x) # None, before(x) # after(x)
               PROVE  after(x) - before(x) >= Cooldown
    OBVIOUS
  <2>1. /\ snap \in Snapshot /\ now \in Int /\ Fits(snap) /\ Spaced(snap, now)
    BY WorkingStep DEF Working, Ready, FInv, AllSpaced
  <2>2. ASSUME NEW s \in Snapshot, Spaced(s, now), s.delivery[x].alertedAt = before(x),
               NEW numbers, NEW atStart, SomePromoted(s, snap', numbers, atStart)
        PROVE  after(x) - before(x) >= Cooldown
    <3>1. PICK queued \in SUBSET Promotable(s, now, atStart, catalog) :
            Promotes(s, snap', queued, numbers, now, atStart)
      BY <2>2 DEF SomePromoted
    <3>2. MarkersFollow(s, snap', queued, {}, now)
      BY <3>1 DEF Promotes
    <3>3. x \in queued /\ after(x) = now
      BY <2>2, <3>2 DEF MarkersFollow
    <3>4. s.delivery[x].deferred = "pending"
      BY <3>1, <3>3, PromotableIsReady
    <3>5. /\ s.delivery[x].deferredAt <= now
          /\ s.delivery[x].deferredAt - before(x) >= Cooldown
      BY <2>2, <3>4 DEF Spaced
    <3>6. before(x) \in Int /\ s.delivery[x].deferredAt \in Int
      BY <2>2, <3>4, DeliveryTimes
    <3>7. QED
      BY <2>1, <3>3, <3>5, <3>6, DelaysAssumption
  <2>3. CASE RaisesNothing(snap, snap')
    BY <2>3 DEF RaisesNothing
  <2>4. CASE SomePromoted(Reconciled, snap', serial, catalog)
    <3>1. /\ Reconciled \in Snapshot /\ Spaced(Reconciled, now)
          /\ Reconciled.delivery[x].alertedAt = before(x)
      BY <2>1, ReconciledFields, CalmIsSpaced
    <3>2. QED
      BY <2>2, <2>4, <3>1
  <2>5. CASE \E obs, recorded, later : AnswerIsRecorded(obs, recorded, later)
    <3>1. PICK obs, recorded, later : AnswerIsRecorded(obs, recorded, later)
      BY <2>5
    <3> DEFINE alerting == Alerting(snap, obs, now, catalog)
    <3>2. /\ recorded \in Snapshot /\ DOMAIN obs \subseteq Scopes
          /\ SomeRecorded(snap, recorded, obs, serial, later)
          /\ snap' = recorded \/ SomePromoted(recorded, snap', later, cycle.catalog)
      BY <3>1 DEF AnswerIsRecorded, IsAnswer
    <3>3. PICK queued \in SUBSET alerting :
            Records(snap, recorded, obs, queued, alerting \ queued, serial, now)
      BY <3>2 DEF SomeRecorded
    <3>4. MarkersFollow(snap, recorded, queued, alerting \ queued, now)
      BY <3>3 DEF Records
    <3>5. \A y \in alerting : CooledDown(now, snap.delivery[y].alertedAt, Cooldown)
      BY <2>1, <3>2, AlertingIsNew
    <3>6. Spaced(recorded, now)
      BY <2>1, <3>2, RecordingIsSpaced
    <3> HIDE DEF alerting
    <3>7. CASE x \in queued
      <4>1. recorded.delivery[x].alertedAt = now /\ recorded.delivery[x].deferred # "pending"
        BY <3>4, <3>7 DEF MarkersFollow
      <4>2. after(x) = now
        <5>1. CASE snap' = recorded
          BY <4>1, <5>1
        <5>2. CASE SomePromoted(recorded, snap', later, cycle.catalog)
          <6>1. PICK promoted \in SUBSET Promotable(recorded, now, cycle.catalog, catalog) :
                  Promotes(recorded, snap', promoted, later, now, cycle.catalog)
            BY <5>2 DEF SomePromoted
          <6>2. MarkersFollow(recorded, snap', promoted, {}, now)
            BY <6>1 DEF Promotes
          <6>3. x \notin promoted
            BY <3>2, <4>1, <6>1, PromotableIsReady
          <6>4. QED
            BY <4>1, <6>2, <6>3 DEF MarkersFollow
        <5>3. QED
          BY <3>2, <5>1, <5>2
      <4>3. CooledDown(now, before(x), Cooldown)
        BY <3>5, <3>7
      <4>4. QED
        BY <4>2, <4>3 DEF CooledDown
    <3>8. CASE x \notin queued
      <4>1. recorded.delivery[x].alertedAt = before(x)
        BY <3>4, <3>8 DEF MarkersFollow
      <4>2. QED
        BY <2>2, <3>2, <3>6, <4>1
    <3>9. QED
      BY <3>7, <3>8
  <2>6. QED
    BY <2>3, <2>4, <2>5, WorkingStep
<1>2. QED
  BY <1>1, IInvAlways, FInvAlways, AllSpacedAlways, PTL DEF Spec, AlertsAreSpaced

-------------------------------------------------------------------------------
(***************************************************************************)
(* The delay a host has asked for.  The promise compares a poll with what  *)
(* is on disk, and the code with what is in memory: the two agree once the *)
(* saves of the cycle are written, and a cycle waits for them.             *)
(***************************************************************************)

\* No save of the cycle waits in q from its i-th on.
NoCycleSave(q, i) == \A j \in i..Len(q) : q[j].by # "cycle"

\* Whatever was saved last by the cycle, on disk or on its way there, holds the
\* backoff that is in memory: edits carry it along.
BackoffOnRecord ==
    /\ loading => snap = None
    /\ Ready =>
        /\ NoCycleSave(saves, 1) => disk.nextEligibleAt = snap.nextEligibleAt
        /\ \A i \in 1..Len(saves) :
            NoCycleSave(saves, i + 1) =>
                saves[i].snap.nextEligibleAt = snap.nextEligibleAt

\* What may take the backoff in memory away from the one on disk: a reset, a write
\* that fails, and a load that drops the backoff because of the clock.
KeepsBackoff ==
    /\ ~Reset
    /\ ~WriteFails
    /\ FinishLoad => snap'.nextEligibleAt = disk.nextEligibleAt

\* Queueing a save that carries the backoff of memory keeps it on record.
LEMMA PersistKeepsBackoffRecord ==
    ASSUME IInv, IInv', Ready, BackoffOnRecord, disk' = disk, ~loading', snap' # None,
           NEW by \in {"cycle", "edit"}, Persist(by, snap'),
           by = "edit" => snap'.nextEligibleAt = snap.nextEligibleAt
    PROVE  BackoffOnRecord'
<1> DEFINE n == Len(saves)
<1>1. saves \in Seq(Save) /\ snap' \in Snapshot
  BY DEF IInv, TypeOK
<1>2. /\ n \in Nat /\ Len(saves') = n + 1
      /\ \A i \in 1..n : saves'[i] = saves[i]
      /\ saves'[n + 1].by = by /\ saves'[n + 1].snap = snap'
  BY <1>1, PersistAppends
<1> HIDE DEF n
<1>3. ASSUME NEW i \in 1..(n + 1), NoCycleSave(saves', i)
      PROVE  by = "edit" /\ NoCycleSave(saves, i)
  BY <1>2, <1>3 DEF NoCycleSave, n
<1>4. NoCycleSave(saves', 1) => disk'.nextEligibleAt = snap'.nextEligibleAt
  BY <1>2, <1>3 DEF BackoffOnRecord
<1>5. ASSUME NEW i \in 1..(n + 1), NoCycleSave(saves', i + 1)
      PROVE  saves'[i].snap.nextEligibleAt = snap'.nextEligibleAt
  <2>1. CASE i = n + 1
    BY <1>2, <2>1
  <2>2. CASE i \in 1..n
    <3>1. i + 1 \in 1..(n + 1)
      BY <1>2, <2>2
    <3>2. by = "edit" /\ NoCycleSave(saves, i + 1)
      BY <1>3, <1>5, <3>1
    <3>3. QED
      BY <1>2, <2>2, <3>2 DEF BackoffOnRecord, n
  <2>3. QED
    BY <1>2, <2>1, <2>2
<1>6. QED
  BY <1>2, <1>4, <1>5 DEF BackoffOnRecord

\* A write that settles moves the record to the disk.
LEMMA WriteKeepsBackoffRecord ==
    ASSUME IInv, BackoffOnRecord, WriteSucceeds
    PROVE  BackoffOnRecord'
<1> DEFINE n == Len(saves)
<1>1. /\ saves # << >> /\ ~loading /\ UNCHANGED <<snap, loading>>
      /\ disk' = Head(saves).snap /\ saves' = Tail(saves)
  BY DEF WriteSucceeds
<1>2. saves \in Seq(Save)
  BY DEF IInv, TypeOK
<1>3. /\ disk' = saves[1].snap /\ n \in Nat \ {0} /\ Len(saves') = n - 1
      /\ \A i \in 1..(n - 1) : i + 1 \in 1..n /\ saves'[i] = saves[i + 1]
  BY <1>1, <1>2, HeadOfSaves
<1> HIDE DEF n
<1>4. ASSUME NEW i \in 1..n, NoCycleSave(saves', i)
      PROVE  NoCycleSave(saves, i + 1)
  <2> SUFFICES ASSUME NEW j \in (i + 1)..n PROVE saves[j].by # "cycle"
    BY DEF NoCycleSave, n
  <2>1. j - 1 \in i..(n - 1) /\ j - 1 \in 1..(n - 1) /\ (j - 1) + 1 = j
    BY <1>3
  <2>2. QED
    BY <1>3, <1>4, <2>1 DEF NoCycleSave
<1>5. QED
  <2>1. Ready' <=> Ready
    BY <1>1 DEF Ready
  <2>2. ASSUME Ready, NoCycleSave(saves', 1)
        PROVE  disk'.nextEligibleAt = snap'.nextEligibleAt
    <3>1. 1 \in 1..n
      BY <1>3
    <3>2. NoCycleSave(saves, 1 + 1)
      BY <1>4, <2>2, <3>1
    <3>3. saves[1].snap.nextEligibleAt = snap.nextEligibleAt
      BY <2>2, <3>1, <3>2 DEF BackoffOnRecord, n
    <3>4. QED
      BY <1>1, <1>3, <3>3
  <2>3. ASSUME Ready, NEW i \in 1..(n - 1), NoCycleSave(saves', i + 1)
        PROVE  saves'[i].snap.nextEligibleAt = snap'.nextEligibleAt
    <3>1. i + 1 \in 1..n
      BY <1>3
    <3>2. NoCycleSave(saves, (i + 1) + 1)
      BY <1>4, <2>3, <3>1
    <3>3. saves[i + 1].snap.nextEligibleAt = snap.nextEligibleAt
      BY <2>3, <3>1, <3>2 DEF BackoffOnRecord, n
    <3>4. QED
      BY <1>1, <1>3, <3>3
  <2>4. loading' => snap' = None
    BY <1>1
  <2>5. QED
    BY <1>3, <2>1, <2>2, <2>3, <2>4 DEF BackoffOnRecord

\* How a loaded engine's step treats the backoff.
LEMMA StepsSaveBackoff ==
    ASSUME IInv, FInv, [Next]_vars, KeepsBackoff, Working, ~WriteSucceeds
    PROVE  /\ disk' = disk /\ ~loading'
           /\ \/ saves' = saves /\ snap'.nextEligibleAt = snap.nextEligibleAt
              \/ Persist("edit", snap') /\ snap'.nextEligibleAt = snap.nextEligibleAt
              \/ Persist("cycle", snap')
<1>1. TypeOK /\ snap # None /\ ~loading /\ snap' # None /\ ~Reset /\ ~WriteFails
  BY DEF IInv, Working, Ready, KeepsBackoff
<1>2. CASE Wake \/ CheckNow \/ FetchSettles
  <2>1. UNCHANGED <<disk, loading>> /\ SavesBackoff
    <3>1. CASE FetchSettles
      BY <3>1, FetchSettlesRaises DEF FetchSettles
    <3>2. CASE Wake \/ CheckNow
      <4>1. {} \in SUBSET Watches
        OBVIOUS
      <4>2. PICK force \in SUBSET Watches : \E rung : BeginCycle(force, rung)
        BY <3>2, <4>1 DEF Wake, CheckNow
      <4>3. QED
        BY <4>2, BeginCycleRaises DEF BeginCycle
    <3>3. QED
      BY <1>2, <3>1, <3>2
  <2>2. QED
    BY <1>1, <2>1 DEF SavesBackoff
<1>3. CASE ~(Wake \/ CheckNow \/ FetchSettles)
  <2>1. snap'.nextEligibleAt = snap.nextEligibleAt
    BY <1>1, <1>3, QuietStepsAreCalm
  <2>2. CASE UserEdit
    <3>1. \A ws, new : Edit(ws, new) => Persist("edit", snap') /\ UNCHANGED <<disk, loading>>
      BY DEF Edit
    <3>2. \E ws, new : Edit(ws, new)
      BY <1>1, <2>2 DEF UserEdit, AddWatch, ReplaceWatch, SetWatchEnabled, DeleteWatch,
                        DisablePersonalTelegramForAllWatches
    <3>3. QED
      BY <1>1, <2>1, <3>1, <3>2
  <2>3. CASE CycleStep
    <3>1. \A outcome : Settle(outcome) => saves' = saves \/ Persist("cycle", snap')
      BY DEF Settle
    <3>2. UNCHANGED <<disk, loading>>
      BY <2>3 DEF CycleStep, FetchSettles, StartDispatch, Attempt, EndDispatch, Recheck,
                  Resolve, ContactProvider, DeclineDelivery, ProviderAnswers, DeliveryAborted
    <3>3. saves' = saves \/ Persist("cycle", snap')
      BY <1>3, <2>3, <3>1
         DEF CycleStep, StartDispatch, Attempt, EndDispatch, Recheck, Resolve,
             ContactProvider, DeclineDelivery, ProviderAnswers, DeliveryAborted
    <3>4. QED
      BY <1>1, <2>1, <3>2, <3>3
  <2>4. CASE \/ Tick \/ SetClockBack \/ WakeWhileBusy \/ LearnStores \/ UNCHANGED vars
    BY <1>1, <2>1, <2>4 DEF Tick, SetClockBack, WakeWhileBusy, LearnStores, vars
  <2>5. ~Open /\ ~WakeCold /\ ~FinishLoad /\ ~LoadFails /\ ~ReadAgain /\ ~Crash
    BY <1>1 DEF Open, WakeCold, BootWith, Alive, FinishLoad, LoadFails, ReadAgain, Crash
  <2>6. CASE StartMonitor
    BY <1>1, <2>1, <2>6 DEF StartMonitor
  <2>7. QED
    BY <1>1, <1>3, <2>2, <2>3, <2>4, <2>5, <2>6 DEF Next
<1>4. QED
  BY <1>2, <1>3

\* Every step that keeps the backoff keeps it on record.
LEMMA NextKeepsBackoffRecord ==
    ASSUME IInv, IInv', FInv, BackoffOnRecord, [Next]_vars, KeepsBackoff
    PROVE  BackoffOnRecord'
<1>1. CASE WriteSucceeds
  BY <1>1, WriteKeepsBackoffRecord
<1>2. CASE Working /\ ~WriteSucceeds
  <2>1. /\ disk' = disk /\ ~loading' /\ snap' # None /\ Ready
        /\ \/ saves' = saves /\ snap'.nextEligibleAt = snap.nextEligibleAt
           \/ Persist("edit", snap') /\ snap'.nextEligibleAt = snap.nextEligibleAt
           \/ Persist("cycle", snap')
    BY <1>2, StepsSaveBackoff DEF Working
  <2>2. CASE saves' = saves /\ snap'.nextEligibleAt = snap.nextEligibleAt
    BY <2>1, <2>2 DEF BackoffOnRecord
  <2>3. CASE Persist("edit", snap') /\ snap'.nextEligibleAt = snap.nextEligibleAt
    BY <2>1, <2>3, PersistKeepsBackoffRecord
  <2>4. CASE Persist("cycle", snap')
    BY <2>1, <2>4, PersistKeepsBackoffRecord
  <2>5. QED
    BY <2>1, <2>2, <2>3, <2>4
<1>3. CASE FinishLoad
  <2>1. saves' = << >>
    BY <1>3 DEF FinishLoad, BackoffOnRecord, IInv, Coherent
  <2>2. ~loading' /\ disk' = disk /\ snap'.nextEligibleAt = disk.nextEligibleAt
    BY <1>3 DEF FinishLoad, KeepsBackoff
  <2>3. QED
    BY <2>1, <2>2 DEF BackoffOnRecord
<1>4. CASE ~Ready /\ ~WriteSucceeds /\ ~FinishLoad
  <2>1. snap = None /\ cycle.pc = "idle" /\ saves = << >>
    BY <1>4 DEF Ready, BackoffOnRecord, IInv, Coherent
  <2>2. ~CycleStep /\ ~Wake /\ ~CheckNow /\ ~UserEdit /\ ~WriteFails
    BY <1>4, <2>1
       DEF CycleStep, FetchSettles, StartDispatch, Attempt, EndDispatch, Recheck, Resolve,
           ContactProvider, DeclineDelivery, ProviderAnswers, DeliveryAborted, Wake,
           CheckNow, BeginCycle, UserEdit, AddWatch, ReplaceWatch, SetWatchEnabled,
           DeleteWatch, DisablePersonalTelegramForAllWatches, Edit, KeepsBackoff
  <2>3. snap' = None
    BY <1>4, <2>1, <2>2 DEF Next, vars, Tick, SetClockBack, WakeWhileBusy, Open,
       WakeCold, LoadFails, ReadAgain, StartMonitor,
                            BootWith, Crash, LearnStores
  <2>4. QED
    BY <2>3 DEF BackoffOnRecord, Ready
<1>5. CASE snap' = None
  BY <1>5 DEF BackoffOnRecord, Ready
<1>6. QED
  BY <1>1, <1>2, <1>3, <1>4, <1>5 DEF Working

\* A cycle goes from rest to polling only by beginning.
LEMMA PollsBeginOnlyHere ==
    ASSUME IInv, Next, cycle.pc = "idle", cycle'.pc = "fetching"
    PROVE  \E force \in SUBSET Watches : \E rung :
                BeginCycle(force, rung) /\ BeginPolling(force, rung)
<1>1. cycle \in Cycle /\ cycle' # cycle
  BY DEF IInv, TypeOK
<1>2. cycle' # IdleCycle
  BY DEF IdleCycle
<1>3. cycle' # Recording
  BY DEF Recording, IdleCycle
<1>4. ~Tick /\ ~SetClockBack /\ ~WakeWhileBusy /\ ~Open /\ ~WakeCold /\ ~LoadFails
      /\ ~ReadAgain /\ ~StartMonitor /\ ~FinishLoad
      /\ ~Crash /\ ~LearnStores
  BY <1>1, <1>2 DEF Tick, SetClockBack, WakeWhileBusy, Open, WakeCold, LoadFails,
     ReadAgain, StartMonitor, BootWith, FinishLoad,
              Crash, LearnStores
<1>5. ~WriteSucceeds /\ ~WriteFails
  <2>1. saves # << >> => Head(saves).by # "cycle"
    BY HeadOfSaves DEF IInv, CycleSaves, Waiting
  <2>2. QED
    BY <1>1, <1>2, <2>1 DEF WriteSucceeds, WriteFails
<1>6. ~CycleStep
  BY DEF CycleStep, FetchSettles, StartDispatch, Attempt, EndDispatch, Recheck, Resolve,
         ContactProvider, DeclineDelivery, ProviderAnswers, DeliveryAborted
<1>7. ~UserEdit
  <2>1. ASSUME NEW aborted, cycle' = [cycle EXCEPT !.aborted = aborted]
        PROVE  FALSE
    BY <1>1, <2>1 DEF Cycle
  <2>2. \A ws, new : ~Edit(ws, new)
    BY <2>1 DEF Edit
  <2>3. ~Reset
    BY <2>1 DEF Reset
  <2>4. QED
    BY <2>2, <2>3 DEF UserEdit, AddWatch, ReplaceWatch, SetWatchEnabled, DeleteWatch,
                      DisablePersonalTelegramForAllWatches
<1>8. PICK force \in SUBSET Watches : \E rung : BeginCycle(force, rung)
  <2>1. {} \in SUBSET Watches
    OBVIOUS
  <2>2. QED
    BY <1>4, <1>5, <1>6, <1>7, <2>1 DEF Next, Wake, CheckNow
<1>9. \A rung : BeginCycle(force, rung) => BeginPolling(force, rung)
  BY <1>3 DEF BeginCycle, BeginBackedOff, BeginWithoutCatalog, BeginIdle,
                    BeginUnsupported
<1>10. QED
  BY <1>8, <1>9

\* No poll starts while the backoff that is on disk lasts, as long as memory does
\* not lose it: restarts and edits, whatever they interleave with, do not bring the
\* next poll forward.
THEOREM BackoffIsHonoured == Spec /\ [][KeepsBackoff]_vars => HostBackoffIsHonoured
<1> DEFINE A == cycle.pc = "idle" /\ cycle'.pc = "fetching"
                => disk.nextEligibleAt = None \/ disk.nextEligibleAt <= now
<1>1. Init => BackoffOnRecord
  BY DEF Init, BackoffOnRecord, Ready
<1>2. IInv /\ IInv' /\ FInv /\ BackoffOnRecord /\ [Next]_vars /\ [KeepsBackoff]_vars
      => BackoffOnRecord'
  <2>1. CASE UNCHANGED vars
    BY <2>1 DEF vars, BackoffOnRecord, Ready, NoCycleSave
  <2>2. QED
    BY <2>1, NextKeepsBackoffRecord
<1>3. IInv /\ FInv /\ BackoffOnRecord /\ [Next]_vars => [A]_vars
  <2> SUFFICES ASSUME IInv, BackoffOnRecord, Next, cycle.pc = "idle",
                      cycle'.pc = "fetching"
               PROVE  disk.nextEligibleAt = None \/ disk.nextEligibleAt <= now
    BY DEF vars
  <2>1. PICK force \in SUBSET Watches :
            \E rung : BeginCycle(force, rung) /\ BeginPolling(force, rung)
    BY PollsBeginOnlyHere
  <2>2. Ready /\ ~InHostBackoff(Reconciled, now)
    BY <2>1 DEF BeginCycle, BeginPolling
  <2>3. /\ snap \in Snapshot /\ now \in Int
        /\ snap.nextEligibleAt \in Int \cup {None}
        /\ Reconciled.nextEligibleAt = snap.nextEligibleAt
    BY <2>2, ReconciledFields DEF Ready, IInv, TypeOK, Snapshot, OptTime
  <2>4. NoCycleSave(saves, 1)
    BY DEF NoCycleSave, IInv, CycleSaves, Waiting
  <2>5. disk.nextEligibleAt = snap.nextEligibleAt
    BY <2>2, <2>4 DEF BackoffOnRecord
  <2>6. QED
    BY <2>2, <2>3, <2>5 DEF InHostBackoff
<1>4. QED
  BY <1>1, <1>2, <1>3, IInvAlways, FInvAlways, PTL DEF Spec, HostBackoffIsHonoured

-------------------------------------------------------------------------------
(***************************************************************************)
(* The promise of the book.  Storage is always behind memory: the disk,    *)
(* the saves that wait and the snapshot in memory are in the order in      *)
(* which they were taken.  A copy that leaves this chain of snapshots does *)
(* not come back, and while it is there it keeps its tries and its         *)
(* verdict, so that whichever snapshot the next write, a failing one or a  *)
(* death puts on the disk continues what the disk said before.             *)
(***************************************************************************)

CopyIn(s, p) == s.pending[p[1]].channels[p[2]]

\* In the snapshots C[0], ..., C[n] each copy is held without a gap.
InOrder(C, n) ==
    \A p \in Copies : \A i, j \in 0..n :
        i <= j /\ Holds(C[i], p) /\ Holds(C[j], p) =>
            /\ CopyIn(C[i], p).attempts <= CopyIn(C[j], p).attempts
            /\ CopyIn(C[i], p).state # "pending"
                => CopyIn(C[j], p).state = CopyIn(C[i], p).state
            /\ \A k \in i..j : Holds(C[k], p)

\* The disk, the saves that wait, and memory once it is loaded.
Newest == IF snap = None THEN 0 ELSE Len(saves) + 1

Chain == [k \in 0..Newest |-> IF k = 0 THEN disk
                              ELSE IF k <= Len(saves) THEN saves[k].snap
                              ELSE snap]

\* Leaving snapshots out, or repeating one, keeps the order.
LEMMA SomeAreInOrder ==
    ASSUME NEW n \in Nat, NEW m \in Nat, NEW C, NEW D, InOrder(C, n),
           NEW f \in [0..m -> 0..n],
           \A i, j \in 0..m : i <= j => f[i] <= f[j],
           \A i \in 0..m : D[i] = C[f[i]]
    PROVE  InOrder(D, m)
<1> SUFFICES ASSUME NEW p \in Copies, NEW i \in 0..m, NEW j \in 0..m,
                    i <= j, Holds(D[i], p), Holds(D[j], p)
             PROVE  /\ CopyIn(D[i], p).attempts <= CopyIn(D[j], p).attempts
                    /\ CopyIn(D[i], p).state # "pending"
                        => CopyIn(D[j], p).state = CopyIn(D[i], p).state
                    /\ \A k \in i..j : Holds(D[k], p)
  BY DEF InOrder
<1>1. /\ f[i] \in 0..n /\ f[j] \in 0..n /\ f[i] <= f[j]
      /\ D[i] = C[f[i]] /\ D[j] = C[f[j]]
  OBVIOUS
<1>2. /\ CopyIn(C[f[i]], p).attempts <= CopyIn(C[f[j]], p).attempts
      /\ CopyIn(C[f[i]], p).state # "pending"
            => CopyIn(C[f[j]], p).state = CopyIn(C[f[i]], p).state
      /\ \A k \in f[i]..f[j] : Holds(C[k], p)
  BY <1>1 DEF InOrder
<1>3. ASSUME NEW k \in i..j
      PROVE  Holds(D[k], p)
  <2>1. k \in 0..m /\ i <= k /\ k <= j
    OBVIOUS
  <2>2. f[k] \in f[i]..f[j] /\ D[k] = C[f[k]]
    BY <2>1
  <2>3. QED
    BY <1>2, <2>2
<1>4. QED
  BY <1>1, <1>2, <1>3

\* What an advance keeps of a copy that was recorded.
LEMMA RecordedCopyAdvances ==
    ASSUME NEW s \in Snapshot, NEW new \in Snapshot, NEW numbers \in [Scopes -> Nat],
           NEW later, NEW counts, Recorded(s, numbers, counts),
           AdvancesWith(s, new, numbers, later),
           NEW p \in Copies, Holds(new, p), p[1][2] <= numbers[p[1][1]]
    PROVE  /\ Holds(s, p)
           /\ CopyIn(s, p).attempts <= CopyIn(new, p).attempts
           /\ CopyIn(s, p).state # "pending" => CopyIn(new, p).state = CopyIn(s, p).state
<1>1. p[1][2] \in Int /\ numbers[p[1][1]] \in Nat
  BY CopyNames
<1>2. /\ Holds(s, p)
      /\ CopyAdvances(CopyIn(s, p), CopyIn(new, p))
  BY <1>1, CopyOfAdvance DEF CopyIn
<1>3. Rests(CopyIn(s, p))
  BY <1>2 DEF Recorded, CopyIn
<1>4. CopyIn(s, p).attempts \in Int /\ CopyIn(new, p).attempts \in Int
  BY <1>2, AttemptsType DEF Attempts, CopyIn
<1>5. QED
  BY <1>2, <1>3, <1>4 DEF CopyAdvances

\* The snapshot in memory may be followed by one that advances it.
LEMMA OneMoreIsInOrder ==
    ASSUME NEW n \in Nat, NEW C, InOrder(C, n),
           NEW numbers \in [Scopes -> Nat], NEW later, NEW counts,
           \A i \in 0..n : C[i] \in Snapshot /\ Recorded(C[i], numbers, counts),
           NEW new \in Snapshot, AdvancesWith(C[n], new, numbers, later),
           NEW D, \A i \in 0..n : D[i] = C[i], D[n + 1] = new
    PROVE  InOrder(D, n + 1)
<1> SUFFICES ASSUME NEW p \in Copies, NEW i \in 0..(n + 1), NEW j \in 0..(n + 1),
                    i <= j, Holds(D[i], p), Holds(D[j], p)
             PROVE  /\ CopyIn(D[i], p).attempts <= CopyIn(D[j], p).attempts
                    /\ CopyIn(D[i], p).state # "pending"
                        => CopyIn(D[j], p).state = CopyIn(D[i], p).state
                    /\ \A k \in i..j : Holds(D[k], p)
  BY DEF InOrder
<1>1. CASE j <= n
  <2>1. i \in 0..n /\ j \in 0..n
    BY <1>1
  <2>2. D[i] = C[i] /\ D[j] = C[j] /\ \A k \in i..j : k \in 0..n /\ D[k] = C[k]
    BY <2>1
  <2>3. QED
    BY <2>1, <2>2 DEF InOrder
<1>2. CASE i = n + 1
  <2>1. j = n + 1 /\ D[i] = new /\ D[j] = new /\ \A k \in i..j : k = n + 1
    BY <1>2
  <2>2. CopyIn(new, p).attempts \in Int
    BY <2>1, AttemptsType DEF Attempts, CopyIn
  <2>3. QED
    BY <2>1, <2>2
<1>3. CASE i <= n /\ j = n + 1
  <2>1. i \in 0..n /\ n \in 0..n /\ i <= n /\ D[i] = C[i] /\ D[j] = new
    BY <1>3
  <2>2. p[1][2] <= numbers[p[1][1]]
    BY <2>1, CopyNames DEF Recorded, Holds
  <2>3. /\ Holds(C[n], p)
        /\ CopyIn(C[n], p).attempts <= CopyIn(new, p).attempts
        /\ CopyIn(C[n], p).state # "pending"
            => CopyIn(new, p).state = CopyIn(C[n], p).state
    BY <2>1, <2>2, RecordedCopyAdvances
  <2>4. /\ CopyIn(C[i], p).attempts <= CopyIn(C[n], p).attempts
        /\ CopyIn(C[i], p).state # "pending"
            => CopyIn(C[n], p).state = CopyIn(C[i], p).state
        /\ \A k \in i..n : Holds(C[k], p)
    BY <2>1, <2>3 DEF InOrder
  <2>5. /\ CopyIn(C[i], p).attempts \in Int /\ CopyIn(C[n], p).attempts \in Int
        /\ CopyIn(new, p).attempts \in Int
    BY <2>1, <2>3, AttemptsType DEF Attempts, CopyIn
  <2>6. ASSUME NEW k \in i..j
        PROVE  Holds(D[k], p)
    <3>1. CASE k = n + 1
      BY <2>1, <1>3, <3>1
    <3>2. CASE k # n + 1
      <4>1. k \in i..n /\ k \in 0..n
        BY <1>3, <3>2
      <4>2. QED
        BY <2>4, <4>1
    <3>3. QED
      BY <3>1, <3>2
  <2>7. QED
    BY <2>1, <2>3, <2>4, <2>5, <2>6
<1>4. QED
  BY <1>1, <1>2, <1>3

\* No reset has put a snapshot in memory before one is loaded.
LoadComesFirst == loading => snap = None

ChainInOrder == InOrder(Chain, Newest)

\* The snapshots of the chain.
LEMMA ChainLinks ==
    ASSUME IInv, RInv
    PROVE  /\ Newest \in Nat /\ Len(saves) \in Nat
           /\ Chain[0] = disk
           /\ snap # None =>
                /\ Newest = Len(saves) + 1 /\ Chain[Newest] = snap
                /\ \A k \in 1..Len(saves) : Chain[k] = saves[k].snap
           /\ \A k \in 0..Newest :
                Chain[k] \in Snapshot /\ Recorded(Chain[k], serial, sends)
<1>1. /\ disk \in Snapshot /\ Len(saves) \in Nat /\ (snap # None => snap \in Snapshot)
      /\ \A i \in 1..Len(saves) : saves[i].snap \in Snapshot
  BY RecordTypes
<1>2. /\ Recorded(disk, serial, sends)
      /\ snap # None => Recorded(snap, serial, sends)
      /\ \A i \in 1..Len(saves) : Recorded(saves[i].snap, serial, sends)
  BY DEF RInv, AllRecorded
<1>3. Newest \in Nat /\ Newest = IF snap = None THEN 0 ELSE Len(saves) + 1
  BY <1>1 DEF Newest
<1>4. \A k \in 0..Newest :
        Chain[k] = IF k = 0 THEN disk
                   ELSE IF k <= Len(saves) THEN saves[k].snap
                   ELSE snap
  BY DEF Chain
<1>5. ASSUME NEW k \in 0..Newest
      PROVE  Chain[k] \in Snapshot /\ Recorded(Chain[k], serial, sends)
  <2>1. CASE k = 0
    BY <1>1, <1>2, <1>4, <2>1
  <2>2. CASE k \in 1..Len(saves)
    BY <1>1, <1>2, <1>4, <2>2
  <2>3. CASE k # 0 /\ k \notin 1..Len(saves)
    <3>1. snap # None /\ k = Len(saves) + 1
      BY <1>1, <1>3, <2>3
    <3>2. QED
      BY <1>1, <1>2, <1>4, <3>1
  <2>4. QED
    BY <2>1, <2>2, <2>3
<1>6. Chain[0] = disk
  BY <1>3, <1>4
<1>7. snap # None =>
        /\ Newest = Len(saves) + 1 /\ Chain[Newest] = snap
        /\ \A k \in 1..Len(saves) : Chain[k] = saves[k].snap
  BY <1>1, <1>3, <1>4
<1>8. QED
  BY <1>1, <1>3, <1>5, <1>6, <1>7

\* The same after a step.
LEMMA NextChainLinks ==
    ASSUME saves' \in Seq(Save)
    PROVE  /\ Newest' = IF snap' = None THEN 0 ELSE Len(saves') + 1
           /\ Len(saves') \in Nat /\ Newest' \in Nat
           /\ \A k \in 0..Newest' :
                Chain'[k] = IF k = 0 THEN disk'
                            ELSE IF k <= Len(saves') THEN saves'[k].snap
                            ELSE snap'
BY DEF Newest, Chain

\* A dead worker leaves only the disk.
LEMMA LoneDiskInOrder ==
    ASSUME IInv', snap' = None
    PROVE  ChainInOrder'
<1>1. Newest' = 0 /\ disk' \in Snapshot
  BY DEF Newest, IInv, TypeOK
<1>2. Chain'[0] = disk'
  BY <1>1 DEF Chain
<1>3. \A p \in Copies : Holds(disk', p) => CopyIn(disk', p).attempts \in Int
  BY <1>1, AttemptsType DEF Attempts, CopyIn
<1>4. ASSUME NEW p \in Copies, NEW i \in 0..0, NEW j \in 0..0, Holds(Chain'[i], p)
      PROVE  /\ CopyIn(Chain'[i], p).attempts <= CopyIn(Chain'[j], p).attempts
             /\ CopyIn(Chain'[j], p).state = CopyIn(Chain'[i], p).state
             /\ \A k \in i..j : Holds(Chain'[k], p)
  <2>1. i = 0 /\ j = 0 /\ \A k \in i..j : k = 0
    OBVIOUS
  <2>2. QED
    BY <1>2, <1>3, <1>4, <2>1
<1>5. InOrder(Chain', 0)
  BY <1>4 DEF InOrder
<1>6. QED
  BY <1>1, <1>5 DEF ChainInOrder

\* Loading continues what the disk says.
LEMMA LoadInOrder ==
    ASSUME IInv, RInv, IInv', snap = None, snap' # None, saves' = << >>, disk' = disk,
           ChainInOrder, AdvancesWith(disk, snap', serial, serial)
    PROVE  ChainInOrder'
<1>1. /\ Newest = 0 /\ Chain[0] = disk
      /\ \A k \in 0..0 : Chain[k] \in Snapshot /\ Recorded(Chain[k], serial, sends)
  BY ChainLinks DEF Newest
<1>2. snap' \in Snapshot /\ serial \in [Scopes -> Nat] /\ saves' \in Seq(Save)
  BY DEF IInv, TypeOK
<1>3. Newest' = 1 /\ Chain'[0] = disk /\ Chain'[1] = snap'
  <2>1. Len(saves') = 0
    OBVIOUS
  <2>2. Newest' = 1
    BY <1>2, <2>1, NextChainLinks
  <2>3. QED
    BY <1>2, <2>1, <2>2, NextChainLinks
<1>4. InOrder(Chain, 0) /\ AdvancesWith(Chain[0], snap', serial, serial)
  BY <1>1 DEF ChainInOrder
<1>5. /\ \A i \in 0..0 : Chain'[i] = Chain[i]
      /\ Chain'[0 + 1] = snap'
  BY <1>1, <1>3
<1> DEFINE C == Chain
           D == Chain'
<1>6. InOrder(C, 0) /\ AdvancesWith(C[0], snap', serial, serial)
      /\ (\A k \in 0..0 : C[k] \in Snapshot /\ Recorded(C[k], serial, sends))
      /\ (\A i \in 0..0 : D[i] = C[i]) /\ D[0 + 1] = snap'
  BY <1>1, <1>4, <1>5
<1> HIDE DEF C, D
<1>7. InOrder(D, 0 + 1)
  BY <1>2, <1>6, OneMoreIsInOrder
<1>8. QED
  BY <1>3, <1>7 DEF ChainInOrder, D

\* A step that advances memory, and may queue it, keeps the chain in order.
LEMMA MemoryStepInOrder ==
    ASSUME IInv, RInv, IInv', ChainInOrder, snap # None, snap' # None, disk' = disk,
           AdvancesWith(snap, snap', serial, serial'),
           \/ saves' = saves
           \/ \E by \in {"cycle", "edit", "reset"} : Persist(by, snap')
    PROVE  ChainInOrder'
<1> DEFINE n == Len(saves)
           C == Chain
           D == [k \in 0..(n + 2) |-> IF k <= n + 1 THEN C[k] ELSE snap']
<1>1. /\ snap' \in Snapshot /\ serial \in [Scopes -> Nat]
      /\ saves \in Seq(Save) /\ saves' \in Seq(Save)
  BY DEF IInv, TypeOK
<1>2. /\ n \in Nat /\ Newest = n + 1 /\ C[0] = disk /\ C[n + 1] = snap
      /\ \A k \in 1..n : C[k] = saves[k].snap
      /\ \A k \in 0..(n + 1) : C[k] \in Snapshot /\ Recorded(C[k], serial, sends)
  BY ChainLinks
<1>3. InOrder(C, n + 1)
  BY <1>2 DEF ChainInOrder
<1>4. \A k \in 0..(n + 2) : D[k] = IF k <= n + 1 THEN C[k] ELSE snap'
  OBVIOUS
<1>5. Newest' = Len(saves') + 1
      /\ \A k \in 0..(Len(saves') + 1) :
            Chain'[k] = IF k = 0 THEN disk'
                        ELSE IF k <= Len(saves') THEN saves'[k].snap
                        ELSE snap'
  BY <1>1, NextChainLinks
<1>6. \/ Len(saves') = n /\ \A k \in 1..n : saves'[k] = saves[k]
      \/ /\ Len(saves') = n + 1 /\ \A k \in 1..n : saves'[k] = saves[k]
         /\ saves'[n + 1].snap = snap'
  BY <1>1, PersistAppends
<1> DEFINE E == Chain'
<1>7. Newest' = Len(saves') + 1
      /\ \A k \in 0..(Len(saves') + 1) :
            E[k] = IF k = 0 THEN disk
                   ELSE IF k <= Len(saves') THEN saves'[k].snap
                   ELSE snap'
  BY <1>5
<1> HIDE DEF n, C, D, E
<1>8. InOrder(D, n + 2)
  <2>1. n + 1 \in Nat /\ (n + 1) + 1 = n + 2
    BY <1>2
  <2>2. (\A i \in 0..(n + 1) : D[i] = C[i]) /\ D[(n + 1) + 1] = snap'
    BY <1>2, <1>4
  <2>3. AdvancesWith(C[n + 1], snap', serial, serial')
    BY <1>2
  <2>4. InOrder(D, (n + 1) + 1)
    BY <1>1, <1>2, <1>3, <2>1, <2>2, <2>3, OneMoreIsInOrder
  <2>5. QED
    BY <2>1, <2>4
<1>9. CASE Len(saves') = n /\ \A k \in 1..n : saves'[k] = saves[k]
  <2> DEFINE f == [k \in 0..(n + 1) |-> IF k <= n THEN k ELSE n + 2]
  <2>1. f \in [0..(n + 1) -> 0..(n + 2)]
    BY <1>2
  <2>2. \A i, j \in 0..(n + 1) : i <= j => f[i] <= f[j]
    BY <1>2
  <2>3. ASSUME NEW k \in 0..(n + 1)
        PROVE  E[k] = D[f[k]]
    <3>1. CASE k = 0
      BY <1>2, <1>4, <1>7, <1>9, <3>1
    <3>2. CASE k \in 1..n
      BY <1>2, <1>4, <1>7, <1>9, <3>2
    <3>3. CASE k = n + 1
      BY <1>2, <1>4, <1>7, <1>9, <3>3
    <3>4. QED
      BY <1>2, <3>1, <3>2, <3>3
  <2> HIDE DEF f
  <2>4. n + 1 \in Nat /\ n + 2 \in Nat
    BY <1>2
  <2> DEFINE m == n + 1
             l == n + 2
  <2>5. /\ m \in Nat /\ l \in Nat /\ f \in [0..m -> 0..l] /\ InOrder(D, l)
        /\ \A i, j \in 0..m : i <= j => f[i] <= f[j]
        /\ \A i \in 0..m : E[i] = D[f[i]]
    BY <1>8, <2>1, <2>2, <2>3, <2>4
  <2> HIDE DEF m, l
  <2>6. InOrder(E, m)
    BY <2>5, SomeAreInOrder
  <2>7. QED
    BY <1>7, <1>9, <2>6 DEF ChainInOrder, E, m
<1>10. CASE /\ Len(saves') = n + 1 /\ \A k \in 1..n : saves'[k] = saves[k]
            /\ saves'[n + 1].snap = snap'
  <2> DEFINE f == [k \in 0..(n + 2) |-> IF k <= n THEN k ELSE n + 2]
  <2>1. f \in [0..(n + 2) -> 0..(n + 2)]
    BY <1>2
  <2>2. \A i, j \in 0..(n + 2) : i <= j => f[i] <= f[j]
    BY <1>2
  <2>3. ASSUME NEW k \in 0..(n + 2)
        PROVE  E[k] = D[f[k]]
    <3>1. CASE k = 0
      BY <1>2, <1>4, <1>7, <1>10, <3>1
    <3>2. CASE k \in 1..n
      BY <1>2, <1>4, <1>7, <1>10, <3>2
    <3>3. CASE k \in {n + 1, n + 2}
      <4>1. E[k] = snap'
        BY <1>2, <1>7, <1>10, <3>3
      <4>2. f[k] = n + 2 /\ D[n + 2] = snap'
        BY <1>2, <1>4, <3>3
      <4>3. QED
        BY <4>1, <4>2
    <3>4. QED
      BY <1>2, <3>1, <3>2, <3>3
  <2> HIDE DEF f
  <2>4. n + 2 \in Nat /\ (n + 1) + 1 = n + 2
    BY <1>2
  <2>5. InOrder(E, n + 2)
    BY <1>8, <2>1, <2>2, <2>3, <2>4, SomeAreInOrder
  <2>6. QED
    BY <1>7, <1>10, <2>4, <2>5 DEF ChainInOrder, E
<1>11. QED
  BY <1>6, <1>9, <1>10

\* A write that settles, either way, keeps the chain in order.
LEMMA WriteInOrder ==
    ASSUME IInv, RInv, ChainInOrder, snap # None, snap' = snap, saves # << >>,
           saves' = Tail(saves), disk' = disk \/ disk' = Head(saves).snap
    PROVE  ChainInOrder'
<1> DEFINE n == Len(saves)
           C == Chain
           E == Chain'
<1>1. saves \in Seq(Save)
  BY DEF IInv, TypeOK
<1>2. /\ n \in Nat /\ Newest = n + 1 /\ C[0] = disk /\ C[n + 1] = snap
      /\ \A k \in 1..n : C[k] = saves[k].snap
  BY ChainLinks
<1>3. InOrder(C, n + 1)
  BY <1>2 DEF ChainInOrder
<1>4. /\ Len(saves') = n - 1 /\ n >= 1 /\ Head(saves) = saves[1]
      /\ \A k \in 1..(n - 1) : saves'[k] = saves[k + 1]
      /\ saves' \in Seq(Save)
  BY <1>1, HeadOfSaves
<1>5. /\ Newest' = n
      /\ \A k \in 0..n : E[k] = IF k = 0 THEN disk'
                                ELSE IF k <= n - 1 THEN saves'[k].snap
                                ELSE snap'
  <2>1. Newest' = n
    BY <1>2, <1>4, NextChainLinks
  <2>2. QED
    BY <1>4, <2>1, NextChainLinks
<1> DEFINE f == [k \in 0..n |-> IF k = 0 THEN IF disk' = disk THEN 0 ELSE 1 ELSE k + 1]
<1>6. /\ f \in [0..n -> 0..(n + 1)]
      /\ \A i, j \in 0..n : i <= j => f[i] <= f[j]
      /\ f[0] = IF disk' = disk THEN 0 ELSE 1
      /\ \A k \in 1..n : f[k] = k + 1
  BY <1>2, <1>4
<1> HIDE DEF n, C, E, f
<1>7. ASSUME NEW k \in 0..n
      PROVE  E[k] = C[f[k]]
  <2>1. CASE k = 0
    BY <1>2, <1>4, <1>5, <1>6, <2>1
  <2>2. CASE k \in 1..(n - 1)
    <3>1. k # 0 /\ k <= n - 1 /\ k \in 1..n /\ k + 1 \in 1..n
      BY <1>2, <2>2
    <3>2. E[k] = saves'[k].snap /\ f[k] = k + 1
      BY <1>5, <1>6, <3>1
    <3>3. QED
      BY <1>2, <1>4, <2>2, <3>1, <3>2
  <2>3. CASE k = n
    <3>1. E[k] = snap /\ f[k] = n + 1
      BY <1>2, <1>4, <1>5, <1>6, <2>3
    <3>2. QED
      BY <1>2, <3>1
  <2>4. QED
    BY <1>2, <2>1, <2>2, <2>3
<1>8. n + 1 \in Nat
  BY <1>2
<1>9. InOrder(E, n)
  <2> DEFINE l == n + 1
  <2>1. /\ n \in Nat /\ l \in Nat /\ f \in [0..n -> 0..l] /\ InOrder(C, l)
        /\ \A i, j \in 0..n : i <= j => f[i] <= f[j]
        /\ \A i \in 0..n : E[i] = C[f[i]]
    BY <1>2, <1>3, <1>6, <1>7, <1>8
  <2> HIDE DEF l
  <2>2. QED
    BY <2>1, SomeAreInOrder, SMTT(60)
<1>10. QED
  BY <1>5, <1>9 DEF ChainInOrder, E

\* The steps of a loaded engine, but for a write that settles: memory advances, and
\* is queued or not.
LEMMA WorkingShape ==
    ASSUME IInv, [Next]_vars, Working, ~WriteSucceeds, ~WriteFails
    PROVE  /\ disk' = disk
           /\ \/ saves' = saves
              \/ \E by \in {"cycle", "edit", "reset"} : Persist(by, snap')
<1>1. snap # None /\ ~loading /\ snap' # None /\ TypeOK
  BY DEF Working, Ready, IInv
<1>2. CASE Wake \/ CheckNow \/ CycleStep \/ UserEdit
  BY <1>1, <1>2, WorkerSteps
<1>3. CASE \/ Tick \/ SetClockBack \/ WakeWhileBusy \/ LearnStores \/ UNCHANGED vars
  BY <1>3 DEF Tick, SetClockBack, WakeWhileBusy, LearnStores, vars
<1>4. CASE Open \/ WakeCold \/ LoadFails \/ ReadAgain \/ StartMonitor \/ FinishLoad
           \/ Crash
  <2>1. ~FinishLoad /\ ~Crash
    BY <1>1 DEF FinishLoad, Crash
  <2>2. CASE Open \/ WakeCold \/ LoadFails \/ ReadAgain \/ StartMonitor
    BY <1>1, <2>2 DEF Open, WakeCold, LoadFails, ReadAgain, StartMonitor, BootWith
  <2>3. QED
    BY <1>4, <2>1, <2>2
<1>5. QED
  BY <1>2, <1>3, <1>4 DEF Next

\* An empty snapshot holds no copy.
LEMMA EmptyHoldsNothing ==
    ASSUME NEW p \in Copies
    PROVE  ~Holds(EmptySnapshot, p)
<1>1. p[1] \in EventIds
  BY CopyNames
<1>2. QED
  BY <1>1 DEF Holds, EmptySnapshot

\* An engine that is not loaded only starts, loads, dies or is reset.
LEMMA UnloadedShape ==
    ASSUME IInv, [Next]_vars, snap = None, LoadComesFirst, ~FinishLoad,
           ~(loading /\ Reset)
    PROVE  /\ disk' = disk /\ saves = << >>
           /\ UNCHANGED <<serial, sends>>
           /\ \/ snap' = None /\ saves' = << >>
              \/ /\ snap' = EmptySnapshot /\ ~loading'
                 /\ Len(saves') = 1 /\ saves'[1].snap = EmptySnapshot
<1>1. cycle.pc = "idle" /\ saves = << >>
  BY DEF IInv, Coherent
<1>2. /\ ~CycleStep /\ ~Wake /\ ~CheckNow /\ ~WriteFails
      /\ ~WriteSucceeds /\ ~WakeWhileBusy /\ (UserEdit => Reset)
  BY <1>1 DEF CycleStep, FetchSettles, StartDispatch, Attempt, EndDispatch, Recheck,
       Resolve, ContactProvider, DeclineDelivery, ProviderAnswers, DeliveryAborted,
       Wake, CheckNow, BeginCycle, Ready, UserEdit, AddWatch, ReplaceWatch,
       SetWatchEnabled, DeleteWatch, DisablePersonalTelegramForAllWatches, Edit,
       WriteFails, WriteSucceeds, WakeWhileBusy
<1>3. CASE Tick \/ SetClockBack \/ Open \/ WakeCold \/ LearnStores \/ UNCHANGED vars
  BY <1>1, <1>3 DEF Tick, SetClockBack, Open, WakeCold, BootWith, LearnStores, vars
<1>4. CASE Crash
  BY <1>1, <1>4 DEF Crash
<1>5. CASE LoadFails \/ ReadAgain \/ StartMonitor
  BY <1>1, <1>5 DEF LoadFails, ReadAgain, StartMonitor
<1>6. CASE Reset
  <2>1. saves' = Append(saves, [by |-> "reset", snap |-> EmptySnapshot])
    BY <1>6 DEF Reset, Persist
  <2>2. Len(saves') = 1 /\ saves'[1].snap = EmptySnapshot
    BY <1>1, <2>1
  <2>3. QED
    BY <1>1, <1>6, <2>2 DEF Reset
<1>7. QED
  BY <1>2, <1>3, <1>4, <1>5, <1>6 DEF Next

\* A reset before anything is loaded leaves the disk and empty snapshots.
LEMMA EmptyInOrder ==
    ASSUME IInv', disk' = disk, snap' = EmptySnapshot, Len(saves') = 1,
           saves'[1].snap = EmptySnapshot, snap' # None
    PROVE  ChainInOrder'
<1>1. disk' \in Snapshot /\ saves' \in Seq(Save)
  BY DEF IInv, TypeOK
<1>2. Newest' = 2 /\ Chain'[0] = disk' /\ \A k \in 1..2 : Chain'[k] = EmptySnapshot
  <2>1. Newest' = 2
    BY <1>1, NextChainLinks
  <2>2. QED
    BY <1>1, <2>1, NextChainLinks
<1> DEFINE E == Chain'
<1>3. ASSUME NEW p \in Copies, NEW i \in 0..2, NEW j \in 0..2, i <= j,
             Holds(E[i], p), Holds(E[j], p)
      PROVE  /\ CopyIn(E[i], p).attempts <= CopyIn(E[j], p).attempts
             /\ CopyIn(E[i], p).state # "pending"
                 => CopyIn(E[j], p).state = CopyIn(E[i], p).state
             /\ \A k \in i..j : Holds(E[k], p)
  <2>1. i = 0 /\ j = 0
    BY <1>2, <1>3, EmptyHoldsNothing
  <2>2. CopyIn(E[0], p).attempts \in Int
    BY <1>1, <1>2, <1>3, <2>1, AttemptsType DEF Attempts, CopyIn
  <2>3. \A k \in i..j : k = 0
    BY <2>1
  <2>4. QED
    BY <1>3, <2>1, <2>2, <2>3
<1>4. InOrder(E, 2)
  BY <1>3 DEF InOrder
<1>5. QED
  BY <1>2, <1>4 DEF ChainInOrder

\* Every step keeps the chain in order, unless a reset comes before the load ends.
LEMMA NextKeepsChain ==
    ASSUME IInv, IInv', RInv, LoadComesFirst, ChainInOrder, [Next]_vars,
           ~(loading /\ Reset)
    PROVE  LoadComesFirst' /\ ChainInOrder'
<1>1. LedgerAdvances
  BY NextKeepsRecord DEF KeepsRecord
<1>2. CASE snap' = None
  BY <1>2, LoneDiskInOrder DEF LoadComesFirst
<1>3. CASE FinishLoad /\ snap' # None
  <2>1. snap = None /\ saves = << >>
    BY <1>3 DEF FinishLoad, LoadComesFirst, IInv, Coherent
  <2>2. /\ snap' = NormalizePersistedClockSkew(disk, now) /\ ~loading'
        /\ disk' = disk /\ saves' = << >>
    BY <1>3, <2>1 DEF FinishLoad
  <2>3. disk \in Snapshot /\ now \in Int /\ snap' \in Snapshot
    BY <1>3 DEF IInv, TypeOK
  <2>4. AdvancesWith(disk, snap', serial, serial)
    <3>1. Advances(disk, snap')
      BY <2>2, <2>3, NormalizePersistedClockSkewAdvances
    <3>2. QED
      BY <2>3, <3>1, AdvancesIsAdvancesWith
  <2>5. QED
    BY <1>3, <2>1, <2>2, <2>4, LoadInOrder DEF LoadComesFirst
<1>4. CASE snap = None /\ ~FinishLoad
  <2>1. CASE snap' = None
    BY <1>2, <2>1
  <2>2. CASE snap' # None
    BY <1>4, <2>2, UnloadedShape, EmptyInOrder DEF LoadComesFirst
  <2>3. QED
    BY <2>1, <2>2
<1>5. CASE snap # None /\ snap' # None
  <2>1. Working /\ ~loading
    BY <1>5 DEF Working, Ready, LoadComesFirst
  <2>2. CASE WriteSucceeds \/ WriteFails
    <3>1. /\ saves # << >> /\ saves' = Tail(saves) /\ snap' = snap /\ loading' = loading
          /\ disk' = disk \/ disk' = Head(saves).snap
      BY <2>2 DEF WriteSucceeds, WriteFails
    <3>2. QED
      BY <1>5, <2>1, <3>1, WriteInOrder DEF LoadComesFirst
  <2>3. CASE ~(WriteSucceeds \/ WriteFails)
    <3>1. ChainInOrder'
      BY <1>1, <1>5, <2>1, <2>3, WorkingShape, MemoryStepInOrder DEF LedgerAdvances
    <3>2. ~loading'
      <4>1. CASE Open \/ WakeCold \/ LoadFails \/ ReadAgain \/ StartMonitor
        <5>1. ~Open /\ ~WakeCold /\ ~LoadFails /\ ~ReadAgain
          BY <1>5, <2>1 DEF Open, WakeCold, BootWith, Alive, LoadFails, ReadAgain
        <5>2. QED
          BY <1>5, <2>1, <4>1, <5>1 DEF StartMonitor
      <4>2. CASE ~Open /\ ~WakeCold /\ ~LoadFails /\ ~ReadAgain /\ ~StartMonitor
        <5>2. CASE CycleStep
          BY <2>1, <5>2 DEF CycleStep, FetchSettles, StartDispatch, Attempt, EndDispatch,
               Recheck, Resolve, ContactProvider, DeclineDelivery, ProviderAnswers,
               DeliveryAborted
        <5>3. CASE UserEdit
          BY <2>1, <5>3 DEF UserEdit, AddWatch, ReplaceWatch, SetWatchEnabled,
               DeleteWatch, DisablePersonalTelegramForAllWatches, Edit, Reset
        <5>4. CASE \/ Wake \/ CheckNow \/ Tick \/ SetClockBack \/ WakeWhileBusy
                   \/ LearnStores \/ UNCHANGED vars \/ FinishLoad \/ Crash
          BY <2>1, <5>4 DEF Wake, CheckNow, BeginCycle, Tick, SetClockBack, WakeWhileBusy,
               LearnStores, vars, FinishLoad, Crash
        <5>5. QED
          BY <2>3, <4>2, <5>2, <5>3, <5>4 DEF Next
      <4>3. QED
        BY <4>1, <4>2
    <3>3. QED
      BY <3>1, <3>2 DEF LoadComesFirst
  <2>4. QED
    BY <2>2, <2>3
<1>6. QED
  BY <1>2, <1>3, <1>4, <1>5

-------------------------------------------------------------------------------
(* The attempt in hand is on the disk *)

\* From the save of an attempt up to its contact.
OnTrial == {"attempting", "rechecking", "resolving", "sending"}

\* The save of an attempt holds its copy, and once it has settled the disk does,
\* for as long as memory does.
AttemptOnDisk ==
    /\ cycle.pc \in OnTrial => cycle.cur[1][2] <= serial[cycle.cur[1][1]]
    /\ cycle.pc = "attempting" =>
        \A i \in 1..Len(saves) :
            saves[i].by = "cycle" => Holds(saves[i].snap, cycle.cur)
    /\ cycle.pc \in OnTrial \ {"attempting"} =>
        (Holds(snap, cycle.cur) => Holds(disk, cycle.cur))

\* Steps that leave no attempt in hand.
LEMMA NothingOnTrial ==
    ASSUME cycle'.pc \notin OnTrial
    PROVE  AttemptOnDisk'
BY DEF AttemptOnDisk, OnTrial

\* Steps that keep the attempt in hand.
KeepsCandidate ==
    /\ cycle'.cur = cycle.cur
    /\ cycle.pc \in OnTrial
    /\ cycle'.pc = "attempting" <=> cycle.pc = "attempting"
    /\ \/ saves' = saves
       \/ \E by \in {"edit", "reset"} : Persist(by, snap')

\* What such a step does to the candidate.
LEMMA CandidateStaysOnDisk ==
    ASSUME IInv, RInv, IInv', LedgerAdvances, AttemptOnDisk, Working,
           disk' = disk, KeepsCandidate, cycle'.pc \in OnTrial
    PROVE  AttemptOnDisk'
<1> DEFINE p == cycle.cur
<1>1. /\ snap \in Snapshot /\ snap' \in Snapshot /\ saves \in Seq(Save)
      /\ serial \in [Scopes -> Nat] /\ serial' \in [Scopes -> Nat]
      /\ Recorded(snap, serial, sends)
  BY DEF Working, Ready, IInv, TypeOK, RInv, AllRecorded
<1>2. /\ p \in Copies /\ p[1][2] \in Int /\ p[1][1] \in Scopes /\ cycle'.cur = p
      /\ p[1][2] <= serial[p[1][1]]
  BY CopyNames DEF KeepsCandidate, IInv, Coherent, OnTrial, InHand, AttemptOnDisk
<1> HIDE DEF p
<1>3. p[1][2] <= serial'[p[1][1]]
  <2>1. serial[p[1][1]] <= serial'[p[1][1]]
    BY <1>2 DEF LedgerAdvances
  <2>2. serial[p[1][1]] \in Int /\ serial'[p[1][1]] \in Int
    BY <1>1, <1>2
  <2>3. QED
    BY <1>2, <2>1, <2>2
<1>4. Holds(snap', p) => Holds(snap, p)
  BY <1>1, <1>2, RecordedCopyAdvances DEF LedgerAdvances
<1>5. CASE cycle.pc = "attempting"
  <2>1. ASSUME NEW i \in 1..Len(saves'), saves'[i].by = "cycle"
        PROVE  Holds(saves'[i].snap, p)
    <3>1. i \in 1..Len(saves) /\ saves'[i] = saves[i]
      <4>1. CASE saves' = saves
        BY <4>1
      <4>2. CASE \E by \in {"edit", "reset"} : Persist(by, snap')
        <5>1. PICK by \in {"edit", "reset"} : Persist(by, snap')
          BY <4>2
        <5>2. /\ Len(saves) \in Nat /\ Len(saves') = Len(saves) + 1
              /\ \A k \in 1..Len(saves) : saves'[k] = saves[k]
              /\ saves'[Len(saves) + 1].by = by
          BY <1>1, <5>1 DEF Persist
        <5>3. i # Len(saves) + 1
          BY <2>1, <5>2
        <5>4. QED
          BY <5>2, <5>3
      <4>3. QED
        BY <4>1, <4>2 DEF KeepsCandidate
    <3>2. QED
      BY <1>5, <2>1, <3>1 DEF AttemptOnDisk, p
  <2>2. cycle'.pc = "attempting"
    BY <1>5 DEF KeepsCandidate
  <2>3. QED
    BY <1>2, <1>3, <2>1, <2>2 DEF AttemptOnDisk
<1>6. CASE cycle.pc # "attempting"
  <2>1. cycle.pc \in OnTrial \ {"attempting"} /\ cycle'.pc # "attempting"
    BY <1>6 DEF KeepsCandidate
  <2>2. Holds(snap, p) => Holds(disk, p)
    BY <2>1 DEF AttemptOnDisk, p
  <2>3. QED
    BY <1>2, <1>3, <1>4, <2>1, <2>2 DEF AttemptOnDisk
<1>7. QED
  BY <1>5, <1>6

\* A settled outcome leaves no attempt in hand.
LEMMA SettleEndsTrial ==
    ASSUME cycle \in Cycle, NEW outcome, Settle(outcome)
    PROVE  cycle'.pc \notin OnTrial
<1>1. /\ NextCandidate.pc = "dispatching"
      /\ [NextCandidate EXCEPT !.pc = "settling"].pc = "settling"
  BY DEF NextCandidate, Cycle
<1>2. QED
  BY <1>1 DEF Settle, OnTrial

\* The steps that may leave an attempt in hand.
LEMMA TrialStep ==
    ASSUME IInv, [Next]_vars, Working, ~WriteSucceeds, ~WriteFails, ~Attempt,
           cycle'.pc \in OnTrial
    PROVE  KeepsCandidate
<1>1. cycle \in Cycle /\ snap # None /\ ~loading /\ snap' # None
  BY DEF Working, Ready, IInv, TypeOK
<1>2. CASE cycle' = cycle /\ saves' = saves
  BY <1>2 DEF KeepsCandidate
<1>3. CASE Wake \/ CheckNow
  <2>1. PICK force, rung : BeginCycle(force, rung)
    BY <1>3 DEF Wake, CheckNow
  <2>2. CASE cycle' = Recording
    BY <2>2 DEF Recording, IdleCycle, OnTrial
  <2>3. CASE BeginPolling(force, rung)
    <3>1. cycle'.pc = "fetching"
      BY <2>3 DEF BeginPolling, IdleCycle
    <3>2. QED
      BY <3>1 DEF OnTrial
  <2>4. QED
    BY <2>1, <2>2, <2>3 DEF BeginCycle, BeginBackedOff, BeginWithoutCatalog, BeginIdle,
                            BeginUnsupported
<1>4. CASE FetchSettles
  <2>1. cycle'.pc \in {"recording", "fetching"}
    BY <1>1, <1>4, PollingGoesOn
  <2>2. QED
    BY <2>1 DEF OnTrial
<1>5. CASE StartDispatch \/ EndDispatch \/ ContactProvider
  <2>1. cycle'.pc \in {"dispatching", "closing", "answering"}
    BY <1>1, <1>5 DEF StartDispatch, EndDispatch, ContactProvider, Cycle
  <2>2. QED
    BY <2>1 DEF OnTrial
<1>6. CASE DeclineDelivery \/ ProviderAnswers \/ DeliveryAborted
  BY <1>1, <1>6, SettleEndsTrial DEF DeclineDelivery, ProviderAnswers, DeliveryAborted
<1>7. CASE Recheck
  <2>1. NextCandidate.pc = "dispatching"
    BY <1>1 DEF NextCandidate, Cycle
  <2>2. cycle' = [cycle EXCEPT !.pc = "resolving"] /\ saves' = saves
        /\ cycle.pc = "rechecking"
    BY <1>7, <2>1 DEF Recheck, OnTrial
  <2>3. cycle'.pc = "resolving" /\ cycle'.cur = cycle.cur
    BY <1>1, <2>2 DEF Cycle
  <2>4. QED
    BY <2>2, <2>3 DEF KeepsCandidate, OnTrial
<1>8. CASE Resolve
  <2>1. cycle' = [cycle EXCEPT !.pc = "sending"] /\ saves' = saves
        /\ cycle.pc = "resolving"
    BY <1>1, <1>8, SettleEndsTrial DEF Resolve
  <2>2. cycle'.pc = "sending" /\ cycle'.cur = cycle.cur
    BY <1>1, <2>1 DEF Cycle
  <2>3. QED
    BY <2>1, <2>2 DEF KeepsCandidate, OnTrial
<1>9. CASE UserEdit
  <2>1. \A ws, new : Edit(ws, new) =>
            /\ Persist("edit", snap')
            /\ cycle' = [cycle EXCEPT !.aborted = @ \/
                    /\ cycle.pc \in {"resolving", "sending", "answering"}
                    /\ cycle.cur[1][1][1] \in ws]
    BY DEF Edit
  <2>2. /\ \E by \in {"edit", "reset"} : Persist(by, snap')
        /\ \E aborted : cycle' = [cycle EXCEPT !.aborted = aborted]
    <3>1. CASE Reset
      BY <3>1 DEF Reset
    <3>2. CASE \E ws, new : Edit(ws, new)
      BY <2>1, <3>2
    <3>3. QED
      BY <1>9, <3>1, <3>2 DEF UserEdit, AddWatch, ReplaceWatch, SetWatchEnabled,
         DeleteWatch, DisablePersonalTelegramForAllWatches
  <2>3. cycle'.pc = cycle.pc /\ cycle'.cur = cycle.cur
    BY <1>1, <2>2 DEF Cycle
  <2>4. QED
    BY <2>2, <2>3 DEF KeepsCandidate
<1>10. CASE \/ Tick \/ SetClockBack \/ WakeWhileBusy \/ Open \/ WakeCold \/ LoadFails
            \/ ReadAgain \/ StartMonitor
            \/ LearnStores \/ UNCHANGED vars
  BY <1>2, <1>10 DEF Tick, SetClockBack, WakeWhileBusy, Open, WakeCold, LoadFails,
     ReadAgain, StartMonitor, BootWith,
     LearnStores, vars
<1>11. CASE FinishLoad \/ Crash
  BY <1>1, <1>11 DEF FinishLoad, Crash
<1>12. QED
  BY <1>3, <1>4, <1>5, <1>6, <1>7, <1>8, <1>9, <1>10, <1>11 DEF Next, CycleStep

\* A write that settles.
LEMMA WriteKeepsOnDisk ==
    ASSUME IInv, RInv, ChainInOrder, AttemptOnDisk, Working, WriteSucceeds \/ WriteFails
    PROVE  AttemptOnDisk'
<1> DEFINE by == Head(saves).by
           p == cycle.cur
<1>1. /\ saves \in Seq(Save) /\ snap # None /\ cycle \in Cycle
      /\ saves # << >> /\ saves' = Tail(saves) /\ snap' = snap /\ serial' = serial
  BY DEF Working, Ready, IInv, TypeOK, WriteSucceeds, WriteFails
<1>2. /\ Head(saves) = saves[1] /\ 1 \in 1..Len(saves) /\ Len(saves) \in Nat
      /\ Len(saves') = Len(saves) - 1
      /\ \A i \in 1..Len(saves') :
            i + 1 \in 1..Len(saves) /\ saves'[i] = saves[i + 1]
  BY <1>1, HeadOfSaves
<1>3. CASE cycle' = cycle /\ (by = "cycle" => cycle.pc \notin OnTrial)
  <2>1. CASE cycle.pc \notin OnTrial
    BY <1>3, <2>1, NothingOnTrial
  <2>2. CASE cycle.pc = "attempting"
    <3>1. \A i \in 1..Len(saves') :
            saves'[i].by = "cycle" => Holds(saves'[i].snap, p)
      BY <1>2, <2>2 DEF AttemptOnDisk
    <3>2. QED
      BY <1>1, <1>3, <2>2, <3>1 DEF AttemptOnDisk
  <2>3. CASE cycle.pc \in OnTrial \ {"attempting"}
    <3>1. p \in Copies
      BY <2>3 DEF IInv, Coherent, OnTrial, InHand
    <3>2. ASSUME Holds(snap, p)
          PROVE  Holds(disk', p)
      <4>1. Holds(disk, p)
        BY <2>3, <3>2 DEF AttemptOnDisk
      <4>2. CASE disk' = Head(saves).snap
        <5>1. /\ Newest = Len(saves) + 1 /\ Chain[0] = disk /\ Chain[Newest] = snap
              /\ Chain[1] = saves[1].snap
          BY <1>1, <1>2, ChainLinks
        <5>2. 0 \in 0..Newest /\ Newest \in 0..Newest /\ 0 <= Newest /\ 1 \in 0..Newest
          BY <1>2, <5>1
        <5>3. Holds(Chain[1], p)
          BY <3>1, <3>2, <4>1, <5>1, <5>2 DEF ChainInOrder, InOrder
        <5>4. QED
          BY <1>2, <4>2, <5>1, <5>3
      <4>3. CASE disk' = disk
        BY <4>1, <4>3
      <4>4. QED
        BY <4>2, <4>3 DEF WriteSucceeds, WriteFails
    <3>3. QED
      BY <1>1, <1>3, <2>3, <3>2 DEF AttemptOnDisk
  <2>4. QED
    BY <2>1, <2>2, <2>3
<1>4. CASE cycle' = IdleCycle
  BY <1>4, NothingOnTrial DEF IdleCycle, OnTrial
<1>5. CASE /\ WriteSucceeds /\ by = "cycle"
           /\ cycle' = [cycle EXCEPT !.pc = AfterSave[cycle.pc]]
  <2>1. cycle.pc \in Waiting
    BY <1>2, <1>5 DEF IInv, CycleSaves
  <2>2. cycle'.pc = AfterSave[cycle.pc] /\ cycle'.cur = p
    BY <1>1, <1>5 DEF Cycle
  <2>3. CASE cycle.pc = "attempting"
    <3>1. cycle'.pc = "rechecking" /\ cycle.pc \in OnTrial
      BY <2>2, <2>3 DEF AfterSave, OnTrial
    <3>2. Holds(disk', p)
      BY <1>2, <1>5, <2>3 DEF AttemptOnDisk, WriteSucceeds
    <3>3. QED
      BY <1>1, <2>2, <3>1, <3>2 DEF AttemptOnDisk, OnTrial
  <2>4. CASE cycle.pc \in {"recording", "settling", "closing"}
    <3>1. cycle'.pc \notin OnTrial
      BY <2>2, <2>4 DEF AfterSave, OnTrial
    <3>2. QED
      BY <3>1, NothingOnTrial
  <2>5. QED
    BY <2>1, <2>3, <2>4 DEF Waiting
<1>6. by = "cycle" \/ by # "cycle"
  OBVIOUS
<1>7. QED
  BY <1>3, <1>4, <1>5, <1>6 DEF WriteSucceeds, WriteFails

\* No cycle begins before a snapshot is loaded.
LEMMA UnloadedStaysIdle ==
    ASSUME IInv, [Next]_vars, loading \/ snap = None
    PROVE  cycle'.pc = "idle"
<1>1. cycle \in Cycle /\ cycle.pc = "idle"
  BY DEF IInv, TypeOK, Coherent
<1>2. /\ ~CycleStep /\ ~Wake /\ ~CheckNow /\ ~WakeWhileBusy
      /\ ~WriteSucceeds /\ ~WriteFails /\ (UserEdit => Reset)
  BY <1>1 DEF CycleStep, FetchSettles, StartDispatch, Attempt, EndDispatch, Recheck,
       Resolve, ContactProvider, DeclineDelivery, ProviderAnswers, DeliveryAborted,
       Wake, CheckNow, BeginCycle, Ready, UserEdit, AddWatch, ReplaceWatch,
       SetWatchEnabled, DeleteWatch, DisablePersonalTelegramForAllWatches, Edit,
       WriteFails, WriteSucceeds, WakeWhileBusy, IInv, Coherent
<1>3. CASE \/ Tick \/ SetClockBack \/ Open \/ WakeCold \/ LoadFails \/ ReadAgain
           \/ StartMonitor \/ FinishLoad \/ LearnStores
           \/ UNCHANGED vars
  BY <1>1, <1>3 DEF Tick, SetClockBack, Open, WakeCold, LoadFails, ReadAgain,
     StartMonitor, BootWith, FinishLoad,
     LearnStores, vars
<1>4. CASE Crash
  BY <1>4 DEF Crash, IdleCycle
<1>5. CASE Reset
  BY <1>1, <1>5 DEF Reset, Cycle
<1>6. QED
  BY <1>2, <1>3, <1>4, <1>5 DEF Next

\* The attempt is recorded: its copy is in memory and in the save.
LEMMA AttemptIsHeld ==
    ASSUME IInv, RInv, IInv', Attempt
    PROVE  AttemptOnDisk'
<1>1. snap \in Snapshot /\ saves \in Seq(Save) /\ serial' = serial
  BY WorkingCycle DEF Attempt, IInv, TypeOK
<1>2. PICK p \in Copies, after \in Copy : AttemptShape(p, after)
  BY AttemptHasShape
<1>3. CASE cycle'.pc = "settling"
  BY <1>3, NothingOnTrial DEF OnTrial
<1>4. CASE cycle'.pc = "attempting" /\ cycle'.cur = p
  <2>1. p[1] \in EventIds /\ p[2] \in Channels
    BY CopyNames
  <2>2. Holds(snap, p) /\ p[1][2] <= serial[p[1][1]]
    BY <1>1, <1>2, <2>1, WorkingCycle
       DEF RInv, AllRecorded, Recorded, AttemptShape, IsCurrentPendingChannel, Holds,
           Attempt
  <2>3. Holds(snap', p)
    <3> DEFINE new == WithCopy(snap, p, after)
    <3>1. \A id \in EventIds : new.pending[id] = None <=> snap.pending[id] = None
      BY <1>1, <1>2, WithCopyFields DEF AttemptShape
    <3>2. new.pending[p[1]].channels[p[2]] = after
      <4> DEFINE id == p[1]
                 changed == [snap.pending[id] EXCEPT !.channels[p[2]] = after]
      <4>1. new.pending[id] = changed
        BY <1>1, <2>1 DEF WithCopy, Snapshot
      <4>2. snap.pending[id] \in Event
        BY <1>1, <2>1, <2>2 DEF Holds, Snapshot
      <4>3. changed.channels[p[2]] = after
        BY <2>1, <4>2 DEF Event
      <4>4. QED
        BY <4>1, <4>3
    <3> HIDE DEF new
    <3>3. new = snap'
      BY <1>2 DEF AttemptShape, new
    <3>4. QED
      BY <2>1, <2>2, <3>1, <3>2, <3>3, NoneIsNoRecord DEF Holds
  <2>4. ASSUME NEW i \in 1..Len(saves'), saves'[i].by = "cycle"
        PROVE  saves'[i].snap = snap'
    <3>1. \A k \in 1..Len(saves) : saves[k].by # "cycle"
      BY DEF IInv, CycleSaves, Waiting, Attempt
    <3>2. /\ Len(saves) \in Nat /\ Len(saves') = Len(saves) + 1
          /\ \A k \in 1..Len(saves) : saves'[k] = saves[k]
          /\ saves'[Len(saves) + 1].snap = snap'
      BY <1>1, <1>2 DEF Persist, AttemptShape
    <3>3. i = Len(saves) + 1
      BY <2>4, <3>1, <3>2
    <3>4. QED
      BY <3>2, <3>3
  <2>5. QED
    BY <1>1, <1>4, <2>2, <2>3, <2>4 DEF AttemptOnDisk
<1>5. QED
  BY <1>2, <1>3, <1>4 DEF AttemptShape

\* Every step keeps the attempt in hand on the disk.
LEMMA NextKeepsAttemptOnDisk ==
    ASSUME IInv, IInv', RInv, ChainInOrder, AttemptOnDisk, [Next]_vars
    PROVE  AttemptOnDisk'
<1>1. LedgerAdvances
  BY NextKeepsRecord DEF KeepsRecord
<1>2. CASE cycle'.pc \notin OnTrial
  BY <1>2, NothingOnTrial
<1>3. CASE cycle'.pc \in OnTrial /\ Working
  <2>1. CASE WriteSucceeds \/ WriteFails
    BY <1>3, <2>1, WriteKeepsOnDisk
  <2>2. CASE Attempt
    BY <2>2, AttemptIsHeld
  <2>3. CASE ~WriteSucceeds /\ ~WriteFails /\ ~Attempt
    BY <1>1, <1>3, <2>3, WorkingShape, TrialStep, CandidateStaysOnDisk
  <2>4. QED
    BY <2>1, <2>2, <2>3
<1>4. CASE cycle'.pc \in OnTrial /\ ~Working
  <2>1. snap' # None /\ ~loading'
    BY <1>4 DEF IInv, Coherent, OnTrial
  <2>2. loading \/ snap = None
    BY <1>4, <2>1 DEF Working, Ready
  <2>3. cycle.pc = "idle"
    BY <2>2 DEF IInv, Coherent
  <2>4. cycle'.pc = "idle"
    BY <2>1, <2>2, <2>3, UnloadedStaysIdle
  <2>5. QED
    BY <1>4, <2>4 DEF OnTrial
<1>5. QED
  BY <1>2, <1>3, <1>4

-------------------------------------------------------------------------------
(***************************************************************************)
(* Who may say "delivered".  Only an answer of the provider about the copy *)
(* in hand does: reconciling, promoting, recording, pruning, retrying and  *)
(* loading deliver nothing.                                                *)
(***************************************************************************)

Delivered(s, p) == Holds(s, p) /\ CopyIn(s, p).state = "delivered"

DeliversNothing(s, new) == \A p \in Copies : Delivered(new, p) => Delivered(s, p)

\* A step that leaves the ledger alone delivers nothing.
LEMMA SamePendingDeliversNothing ==
    ASSUME NEW s, NEW new, new.pending = s.pending
    PROVE  DeliversNothing(s, new)
BY DEF DeliversNothing, Delivered, Holds, CopyIn

\* Closing an event with other verdicts delivers nothing.
LEMMA CloseEventDeliversNothing ==
    ASSUME NEW event \in Event, NEW t \in Int, NEW verdict, NEW c \in Channels,
           verdict[c] # "delivered",
           NEW new, new = CloseEvent(event, verdict, t), new.channels[c] # None,
           new.channels[c].state = "delivered"
    PROVE  event.channels[c] # None /\ event.channels[c].state = "delivered"
<1> DEFINE copy == event.channels[c]
           closed == Closed(copy, verdict[c], t)
<1>1. copy \in Copy \cup {None} /\ DOMAIN event = {"rev", "observedAt", "createdAt", "channels"}
  BY DEF Event
<1>2. new.channels[c] = IF copy = None THEN None
                        ELSE IF copy.state = "pending" /\ verdict[c] # "pending"
                             THEN closed
                             ELSE copy
  BY <1>1 DEF CloseEvent
<1>3. copy \in Copy => closed.state = verdict[c]
  BY DEF Closed, Copy
<1> HIDE DEF copy, closed
<1>4. copy # None /\ copy.state = "delivered"
  BY <1>1, <1>2, <1>3
<1>5. QED
  BY <1>4 DEF copy

\* Closing an event of the ledger delivers nothing.
LEMMA ClosingDeliversNothing ==
    ASSUME NEW s, NEW new, NEW t \in Int,
           \A id \in EventIds : s.pending[id] \in Event \cup {None},
           \A id \in EventIds : new.pending[id] # None =>
                \E verdict :
                    /\ new.pending[id] = CloseEvent(s.pending[id], verdict, t)
                    /\ s.pending[id] # None
                    /\ \A c \in Channels : verdict[c] # "delivered"
    PROVE  DeliversNothing(s, new)
<1> SUFFICES ASSUME NEW p \in Copies, Delivered(new, p)
             PROVE  Delivered(s, p)
  BY DEF DeliversNothing
<1>1. p[1] \in EventIds /\ p[2] \in Channels
  BY CopyNames
<1>2. /\ new.pending[p[1]] # None /\ new.pending[p[1]].channels[p[2]] # None
      /\ new.pending[p[1]].channels[p[2]].state = "delivered"
  BY DEF Delivered, Holds, CopyIn
<1>3. PICK verdict :
        /\ new.pending[p[1]] = CloseEvent(s.pending[p[1]], verdict, t)
        /\ s.pending[p[1]] # None
        /\ \A c \in Channels : verdict[c] # "delivered"
  BY <1>1, <1>2
<1>4. s.pending[p[1]] \in Event
  BY <1>1, <1>3
<1>5. s.pending[p[1]].channels[p[2]] # None
      /\ s.pending[p[1]].channels[p[2]].state = "delivered"
  BY <1>1, <1>2, <1>3, <1>4, CloseEventDeliversNothing
<1>6. QED
  BY <1>3, <1>5 DEF Delivered, Holds, CopyIn

\* reconcileDurableDelivery delivers nothing.
LEMMA ReconcileDurableDeliveryDeliversNothing ==
    ASSUME NEW s \in Snapshot, NEW t \in Int,
           NEW new, new = ReconcileDurableDelivery(s, t)
    PROVE  DeliversNothing(s, new)
<1> DEFINE verdict == [id \in EventIds |-> [c \in Channels |->
            LET watch == s.watches[id[1][1]]
                event == s.pending[id]
            IN  IF watch = None THEN "revoked"
                ELSE IF watch.rev # event.rev THEN "superseded"
                ELSE IF c \notin watch.channels THEN "revoked"
                ELSE IF IsExpired(event, t) THEN "expired"
                ELSE "pending"]]
<1>1. \A id \in EventIds : \A c \in Channels : verdict[id][c] # "delivered"
  OBVIOUS
<1>2. new = CloseCopies(s, verdict, t)
  BY DEF ReconcileDurableDelivery
<1> HIDE DEF verdict
<1>3. \A id \in EventIds :
        new.pending[id] = IF s.pending[id] = None THEN None
                          ELSE CloseEvent(s.pending[id], verdict[id], t)
  BY <1>2 DEF CloseCopies, Snapshot
<1>4. \A id \in EventIds : s.pending[id] \in Event \cup {None}
  BY DEF Snapshot
<1>5. QED
  BY <1>1, <1>3, <1>4, ClosingDeliversNothing

\* ... nor does reconcileRetiredCatalogState
LEMMA ReconcileRetiredCatalogStateDeliversNothing ==
    ASSUME NEW s \in Snapshot, NEW t \in Int, NEW retailer,
           NEW new, new = ReconcileRetiredCatalogState(s, retailer, t)
    PROVE  DeliversNothing(s, new)
<1> DEFINE verdict == [id \in EventIds |-> [c \in Channels |->
                IF id[1][1] \in RetiredWatches(s, retailer) THEN "superseded"
                ELSE "pending"]]
<1>1. \A id \in EventIds : \A c \in Channels : verdict[id][c] # "delivered"
  OBVIOUS
<1>2. DOMAIN s = {"watches", "items", "delivery", "pending", "nextEligibleAt",
                  "failures"}
  BY DEF Snapshot
<1>3. \A id \in EventIds :
        new.pending[id] = IF s.pending[id] = None THEN None
                          ELSE CloseEvent(s.pending[id], verdict[id], t)
  BY <1>2 DEF ReconcileRetiredCatalogState, CloseCopies
<1>4. \A id \in EventIds : s.pending[id] \in Event \cup {None}
  BY DEF Snapshot
<1> HIDE DEF verdict
<1>5. QED
  BY <1>1, <1>3, <1>4, ClosingDeliversNothing

\* ... or pruneForWatchRevision.
LEMMA PruneForWatchRevisionDeliversNothing ==
    ASSUME NEW s \in Snapshot, NEW t \in Int, NEW ws,
           NEW new, new = PruneForWatchRevision(s, ws, t)
    PROVE  DeliversNothing(s, new)
<1> DEFINE kept(x) == x[1] \notin ws \/ InScope(s, x)
           marked == CloseStaleMarkers(DropScopes(s, ws), ws)
           verdict == [id \in EventIds |-> [c \in Channels |->
            IF id[1][1] \notin ws \/ marked.pending[id] = None THEN "pending"
            ELSE IF c \notin marked.watches[id[1][1]].channels THEN "revoked"
            ELSE IF marked.pending[id].rev # marked.watches[id[1][1]].rev
            THEN "superseded"
            ELSE "pending"]]
<1>1. DOMAIN s = {"watches", "items", "delivery", "pending", "nextEligibleAt",
                  "failures"}
  BY DEF Snapshot
<1>2. /\ DOMAIN marked = DOMAIN s
      /\ \A id \in EventIds :
            marked.pending[id] = IF kept(id[1]) THEN s.pending[id] ELSE None
  BY <1>1 DEF CloseStaleMarkers, DropScopes
<1> HIDE DEF marked
<1>3. \A id \in EventIds : \A c \in Channels : verdict[id][c] # "delivered"
  OBVIOUS
<1>4. \A id \in EventIds :
        new.pending[id] = IF marked.pending[id] = None THEN None
                          ELSE CloseEvent(marked.pending[id], verdict[id], t)
  BY <1>1, <1>2 DEF PruneForWatchRevision, CloseStaleCopies, CloseCopies, marked
<1>5. \A id \in EventIds : s.pending[id] \in Event \cup {None}
  BY DEF Snapshot
<1> HIDE DEF verdict, kept
<1>6. \A id \in EventIds : new.pending[id] # None =>
        /\ s.pending[id] # None
        /\ new.pending[id] = CloseEvent(s.pending[id], verdict[id], t)
  BY <1>2, <1>4
<1>7. QED
  BY <1>3, <1>5, <1>6, ClosingDeliversNothing

\* Queueing alerts delivers nothing yet.
LEMMA AdmitDeliversNothing ==
    ASSUME NEW s \in Snapshot, NEW t, NEW a, NEW numbers, NEW seen,
           NEW new, new = Admit(s, a, numbers, seen, t)
    PROVE  DeliversNothing(s, new)
<1> SUFFICES ASSUME NEW p \in Copies, Delivered(new, p)
             PROVE  Delivered(s, p)
  BY DEF DeliversNothing
<1> DEFINE id == p[1]
           event == NewEvent(s.watches[id[1][1]], seen[id[1]], t)
           fresh == [state |-> "pending", attempts |-> 0, next |-> t, doneAt |-> None]
<1>1. p[1] \in EventIds /\ p[2] \in Channels
  BY CopyNames
<1>2. new.pending[id] =
            IF id \in a.evicted THEN None
            ELSE IF id[1] \in a.queued /\ id[2] = numbers[id[1]] + 1
            THEN event
            ELSE s.pending[id]
  BY <1>1 DEF Admit, Snapshot
<1>3. event.channels[p[2]] = None \/ event.channels[p[2]] = fresh
  BY <1>1 DEF NewEvent
<1>4. fresh.state = "pending"
  OBVIOUS
<1>5. /\ new.pending[id] # None /\ new.pending[id].channels[p[2]] # None
      /\ new.pending[id].channels[p[2]].state = "delivered"
  BY DEF Delivered, Holds, CopyIn
<1> HIDE DEF event, fresh
<1>6. new.pending[id] = s.pending[id]
  BY <1>2, <1>3, <1>4, <1>5
<1>7. QED
  BY <1>5, <1>6 DEF Delivered, Holds, CopyIn

\* recordObservation delivers nothing
LEMMA RecordObservationDeliversNothing ==
    ASSUME NEW s \in Snapshot, NEW t \in Int, NEW obs, NEW a, NEW numbers, NEW retailer,
           \A x \in DOMAIN obs : obs[x] \in Status,
           NEW new, new = RecordObservation(s, obs, a, numbers, t, retailer)
    PROVE  DeliversNothing(s, new)
<1> DEFINE items == RecordItems(s, obs, t)
           seen == [x \in Scopes |-> t]
           admitted == Admit(items, a, numbers, seen, t)
<1>1. items \in Snapshot /\ items.pending = s.pending
  BY RecordItemsKeeps
<1>2. new = Defer(admitted, Alerting(s, obs, t, retailer) \ a.queued, t)
  BY DEF RecordObservation
<1> HIDE DEF items, seen
<1>3. DOMAIN admitted = {"watches", "items", "delivery", "pending", "nextEligibleAt",
                         "failures"}
  BY <1>1 DEF Admit, Snapshot
<1>4. DeliversNothing(items, admitted)
  BY <1>1, AdmitDeliversNothing
<1> HIDE DEF admitted
<1>5. new.pending = admitted.pending
  BY <1>2, <1>3 DEF Defer
<1>6. QED
  BY <1>1, <1>4, <1>5 DEF DeliversNothing, Delivered, Holds, CopyIn

\* ... nor does promoteDeferredAvailability
LEMMA PromoteDeferredAvailabilityDeliversNothing ==
    ASSUME NEW s \in Snapshot, NEW t \in Int, NEW a, NEW numbers, NEW retailer,
           NEW new, new = PromoteDeferredAvailability(s, a, numbers, t, retailer)
    PROVE  DeliversNothing(s, new)
<1> DEFINE closed == CloseMarkers(s, t, retailer)
           seen == [x \in Scopes |-> closed.delivery[x].deferredAt]
<1>1. closed \in Snapshot /\ closed.pending = s.pending
  BY CloseMarkersKeeps
<1>2. new = Admit(closed, a, numbers, seen, t)
  BY DEF PromoteDeferredAvailability
<1> HIDE DEF closed, seen
<1>3. DeliversNothing(closed, new)
  BY <1>1, <1>2, AdmitDeliversNothing
<1>4. QED
  BY <1>1, <1>3 DEF DeliversNothing, Delivered, Holds, CopyIn

\* ... or normalizePersistedClockSkew.
LEMMA NormalizePersistedClockSkewDeliversNothing ==
    ASSUME NEW s \in Snapshot, NEW t \in Int,
           NEW new, new = NormalizePersistedClockSkew(s, t)
    PROVE  DeliversNothing(s, new)
<1> SUFFICES ASSUME NEW p \in Copies, Delivered(new, p)
             PROVE  Delivered(s, p)
  BY DEF DeliversNothing
<1>1. p[1] \in EventIds /\ p[2] \in Channels
  BY CopyNames
<1> DEFINE event == s.pending[p[1]]
           copy == event.channels[p[2]]
<1>2. /\ new.pending[p[1]] # None /\ new.pending[p[1]].channels[p[2]] # None
      /\ new.pending[p[1]].channels[p[2]].state = "delivered"
  BY DEF Delivered, Holds, CopyIn
<1>3. new.pending[p[1]] = IF event = None THEN None ELSE NormalizedEvent(event, t)
  BY <1>1 DEF NormalizePersistedClockSkew
<1>4. event # None /\ event \in Event
  BY <1>1, <1>2, <1>3 DEF Snapshot
<1> HIDE DEF event
<1>5. DOMAIN event = {"rev", "observedAt", "createdAt", "channels"}
      /\ copy \in Copy \cup {None}
  BY <1>1, <1>4 DEF Event
<1>6. \E observedAt, recovered :
        NormalizedEvent(event, t).channels[p[2]] =
            IF copy = None THEN None ELSE NormalizedCopy(copy, observedAt, recovered, t)
  BY <1>1, <1>5 DEF NormalizedEvent
<1>7. PICK observedAt, recovered :
        new.pending[p[1]].channels[p[2]] =
            IF copy = None THEN None ELSE NormalizedCopy(copy, observedAt, recovered, t)
  BY <1>2, <1>3, <1>4, <1>6
<1>8. copy # None /\ copy \in Copy
  BY <1>2, <1>5, <1>7
<1> HIDE DEF copy
<1>9. NormalizedCopy(copy, observedAt, recovered, t).state \in {copy.state, "expired"}
  <2>1. DOMAIN copy = {"state", "attempts", "next", "doneAt"}
    BY <1>8 DEF Copy
  <2>2. QED
    BY <2>1 DEF NormalizedCopy, Closed
<1>10. copy.state = "delivered"
  BY <1>2, <1>7, <1>8, <1>9
<1>11. QED
  BY <1>4, <1>8, <1>10 DEF Delivered, Holds, CopyIn, event, copy

\* Replacing a copy delivers at most that one.
LEMMA WithCopyDelivers ==
    ASSUME NEW s \in Snapshot, NEW p \in Copies, NEW copy \in Copy, Holds(s, p),
           NEW new, new = WithCopy(s, p, copy), NEW q \in Copies, Delivered(new, q)
    PROVE  \/ Delivered(s, q)
           \/ q = p /\ copy.state = "delivered"
<1> DEFINE event == s.pending[p[1]]
           changed == [event EXCEPT !.channels[p[2]] = copy]
<1>1. /\ p[1] \in EventIds /\ p[2] \in Channels /\ q[1] \in EventIds /\ q[2] \in Channels
      /\ q[1] = p[1] /\ q[2] = p[2] => q = p
  BY CopyNames DEF Copies
<1>2. event \in Event
  BY <1>1 DEF Holds, Snapshot
<1>3. \A i \in EventIds : new.pending[i] = IF i = p[1] THEN changed ELSE s.pending[i]
  BY <1>1 DEF WithCopy, Snapshot
<1>4. \A d \in Channels :
        changed.channels[d] = IF d = p[2] THEN copy ELSE event.channels[d]
  <2> HIDE DEF event
  <2> QED BY <1>1, <1>2 DEF Event
<1>5. /\ new.pending[q[1]] # None /\ new.pending[q[1]].channels[q[2]] # None
      /\ new.pending[q[1]].channels[q[2]].state = "delivered"
  BY DEF Delivered, Holds, CopyIn
<1> HIDE DEF changed
<1>6. CASE q[1] # p[1]
  BY <1>1, <1>3, <1>5, <1>6 DEF Delivered, Holds, CopyIn
<1>7. CASE q[1] = p[1] /\ q[2] # p[2]
  BY <1>1, <1>3, <1>4, <1>5, <1>7 DEF Delivered, Holds, CopyIn
<1>8. CASE q[1] = p[1] /\ q[2] = p[2]
  BY <1>1, <1>3, <1>4, <1>5, <1>8
<1>9. QED
  BY <1>6, <1>7, <1>8

\* Reconciling as a cycle begins delivers nothing.
LEMMA ReconciledDeliversNothing ==
    ASSUME snap \in Snapshot, now \in Int
    PROVE  DeliversNothing(snap, Reconciled)
<1> DEFINE s == ReconcileDurableDelivery(snap, now)
           r == ReconcileRetiredCatalogState(s, catalog, now)
<1>1. s \in Snapshot
  BY ReconcileDurableDeliveryKeeps
<1>2. Reconciled = IF catalog = None THEN s ELSE r
  BY DEF Reconciled
<1>3. DeliversNothing(snap, s)
  BY ReconcileDurableDeliveryDeliversNothing
<1> HIDE DEF s
<1>4. DeliversNothing(s, r)
  BY <1>1, ReconcileRetiredCatalogStateDeliversNothing
<1> HIDE DEF r
<1>5. QED
  BY <1>2, <1>3, <1>4 DEF DeliversNothing

\* Neither do the engine's promotions
LEMMA PromotionsDeliverNothing ==
    ASSUME NEW s \in Snapshot, now \in Int, NEW numbers, NEW atStart,
           NEW p \in Promotions(s, numbers, atStart)
    PROVE  p.snap \in Snapshot /\ DeliversNothing(s, p.snap)
<1>1. PICK a \in Admissions(s, Promotable(s, now, atStart, catalog)) :
        p = [snap   |-> PromoteDeferredAvailability(s, a, numbers, now, atStart),
             serial |-> NextSerial(numbers, a)]
  BY DEF Promotions
<1> DEFINE new == PromoteDeferredAvailability(s, a, numbers, now, atStart)
<1>2. p.snap = new
  BY <1>1
<1>3. new \in Snapshot
  BY PromoteDeferredAvailabilityKeeps
<1>4. DeliversNothing(s, new)
  BY PromoteDeferredAvailabilityDeliversNothing
<1> HIDE DEF new
<1>5. QED
  BY <1>2, <1>3, <1>4

\* ... and recordings.
LEMMA RecordingsDeliverNothing ==
    ASSUME NEW s \in Snapshot, now \in Int, NEW numbers, NEW obs,
           DOMAIN obs \subseteq Scopes, \A x \in DOMAIN obs : obs[x] \in Status,
           NEW r \in Recordings(s, obs, numbers)
    PROVE  r.snap \in Snapshot /\ DeliversNothing(s, r.snap)
<1>1. PICK a \in Admissions(s, Alerting(s, obs, now, catalog)) :
        r = [snap   |-> RecordObservation(s, obs, a, numbers, now, catalog),
             serial |-> NextSerial(numbers, a)]
  BY DEF Recordings
<1> DEFINE new == RecordObservation(s, obs, a, numbers, now, catalog)
<1>2. r.snap = new
  BY <1>1
<1>3. new \in Snapshot
  BY RecordObservationKeeps
<1>4. DeliversNothing(s, new)
  BY RecordObservationDeliversNothing
<1> HIDE DEF new
<1>5. QED
  BY <1>2, <1>3, <1>4

\* A cycle begins.
LEMMA BeginCycleDeliversNothing ==
    ASSUME IInv, NEW force, NEW rung, BeginCycle(force, rung)
    PROVE  DeliversNothing(snap, snap')
<1>1. snap \in Snapshot /\ now \in Int
  BY DEF BeginCycle, Ready, IInv, TypeOK
<1>2. Reconciled \in Snapshot /\ DeliversNothing(snap, Reconciled)
  BY <1>1, ReconciledKeeps, ReconciledDeliversNothing
<1>3. CASE DeliversNothing(Reconciled, snap')
  BY <1>2, <1>3 DEF DeliversNothing
<1>4. CASE BeginBackedOff(rung)
  BY <1>3, <1>4, SamePendingDeliversNothing DEF BeginBackedOff
<1>5. CASE BeginWithoutCatalog(force, rung)
  <2> DEFINE xs  == UNION {ScopesOf(Reconciled, w) : w \in Selected(Reconciled, force)}
             obs == [x \in xs |-> "unknown"]
             new == RecordItems(Reconciled, obs, now)
  <2>1. \A x \in DOMAIN obs : obs[x] \in Status
    BY DEF Status
  <2>2. snap' = new
    BY <1>5 DEF BeginWithoutCatalog
  <2> HIDE DEF obs
  <2>3. new.pending = Reconciled.pending
    BY <1>1, <1>2, <2>1, RecordItemsKeeps
  <2> HIDE DEF new
  <2>4. QED
    BY <1>3, <2>2, <2>3, SamePendingDeliversNothing
<1>6. CASE BeginIdle(force, rung) \/ BeginPolling(force, rung)
  <2>1. PICK p \in Promotions(Reconciled, serial, catalog) : snap' = p.snap
    BY <1>6 DEF BeginIdle, BeginPolling
  <2>2. QED
    BY <1>1, <1>2, <1>3, <2>1, PromotionsDeliverNothing
<1>7. CASE BeginUnsupported(force, rung)
  <2>1. PICK p \in Promotions(Reconciled, serial, catalog) :
            snap' = UpdateBackoff(p.snap, FALSE, 0, now)
    BY <1>7 DEF BeginUnsupported
  <2>2. p.snap \in Snapshot /\ DeliversNothing(Reconciled, p.snap)
    BY <1>1, <1>2, PromotionsDeliverNothing
  <2> DEFINE new == UpdateBackoff(p.snap, FALSE, 0, now)
  <2>3. new.pending = p.snap.pending
    <3>1. FALSE \in BOOLEAN /\ 0 \in Int
      OBVIOUS
    <3>2. QED
      BY <1>1, <2>2, <3>1, UpdateBackoffKeeps, Zenon
  <2>4. snap' = new
    BY <2>1
  <2> HIDE DEF new
  <2>5. QED
    BY <1>3, <2>2, <2>3, <2>4 DEF DeliversNothing, Delivered, Holds, CopyIn
<1>8. QED
  BY <1>4, <1>5, <1>6, <1>7 DEF BeginCycle

\* Apple answers.
LEMMA FetchSettlesDeliversNothing ==
    ASSUME IInv, FetchSettles
    PROVE  DeliversNothing(snap, snap')
<1>1. /\ snap \in Snapshot /\ now \in Int /\ cycle.failed \in BOOLEAN /\ cycle.retry \in Nat
  BY WorkingCycle DEF FetchSettles, IInv, TypeOK, Cycle
<1>2. PICK anchor \in Stores :
        \E skus \in SUBSET cycle.work[anchor] : \E ans \in Answers(skus) :
            RequestSettles(anchor, skus, ans)
  BY DEF FetchSettles
<1>3. PICK skus \in SUBSET cycle.work[anchor] :
        \E ans \in Answers(skus) : RequestSettles(anchor, skus, ans)
  BY <1>2
<1>4. PICK answer \in Answers(skus) : RequestSettles(anchor, skus, answer)
  BY <1>3
<1> DEFINE obs    == [x \in Answered(anchor, skus) |-> answer.status[<<x[2], x[3]>>]]
           failed == cycle.failed \/ answer.failed
           retry  == Greatest(cycle.retry, answer.retry)
<1>5. answer.status \in [skus \X Stores -> Status] /\ answer.retry \in Nat
  BY AnswerType
<1>6. DOMAIN obs \subseteq Scopes /\ \A x \in DOMAIN obs : obs[x] \in Status
  <2>1. ASSUME NEW x \in Answered(anchor, skus)
        PROVE  x \in Scopes /\ <<x[2], x[3]>> \in skus \X Stores
    BY DEF Answered, Scopes
  <2>2. QED
    BY <1>5, <2>1
<1>7. failed \in BOOLEAN /\ retry \in Int
  BY <1>1, <1>5 DEF Greatest
<1> HIDE DEF obs, failed, retry
<1>8. PICK r \in Recordings(snap, obs, serial) :
            \/ snap' = r.snap
            \/ \E p \in Promotions(r.snap, r.serial, cycle.catalog) :
                    snap' = UpdateBackoff(p.snap, failed, retry, now)
  BY <1>4 DEF RequestSettles, obs, failed, retry
<1>9. r.snap \in Snapshot /\ DeliversNothing(snap, r.snap)
  BY <1>1, <1>6, RecordingsDeliverNothing
<1>10. ASSUME NEW p \in Promotions(r.snap, r.serial, cycle.catalog),
              snap' = UpdateBackoff(p.snap, failed, retry, now)
       PROVE  DeliversNothing(snap, snap')
  <2>1. p.snap \in Snapshot /\ DeliversNothing(r.snap, p.snap)
    BY <1>1, <1>9, PromotionsDeliverNothing
  <2> DEFINE new == UpdateBackoff(p.snap, failed, retry, now)
  <2>2. new.pending = p.snap.pending
    BY <1>1, <1>7, <2>1, UpdateBackoffKeeps
  <2>3. snap' = new
    BY <1>10
  <2> HIDE DEF new
  <2>4. DeliversNothing(p.snap, snap')
    BY <2>2, <2>3, SamePendingDeliversNothing
  <2>5. QED
    BY <1>9, <2>1, <2>4 DEF DeliversNothing
<1>11. QED
  BY <1>8, <1>9, <1>10

\* What the copy in hand becomes.
LEMMA SettleDelivers ==
    ASSUME IInv, cycle.pc \in {"resolving", "sending", "answering"},
           NEW outcome, outcome.at \in Int, Settle(outcome),
           NEW q \in Copies, Delivered(snap', q)
    PROVE  \/ Delivered(snap, q)
           \/ q = cycle.cur /\ outcome.kind = "delivered"
<1>1. snap \in Snapshot /\ now \in Int /\ cycle.cur \in Copies
  BY WorkingCycle DEF IInv, Coherent, InHand
<1>2. CASE snap' = snap
  BY <1>2
<1>3. CASE IsCurrent(cycle.cur)
  <2> DEFINE copy == CopyAt(cycle.cur)
             after == Settled(cycle.cur, outcome)
  <2>1. snap' = WithCopy(snap, cycle.cur, after)
    BY <1>3 DEF Settle
  <2>2. after \in Copy /\ Holds(snap, cycle.cur)
    BY <1>1, <1>3, SettledType DEF IsCurrent, IsCurrentPendingChannel, Holds
  <2>3. copy \in Copy /\ copy.state = "pending"
    BY <1>1, <1>3, CopiesTypes
       DEF IsCurrent, CopyAt, IsCurrentPendingChannel, Snapshot, Event
  <2>4. after.state = "delivered" => outcome.kind = "delivered"
    <3>1. DOMAIN copy = {"state", "attempts", "next", "doneAt"}
      BY <2>3 DEF Copy
    <3> HIDE DEF copy
    <3>2. after = IF outcome.kind = "delivered" THEN Closed(copy, "delivered", now)
                  ELSE IF outcome.kind = "terminal" THEN Closed(copy, "failed", now)
                  ELSE IF outcome.kind = "retry_not_before"
                  THEN IF outcome.at <= now THEN Closed(copy, "failed", now)
                       ELSE IF outcome.at > snap.pending[cycle.cur[1]].observedAt + Retention
                       THEN Closed(copy, "expired", now)
                       ELSE [copy EXCEPT !.next = outcome.at]
                  ELSE IF copy.attempts >= MaxAttempts THEN Closed(copy, "failed", now)
                  ELSE [copy EXCEPT !.next = now + RetryDelay(copy.attempts)]
      BY DEF Settled, copy
    <3> HIDE DEF after
    <3>3. QED
      BY <2>3, <3>1, <3>2 DEF Closed
  <2> HIDE DEF after
  <2>5. QED
    BY <1>1, <2>1, <2>2, <2>4, WithCopyDelivers
<1>4. QED
  BY <1>2, <1>3 DEF Settle

\* The dispatch of deliveries: only the provider's answer delivers.
LEMMA DispatchDelivers ==
    ASSUME IInv,
           \/ StartDispatch \/ Attempt \/ Resolve \/ ContactProvider
           \/ DeclineDelivery \/ ProviderAnswers \/ DeliveryAborted,
           NEW q \in Copies, Delivered(snap', q)
    PROVE  \/ Delivered(snap, q)
           \/ q = cycle.cur /\ cycle.pc = "answering"
<1>1. now \in Int /\ \A kind : Outcome(kind).at \in Int /\ Outcome(kind).kind = kind
  BY DEF IInv, TypeOK, Outcome
<1>2. CASE snap' = snap
  BY <1>2
<1>3. CASE StartDispatch
  <2>1. snap \in Snapshot /\ cycle.t \in Int
    BY <1>3, WorkingCycle DEF StartDispatch, Cycle
  <2>2. snap' = ReconcileDurableDelivery(snap, cycle.t)
    BY <1>3 DEF StartDispatch
  <2>3. QED
    BY <2>1, <2>2, ReconcileDurableDeliveryDeliversNothing DEF DeliversNothing
<1>4. CASE Attempt
  <2>1. snap \in Snapshot
    BY <1>4, WorkingCycle DEF Attempt
  <2>2. PICK p \in Copies, after \in Copy : AttemptShape(p, after)
    BY <1>4, AttemptHasShape
  <2>3. Holds(snap, p) /\ snap' = WithCopy(snap, p, after) /\ after.state # "delivered"
    BY <2>2 DEF AttemptShape, IsCurrentPendingChannel, Holds
  <2>4. QED
    BY <2>1, <2>3, WithCopyDelivers
<1>5. CASE Resolve
  BY <1>1, <1>2, <1>5, SettleDelivers DEF Resolve
<1>6. CASE DeclineDelivery
  BY <1>1, <1>6, SettleDelivers DEF DeclineDelivery
<1>7. CASE ProviderAnswers
  <2>1. PICK outcome \in ProviderOutcomes(cycle.cur[2]) : Settle(outcome)
    BY <1>7 DEF ProviderAnswers
  <2>2. outcome.at \in Int
    BY <1>1, <2>1, EnvironmentAssumption DEF ProviderOutcomes
  <2>3. QED
    BY <1>7, <2>1, <2>2, SettleDelivers DEF ProviderAnswers
<1>8. CASE DeliveryAborted
  BY <1>1, <1>8, SettleDelivers DEF DeliveryAborted
<1>9. CASE ContactProvider
  BY <1>2, <1>9 DEF ContactProvider
<1>10. QED
  BY <1>3, <1>4, <1>5, <1>6, <1>7, <1>8, <1>9

\* User edits deliver nothing.
LEMMA ReplacementDeliversNothing ==
    ASSUME NEW s \in Snapshot, now \in Int, NEW ws \in SUBSET Watches, NEW watches,
           watches \in [Watches -> Watch \cup {None}],
           NEW new, new = PruneForWatchRevision([s EXCEPT !.watches = watches], ws, now)
    PROVE  DeliversNothing(s, new)
<1> DEFINE r == [s EXCEPT !.watches = watches]
<1>1. r.pending = s.pending /\ r \in Snapshot
  BY DEF Snapshot
<1>2. new = PruneForWatchRevision(r, ws, now)
  OBVIOUS
<1> HIDE DEF r
<1>3. DeliversNothing(r, new)
  BY <1>1, <1>2, PruneForWatchRevisionDeliversNothing
<1>4. QED
  BY <1>1, <1>3 DEF DeliversNothing, Delivered, Holds, CopyIn

\* The replaced watches of an edit are watches.
LEMMA EditDeliversNothing ==
    ASSUME IInv, UserEdit, snap # None
    PROVE  DeliversNothing(snap, snap')
<1>1. /\ snap \in Snapshot /\ now \in Int
      /\ snap.watches \in [Watches -> Watch \cup {None}]
      /\ DOMAIN snap = {"watches", "items", "delivery", "pending", "nextEligibleAt",
                        "failures"}
  BY DEF IInv, TypeOK, Snapshot
<1>2. ASSUME NEW w \in Watches, NEW watch \in Watch, snap' = Replaced(snap, w, watch)
      PROVE  DeliversNothing(snap, snap')
  <2> DEFINE watches == [snap.watches EXCEPT ![w] = watch]
  <2>1. watches \in [Watches -> Watch \cup {None}] /\ {w} \in SUBSET Watches
    BY <1>1
  <2>2. snap' = PruneForWatchRevision([snap EXCEPT !.watches = watches], {w}, now)
    BY <1>2 DEF Replaced
  <2> HIDE DEF watches
  <2>3. QED
    BY <1>1, <2>1, <2>2, ReplacementDeliversNothing
<1>3. ASSUME NEW w \in Watches, NEW form \in WatchForms, AddWatch(w, form)
      PROVE  DeliversNothing(snap, snap')
  <2> DEFINE watches == [snap.watches EXCEPT ![w] = WithRev(form, now)]
  <2>1. snap' = [snap EXCEPT !.watches = watches]
    BY <1>3 DEF AddWatch, Edit
  <2> HIDE DEF watches
  <2>2. snap'.pending = snap.pending
    BY <1>1, <2>1
  <2>3. QED
    BY <2>2, SamePendingDeliversNothing
<1>4. ASSUME NEW w \in Watches, NEW form \in WatchForms, ReplaceWatch(w, form)
      PROVE  DeliversNothing(snap, snap')
  <2>1. snap' = Replaced(snap, w, WithRev(form, NextRev(w))) /\ snap.watches[w] # None
    BY <1>4 DEF ReplaceWatch, Edit
  <2>2. NextRev(w) \in Int
    BY <1>1, <2>1, NextRevIsLater
  <2>3. WithRev(form, NextRev(w)) \in Watch
    BY <2>2, WithRevType
  <2>4. QED
    BY <1>2, <2>1, <2>3
<1>5. ASSUME NEW w \in Watches, NEW enabled \in BOOLEAN, SetWatchEnabled(w, enabled)
      PROVE  DeliversNothing(snap, snap')
  <2> DEFINE watch == [snap.watches[w] EXCEPT !.enabled = enabled, !.rev = NextRev(w)]
  <2>1. snap' = Replaced(snap, w, watch) /\ snap.watches[w] # None
    BY <1>5 DEF SetWatchEnabled, Edit
  <2>2. NextRev(w) \in Int /\ snap.watches[w] \in Watch
    BY <1>1, <2>1, NextRevIsLater
  <2>3. watch \in Watch
    BY <2>2 DEF Watch
  <2> HIDE DEF watch
  <2>4. QED
    BY <1>2, <2>1, <2>3
<1>6. ASSUME NEW w \in Watches, DeleteWatch(w)
      PROVE  DeliversNothing(snap, snap')
  <2>1. snap' = WithoutWatch(snap, w)
    BY <1>6 DEF DeleteWatch, Edit
  <2>2. \A id \in EventIds :
            snap'.pending[id] = IF id[1][1] = w THEN None ELSE snap.pending[id]
    BY <1>1, <2>1 DEF WithoutWatch
  <2>3. QED
    BY <2>2, CopyNames DEF DeliversNothing, Delivered, Holds, CopyIn
<1>7. CASE DisablePersonalTelegramForAllWatches
  <2> DEFINE watches == [w \in Watches |->
                IF w \in TelegramWatches
                THEN [snap.watches[w] EXCEPT !.channels = @ \ {Telegram},
                                             !.rev = NextRev(w)]
                ELSE snap.watches[w]]
  <2>1. snap' = PruneForWatchRevision([snap EXCEPT !.watches = watches],
                                      TelegramWatches, now)
    BY <1>7 DEF DisablePersonalTelegramForAllWatches, Edit
  <2>2. TelegramWatches \in SUBSET Watches
        /\ \A w \in TelegramWatches : snap.watches[w] # None
    BY DEF TelegramWatches
  <2>3. ASSUME NEW w \in TelegramWatches
        PROVE  watches[w] \in Watch
    <3>1. w \in Watches /\ snap.watches[w] \in Watch
      BY <1>1, <2>2
    <3>2. NextRev(w) \in Int
      BY <1>1, <2>2, <3>1, NextRevIsLater
    <3>3. [snap.watches[w] EXCEPT !.channels = @ \ {Telegram}, !.rev = NextRev(w)]
            \in Watch
      BY <3>1, <3>2 DEF Watch
    <3>4. QED
      BY <3>1, <3>3
  <2>4. \A w \in Watches : watches[w] \in Watch \cup {None}
    BY <1>1, <2>3
  <2>5. watches \in [Watches -> Watch \cup {None}]
    BY <2>4
  <2> HIDE DEF watches
  <2>6. QED
    BY <1>1, <2>1, <2>2, <2>5, ReplacementDeliversNothing
<1>8. CASE Reset
  <2>1. snap' = EmptySnapshot
    BY <1>8 DEF Reset
  <2>2. \A id \in EventIds : EmptySnapshot.pending[id] = None
    BY DEF EmptySnapshot
  <2>3. QED
    BY <2>1, <2>2, CopyNames DEF DeliversNothing, Delivered, Holds
<1>9. QED
  BY <1>3, <1>4, <1>5, <1>6, <1>7, <1>8 DEF UserEdit

\* In a loaded engine only an answer of its provider makes a copy delivered.
LEMMA OnlyAnswersDeliver ==
    ASSUME IInv, [Next]_vars, Working, NEW q \in Copies, Delivered(snap', q)
    PROVE  \/ Delivered(snap, q)
           \/ q = cycle.cur /\ cycle.pc = "answering"
<1>1. snap # None /\ ~loading /\ snap' # None
  BY DEF Working, Ready
<1>2. CASE snap' = snap
  BY <1>2
<1>3. CASE DeliversNothing(snap, snap')
  BY <1>3 DEF DeliversNothing
<1>4. CASE Wake \/ CheckNow
  <2>1. PICK force, rung : BeginCycle(force, rung)
    BY <1>4 DEF Wake, CheckNow
  <2>2. QED
    BY <1>3, <2>1, BeginCycleDeliversNothing
<1>5. CASE CycleStep
  BY <1>2, <1>3, <1>5, FetchSettlesDeliversNothing, DispatchDelivers
     DEF CycleStep, EndDispatch, Recheck
<1>6. CASE UserEdit
  BY <1>1, <1>3, <1>6, EditDeliversNothing
<1>7. CASE \/ Tick \/ SetClockBack \/ WakeWhileBusy \/ Open \/ WakeCold \/ LoadFails
           \/ ReadAgain \/ StartMonitor \/ LearnStores
           \/ WriteSucceeds \/ WriteFails \/ UNCHANGED vars
  BY <1>2, <1>7 DEF Tick, SetClockBack, WakeWhileBusy, Open, WakeCold, LoadFails,
     ReadAgain, StartMonitor, BootWith,
     LearnStores, WriteSucceeds, WriteFails, vars
<1>8. CASE FinishLoad \/ Crash
  BY <1>1, <1>8 DEF FinishLoad, Crash
<1>9. QED
  BY <1>4, <1>5, <1>6, <1>7, <1>8 DEF Next

\* A snapshot that says "delivered" of a copy has a contact to show for it.
AllSent(s, counts) == \A p \in Copies : Delivered(s, p) => counts[p] > 0

\* So has every snapshot, and so has the cycle that waits for a provider's answer.
DeliveredWereSent ==
    /\ AllSent(disk, sends)
    /\ snap # None => AllSent(snap, sends)
    /\ \A i \in 1..Len(saves) : AllSent(saves[i].snap, sends)
    /\ cycle.pc = "answering" => sends[cycle.cur] > 0

\* Contacts are never taken back, and only a contact is followed by an answer.
LEMMA ContactComesFirst ==
    ASSUME IInv, [Next]_vars
    PROVE  /\ \A p \in Copies : sends'[p] >= sends[p]
           /\ cycle'.pc = "answering" =>
                \/ cycle.pc = "answering" /\ cycle'.cur = cycle.cur
                \/ cycle'.cur \in Copies /\ sends'[cycle'.cur] > 0
<1>1. /\ sends \in [Copies -> Nat] /\ cycle \in Cycle
      /\ cycle.pc \in InHand => cycle.cur \in Copies
  BY DEF IInv, TypeOK, Coherent
<1>2. CASE ContactProvider
  <2>1. /\ cycle.pc = "sending" /\ sends' = [sends EXCEPT ![cycle.cur] = @ + 1]
        /\ cycle' = [cycle EXCEPT !.pc = "answering"]
    BY <1>2 DEF ContactProvider
  <2>2. cycle'.cur = cycle.cur /\ cycle.cur \in Copies
    BY <1>1, <2>1 DEF Cycle, InHand
  <2>3. QED
    BY <1>1, <2>1, <2>2
<1>3. CASE ~ContactProvider
  <2>1. sends' = sends
    <3>1. CASE CycleStep
      BY <1>3, <3>1 DEF CycleStep, FetchSettles, StartDispatch, Attempt, EndDispatch,
           Recheck, Resolve, DeclineDelivery, ProviderAnswers, DeliveryAborted
    <3>2. CASE UserEdit
      BY <3>2 DEF UserEdit, AddWatch, ReplaceWatch, SetWatchEnabled,
           DeleteWatch, DisablePersonalTelegramForAllWatches, Edit, Reset
    <3>3. CASE Wake \/ CheckNow
      BY <3>3 DEF Wake, CheckNow, BeginCycle
    <3>4. CASE \/ Tick \/ SetClockBack \/ WakeWhileBusy \/ Open \/ WakeCold
               \/ LoadFails \/ ReadAgain \/ StartMonitor \/ FinishLoad
               \/ Crash \/ LearnStores \/ WriteSucceeds \/ WriteFails \/ UNCHANGED vars
      BY <3>4 DEF Tick, SetClockBack, WakeWhileBusy, Open, WakeCold, LoadFails,
         ReadAgain, StartMonitor, BootWith, FinishLoad,
         Crash, LearnStores, WriteSucceeds, WriteFails, vars
    <3>5. QED
      BY <3>1, <3>2, <3>3, <3>4 DEF Next
  <2>2. ASSUME cycle'.pc = "answering"
        PROVE  cycle.pc = "answering" /\ cycle'.cur = cycle.cur
    <3>1. CASE cycle' = cycle
      BY <2>2, <3>1
    <3>2. CASE cycle' = IdleCycle \/ cycle' = Recording
      <4>1. IdleCycle.pc = "idle" /\ Recording.pc = "recording"
        BY DEF IdleCycle, Recording
      <4>2. QED
        BY <2>2, <3>2, <4>1
    <3>3. CASE \E aborted : cycle' = [cycle EXCEPT !.aborted = aborted]
      BY <1>1, <2>2, <3>3 DEF Cycle
    <3>4. CASE Wake \/ CheckNow
      <4>1. PICK force, rung : BeginCycle(force, rung)
        BY <3>4 DEF Wake, CheckNow
      <4>2. CASE BeginPolling(force, rung)
        <5>1. cycle'.pc = "fetching"
          BY <4>2 DEF BeginPolling, IdleCycle
        <5>2. QED
          BY <2>2, <5>1
      <4>3. QED
        BY <3>2, <4>1, <4>2 DEF BeginCycle, BeginBackedOff, BeginWithoutCatalog, BeginIdle,
                                BeginUnsupported
    <3>5. CASE FetchSettles
      BY <1>1, <2>2, <3>5, PollingGoesOn
    <3>6. CASE StartDispatch \/ EndDispatch
      BY <1>1, <2>2, <3>6 DEF StartDispatch, EndDispatch, Cycle
    <3>7. CASE Attempt
      <4>1. PICK p \in Copies, after \in Copy : AttemptShape(p, after)
        BY <3>7, AttemptHasShape
      <4>2. QED
        BY <2>2, <4>1 DEF AttemptShape
    <3>8. CASE Recheck
      BY <1>1, <2>2, <3>8 DEF Recheck, NextCandidate, Cycle
    <3>9. CASE \E outcome : Settle(outcome)
      <4>1. /\ NextCandidate.pc = "dispatching"
            /\ [NextCandidate EXCEPT !.pc = "settling"].pc = "settling"
        BY <1>1 DEF NextCandidate, Cycle
      <4>2. QED
        BY <2>2, <3>9, <4>1 DEF Settle
    <3>10. CASE Resolve
      <4>1. CASE cycle' = [cycle EXCEPT !.pc = "sending"]
        BY <1>1, <2>2, <4>1 DEF Cycle
      <4>2. QED
        BY <3>9, <3>10, <4>1 DEF Resolve
    <3>11. CASE WriteSucceeds
      <4>1. CASE /\ Head(saves).by = "cycle" /\ cycle.pc # "closing"
                 /\ cycle' = [cycle EXCEPT !.pc = AfterSave[cycle.pc]]
        <5>1. cycle.pc \in Waiting
          <6>1. saves \in Seq(Save) /\ saves # << >>
            BY <3>11 DEF IInv, TypeOK, WriteSucceeds
          <6>2. Head(saves) = saves[1] /\ 1 \in 1..Len(saves)
            BY <6>1
          <6>3. QED
            BY <4>1, <6>2 DEF IInv, CycleSaves
        <5>2. cycle'.pc = AfterSave[cycle.pc]
          BY <1>1, <4>1 DEF Cycle
        <5>3. QED
          BY <2>2, <4>1, <5>1, <5>2 DEF AfterSave, Waiting
      <4>2. QED
        BY <3>1, <3>2, <3>11, <4>1 DEF WriteSucceeds
    <3>12. CASE UserEdit
      BY <3>3, <3>12 DEF UserEdit, AddWatch, ReplaceWatch, SetWatchEnabled,
           DeleteWatch, DisablePersonalTelegramForAllWatches, Edit, Reset
    <3>13. CASE \/ Tick \/ SetClockBack \/ WakeWhileBusy \/ Open \/ WakeCold
                \/ LoadFails \/ ReadAgain \/ StartMonitor \/ FinishLoad
                \/ Crash \/ LearnStores \/ WriteFails \/ UNCHANGED vars
      BY <3>1, <3>2, <3>13 DEF Tick, SetClockBack, WakeWhileBusy, Open, WakeCold,
         LoadFails, ReadAgain, StartMonitor, BootWith,
         FinishLoad, Crash, LearnStores, WriteFails, vars
    <3>14. QED
      BY <1>3, <3>4, <3>5, <3>6, <3>7, <3>8, <3>9, <3>10, <3>11, <3>12, <3>13
         DEF Next, CycleStep, DeclineDelivery, ProviderAnswers, DeliveryAborted
  <2>3. QED
    BY <1>1, <2>1, <2>2
<1>4. QED
  BY <1>2, <1>3

\* Only a write, or a death during one, changes the disk: to the oldest save.
LEMMA DiskStep ==
    ASSUME [Next]_vars, disk' # disk
    PROVE  saves # << >> /\ disk' = Head(saves).snap /\ UNCHANGED <<serial, sends>>
<1>1. CASE CycleStep
  BY <1>1 DEF CycleStep, FetchSettles, StartDispatch, Attempt, EndDispatch, Recheck,
       Resolve, ContactProvider, DeclineDelivery, ProviderAnswers, DeliveryAborted
<1>2. CASE UserEdit
  BY <1>2 DEF UserEdit, AddWatch, ReplaceWatch, SetWatchEnabled, DeleteWatch,
       DisablePersonalTelegramForAllWatches, Edit, Reset
<1>3. CASE Wake \/ CheckNow
  BY <1>3 DEF Wake, CheckNow, BeginCycle
<1>4. CASE \/ Tick \/ SetClockBack \/ WakeWhileBusy \/ Open \/ WakeCold \/ LoadFails
           \/ ReadAgain \/ StartMonitor \/ FinishLoad
           \/ LearnStores \/ WriteFails \/ UNCHANGED vars
  BY <1>4 DEF Tick, SetClockBack, WakeWhileBusy, Open, WakeCold, LoadFails, ReadAgain,
     StartMonitor, BootWith, FinishLoad,
     LearnStores, WriteFails, vars
<1>5. CASE Crash \/ WriteSucceeds
  BY <1>5 DEF Crash, WriteSucceeds
<1>6. QED
  BY <1>1, <1>2, <1>3, <1>4, <1>5 DEF Next

\* Every step keeps a contact behind each delivery.
LEMMA NextKeepsSent ==
    ASSUME IInv, IInv', LoadComesFirst, DeliveredWereSent, [Next]_vars,
           ~(loading /\ Reset)
    PROVE  DeliveredWereSent'
<1>1. /\ sends \in [Copies -> Nat] /\ sends' \in [Copies -> Nat]
      /\ saves \in Seq(Save) /\ saves' \in Seq(Save)
      /\ disk \in Snapshot /\ now \in Int
  BY DEF IInv, TypeOK
<1>2. \A p \in Copies : sends'[p] >= sends[p]
  BY ContactComesFirst
<1>3. \A s : AllSent(s, sends) => AllSent(s, sends')
  <2>1. \A p \in Copies : sends[p] > 0 => sends'[p] > 0
    BY <1>1, <1>2
  <2>2. QED
    BY <2>1 DEF AllSent
<1>4. AllSent(disk', sends')
  <2>1. CASE disk' = disk
    BY <1>3, <2>1 DEF DeliveredWereSent
  <2>2. CASE saves # << >> /\ disk' = Head(saves).snap
    <3>1. Head(saves) = saves[1] /\ 1 \in 1..Len(saves)
      BY <1>1, <2>2
    <3>2. QED
      BY <1>3, <2>2, <3>1 DEF DeliveredWereSent
  <2>3. QED
    BY <2>1, <2>2, DiskStep
<1>5. ASSUME snap' # None
      PROVE  AllSent(snap', sends')
  <2>1. CASE Working
    <3>1. ASSUME NEW q \in Copies, Delivered(snap', q)
          PROVE  sends[q] > 0
      <4>1. CASE Delivered(snap, q)
        BY <2>1, <4>1 DEF DeliveredWereSent, AllSent, Working, Ready
      <4>2. CASE q = cycle.cur /\ cycle.pc = "answering"
        BY <4>2 DEF DeliveredWereSent
      <4>3. QED
        BY <2>1, <3>1, <4>1, <4>2, OnlyAnswersDeliver
    <3>2. QED
      BY <1>3, <3>1 DEF AllSent
  <2>2. CASE FinishLoad
    <3>1. snap' = NormalizePersistedClockSkew(disk, now)
      BY <2>2 DEF FinishLoad
    <3>2. DeliversNothing(disk, snap')
      BY <1>1, <3>1, NormalizePersistedClockSkewDeliversNothing
    <3>3. QED
      BY <1>3, <3>2 DEF DeliveredWereSent, DeliversNothing, AllSent
  <2>3. CASE ~Working /\ ~FinishLoad
    <3>1. snap = None
      BY <1>5, <2>3 DEF Working, Ready, LoadComesFirst
    <3>2. snap' = EmptySnapshot
      BY <1>5, <2>3, <3>1, UnloadedShape
    <3>3. QED
      BY <3>2, EmptyHoldsNothing DEF AllSent, Delivered, Holds
  <2>4. QED
    BY <2>1, <2>2, <2>3
<1>6. ASSUME NEW i \in 1..Len(saves')
      PROVE  AllSent(saves'[i].snap, sends')
  <2>1. snap' # None
    <3>1. Len(<< >>) = 0
      OBVIOUS
    <3>2. QED
      BY <1>1, <1>6, <3>1 DEF IInv, Coherent
  <2>2. CASE saves' = saves
    BY <1>3, <1>6, <2>2 DEF DeliveredWereSent
  <2>3. CASE Working /\ (WriteSucceeds \/ WriteFails)
    <3>1. saves # << >> /\ saves' = Tail(saves)
      BY <2>3 DEF WriteSucceeds, WriteFails
    <3>2. i + 1 \in 1..Len(saves) /\ saves'[i] = saves[i + 1]
      BY <1>1, <3>1, HeadOfSaves
    <3>3. QED
      BY <1>3, <3>2 DEF DeliveredWereSent
  <2>4. CASE Working /\ \E by \in {"cycle", "edit", "reset"} : Persist(by, snap')
    <3>1. /\ Len(saves) \in Nat /\ Len(saves') = Len(saves) + 1
          /\ \A k \in 1..Len(saves) : saves'[k] = saves[k]
          /\ saves'[Len(saves) + 1].snap = snap'
      BY <1>1, <2>4 DEF Persist
    <3>2. CASE i = Len(saves) + 1
      BY <1>5, <2>1, <3>1, <3>2
    <3>3. CASE i # Len(saves) + 1
      <4>1. i \in 1..Len(saves) /\ saves'[i] = saves[i]
        BY <3>1, <3>3
      <4>2. QED
        BY <1>3, <4>1 DEF DeliveredWereSent
    <3>4. QED
      BY <3>2, <3>3
  <2>5. CASE FinishLoad
    BY <2>2, <2>5 DEF FinishLoad
  <2>6. CASE ~Working /\ ~FinishLoad
    <3>1. snap = None
      BY <2>1, <2>6 DEF Working, Ready, LoadComesFirst
    <3>2. snap' = EmptySnapshot /\ saves'[i].snap = EmptySnapshot
      BY <1>6, <2>1, <2>6, <3>1, UnloadedShape
    <3>3. QED
      BY <3>2, EmptyHoldsNothing DEF AllSent, Delivered, Holds
  <2>7. QED
    BY <2>2, <2>3, <2>4, <2>5, <2>6, WorkingShape
<1>7. cycle'.pc = "answering" => sends'[cycle'.cur] > 0
  <2>1. CASE cycle'.pc = "answering" /\ cycle.pc = "answering" /\ cycle'.cur = cycle.cur
    <3>1. cycle.cur \in Copies /\ sends[cycle.cur] > 0
      BY <2>1 DEF IInv, Coherent, InHand, DeliveredWereSent
    <3>2. QED
      BY <1>1, <1>2, <2>1, <3>1
  <2>2. QED
    BY <2>1, ContactComesFirst
<1>8. QED
  BY <1>4, <1>5, <1>6, <1>7 DEF DeliveredWereSent

-------------------------------------------------------------------------------
(***************************************************************************)
(* The engine implements DeliveryPromise.  A contact is a Contact of its   *)
(* copy; every other step is a Write, which may change nothing.  A reset   *)
(* during the very first load is left out: its save is empty, and empties  *)
(* a disk whose copies the load then brings back.                          *)
(***************************************************************************)

\* Nothing is in the book to begin with.
LEMMA InitIsPromised == Init => Promise!Init
<1> SUFFICES ASSUME Init PROVE Promise!Init
  OBVIOUS
<1>1. ASSUME NEW p \in Copies
      PROVE  BookEntry(p) = [stage |-> "coming", tries |-> 0]
  <2>1. p[1] \in EventIds /\ p[1][1] \in Scopes /\ p[1][2] \in 1..MaxAlerts
    BY CopyNames DEF EventIds
  <2>2. disk.pending[p[1]] = None
    <3>1. EmptySnapshot.pending[p[1]] = None
          /\ DOMAIN EmptySnapshot = {"watches", "items", "delivery", "pending",
                                     "nextEligibleAt", "failures"}
      BY <2>1 DEF EmptySnapshot
    <3>2. PICK watches : disk = [EmptySnapshot EXCEPT !.watches = watches]
      BY DEF Init
    <3>3. QED
      BY <3>1, <3>2
  <2>3. p[1][2] > serial[p[1][1]]
    BY <2>1, BoundsAssumption DEF Init
  <2>4. QED
    BY <2>2, <2>3 DEF BookEntry, Holds, StillComing
<1>2. [p \in Copies |-> BookEntry(p)] = [p \in Copies |-> [stage |-> "coming", tries |-> 0]]
  BY <1>1
<1>3. sends = [p \in Copies |-> 0]
  BY DEF Init
<1>4. QED
  BY <1>2, <1>3 DEF Promise!Init

\* What the book says of a copy that storage holds.
LEMMA HeldEntry ==
    ASSUME NEW s \in Snapshot, NEW p \in Copies, Holds(s, p)
    PROVE  LET copy == CopyIn(s, p) IN
           /\ copy.state \in {"pending"} \cup Promise!Verdicts
           /\ copy.attempts \in 0..MaxAttempts
<1>1. CopyIn(s, p) \in Copy
  BY CopyNames DEF Holds, CopyIn, Snapshot, Event
<1>2. QED
  BY <1>1 DEF Copy, CopyState, Promise!Verdicts

\* A copy that is not on the disk after a step and is still coming was so before.
LEMMA ComingStep ==
    ASSUME IInv, RInv, IInv', LoadComesFirst, [Next]_vars, ~(loading /\ Reset),
           NEW p \in Copies, ~Holds(disk', p), StillComing(p)'
    PROVE  StillComing(p)
<1>1. /\ serial \in [Scopes -> Nat] /\ serial' \in [Scopes -> Nat]
      /\ saves \in Seq(Save) /\ saves' \in Seq(Save) /\ disk \in Snapshot /\ now \in Int
      /\ p[1] \in EventIds /\ p[1][1] \in Scopes /\ p[1][2] \in Int
  BY CopyNames DEF IInv, TypeOK
<1>2. LedgerAdvances
  BY NextKeepsRecord DEF KeepsRecord
<1>3. serial[p[1][1]] \in Nat /\ serial'[p[1][1]] \in Nat
      /\ serial[p[1][1]] <= serial'[p[1][1]]
  BY <1>1, <1>2 DEF LedgerAdvances
<1>4. ASSUME snap' # None, Holds(snap', p)
      PROVE  StillComing(p)
  <2>1. CASE Working
    <3>1. /\ snap \in Snapshot /\ snap' \in Snapshot /\ snap # None
          /\ Recorded(snap, serial, sends)
      BY <1>4, <2>1 DEF Working, Ready, IInv, TypeOK, RInv, AllRecorded
    <3>2. AdvancesWith(snap, snap', serial, serial')
      BY <1>2, <2>1 DEF LedgerAdvances
    <3>3. CASE p[1][2] <= serial[p[1][1]]
      BY <1>1, <1>4, <3>1, <3>2, <3>3, RecordedCopyAdvances DEF StillComing
    <3>4. CASE p[1][2] > serial[p[1][1]]
      BY <3>4 DEF StillComing
    <3>5. QED
      BY <1>1, <1>3, <3>3, <3>4
  <2>2. CASE FinishLoad
    <3>1. snap' = NormalizePersistedClockSkew(disk, now) /\ disk' = disk
      BY <2>2 DEF FinishLoad
    <3>2. snap' \in Snapshot
      BY <1>4 DEF IInv, TypeOK
    <3>3. AdvancesWith(disk, snap', serial, serial)
      <4>1. Advances(disk, snap')
        BY <1>1, <3>1, NormalizePersistedClockSkewAdvances
      <4>2. QED
        BY <1>1, <3>2, <4>1, AdvancesIsAdvancesWith
    <3>4. CASE p[1][2] <= serial[p[1][1]]
      <4>1. Holds(disk, p)
        BY <1>1, <1>4, <3>2, <3>3, <3>4, RecordedCopyAdvances DEF RInv, AllRecorded
      <4>2. QED
        BY <3>1, <4>1
    <3>5. CASE p[1][2] > serial[p[1][1]]
      BY <3>5 DEF StillComing
    <3>6. QED
      BY <1>1, <1>3, <3>4, <3>5
  <2>3. CASE ~Working /\ ~FinishLoad
    <3>1. snap = None
      BY <1>4, <2>3 DEF Working, Ready, LoadComesFirst
    <3>2. snap' = EmptySnapshot
      BY <1>4, <2>3, <3>1, UnloadedShape
    <3>3. QED
      BY <1>4, <3>2, EmptyHoldsNothing
  <2>4. QED
    BY <2>1, <2>2, <2>3
<1>5. ASSUME NEW i \in 1..Len(saves'), Holds(saves'[i].snap, p)
      PROVE  StillComing(p)
  <2>1. snap' # None
    <3>1. Len(<< >>) = 0
      OBVIOUS
    <3>2. QED
      BY <1>1, <1>5, <3>1 DEF IInv, Coherent
  <2>2. CASE saves' = saves
    BY <1>5, <2>2 DEF StillComing
  <2>3. CASE Working /\ (WriteSucceeds \/ WriteFails)
    <3>1. saves # << >> /\ saves' = Tail(saves)
      BY <2>3 DEF WriteSucceeds, WriteFails
    <3>2. i + 1 \in 1..Len(saves) /\ saves'[i] = saves[i + 1]
      BY <1>1, <3>1, HeadOfSaves
    <3>3. QED
      BY <1>5, <3>2 DEF StillComing
  <2>4. CASE Working /\ \E by \in {"cycle", "edit", "reset"} : Persist(by, snap')
    <3>1. /\ Len(saves) \in Nat /\ Len(saves') = Len(saves) + 1
          /\ \A k \in 1..Len(saves) : saves'[k] = saves[k]
          /\ saves'[Len(saves) + 1].snap = snap'
      BY <1>1, <2>4 DEF Persist
    <3>2. CASE i = Len(saves) + 1
      BY <1>4, <1>5, <2>1, <3>1, <3>2
    <3>3. CASE i # Len(saves) + 1
      <4>1. i \in 1..Len(saves) /\ saves'[i] = saves[i]
        BY <3>1, <3>3
      <4>2. QED
        BY <1>5, <4>1 DEF StillComing
    <3>4. QED
      BY <3>2, <3>3
  <2>5. CASE FinishLoad
    BY <2>2, <2>5 DEF FinishLoad
  <2>6. CASE ~Working /\ ~FinishLoad
    <3>1. snap = None
      BY <2>1, <2>6 DEF Working, Ready, LoadComesFirst
    <3>2. saves'[i].snap = EmptySnapshot
      BY <1>5, <2>1, <2>6, <3>1, UnloadedShape
    <3>3. QED
      BY <1>5, <3>2, EmptyHoldsNothing
  <2>7. QED
    BY <2>2, <2>3, <2>4, <2>5, <2>6, WorkingShape
<1>6. CASE p[1][2] > serial'[p[1][1]]
  BY <1>1, <1>3, <1>6 DEF StillComing
<1>7. QED
  BY <1>4, <1>5, <1>6 DEF StillComing

\* A copy that the next write takes from the disk is gone.
LEMMA DroppedIsGone ==
    ASSUME IInv, RInv, ChainInOrder, NEW p \in Copies, saves # << >>,
           Holds(disk, p), ~Holds(Head(saves).snap, p)
    PROVE  ~StillComing(p)
<1>1. /\ serial \in [Scopes -> Nat] /\ saves \in Seq(Save) /\ snap # None
      /\ p[1] \in EventIds /\ p[1][1] \in Scopes /\ p[1][2] \in Int
  BY CopyNames DEF IInv, TypeOK, Coherent
<1>2. Head(saves) = saves[1] /\ 1 \in 1..Len(saves) /\ Len(saves) \in Nat
  BY <1>1
<1>3. /\ Newest = Len(saves) + 1 /\ Chain[0] = disk /\ Chain[Newest] = snap
      /\ \A k \in 1..Len(saves) : Chain[k] = saves[k].snap
  BY <1>1, ChainLinks
<1>4. ASSUME NEW k \in 1..Newest
      PROVE  ~Holds(Chain[k], p)
  <2>1. 0 \in 0..Newest /\ k \in 0..Newest /\ 0 <= k /\ 1 \in 0..k
    BY <1>2, <1>3
  <2>2. ~Holds(Chain[1], p)
    BY <1>2, <1>3
  <2>3. QED
    BY <1>3, <2>1, <2>2 DEF ChainInOrder, InOrder
<1>5. ~Holds(snap, p) /\ \A i \in 1..Len(saves) : ~Holds(saves[i].snap, p)
  <2>1. Newest \in 1..Newest /\ \A i \in 1..Len(saves) : i \in 1..Newest
    BY <1>2, <1>3
  <2>2. QED
    BY <1>3, <1>4, <2>1
<1>6. ~(p[1][2] > serial[p[1][1]])
  BY <1>1 DEF RInv, AllRecorded, Recorded, Holds
<1>7. QED
  BY <1>5, <1>6 DEF StillComing

\* Every other step than a contact writes the book, or leaves it alone.
LEMMA EntryFollows ==
    ASSUME IInv, RInv, IInv', LoadComesFirst, ChainInOrder, DeliveredWereSent',
           [Next]_vars, ~(loading /\ Reset), NEW p \in Copies
    PROVE  /\ BookEntry(p)' \in Promise!Entry
           /\ Promise!Follows(BookEntry(p), BookEntry(p)')
           /\ BookEntry(p)'.stage = "delivered" => sends'[p] > 0
<1> DEFINE old == BookEntry(p)
           new == BookEntry(p)'
<1>1. /\ disk \in Snapshot /\ disk' \in Snapshot /\ saves \in Seq(Save)
      /\ p[1] \in EventIds /\ MaxAttempts \in Nat
  BY CopyNames, BoundsAssumption DEF IInv, TypeOK
<1>2. /\ Holds(disk, p) =>
            old = [stage |-> IF CopyIn(disk, p).state = "pending" THEN "open"
                             ELSE CopyIn(disk, p).state,
                   tries |-> CopyIn(disk, p).attempts]
      /\ ~Holds(disk, p) =>
            old = [stage |-> IF StillComing(p) THEN "coming" ELSE "gone", tries |-> 0]
  BY DEF BookEntry, CopyIn
<1>3. /\ Holds(disk', p) =>
            new = [stage |-> IF CopyIn(disk', p).state = "pending" THEN "open"
                             ELSE CopyIn(disk', p).state,
                   tries |-> CopyIn(disk', p).attempts]
      /\ ~Holds(disk', p) =>
            new = [stage |-> IF StillComing(p)' THEN "coming" ELSE "gone", tries |-> 0]
  BY DEF BookEntry, CopyIn, Holds
<1>4. disk' # disk => saves # << >> /\ disk' = Head(saves).snap
  BY DiskStep
<1>5. saves # << >> => /\ Head(saves) = saves[1] /\ 1 \in 1..Len(saves)
                       /\ Len(saves) \in Nat /\ snap # None
  BY <1>1 DEF IInv, Coherent
<1> HIDE DEF old, new
<1>6. CASE ~Holds(disk', p)
  <2>1. new.tries = 0 /\ new.stage \in {"coming", "gone"}
        /\ (new.stage = "coming" => StillComing(p)')
        /\ new = [stage |-> new.stage, tries |-> 0]
    BY <1>3, <1>6
  <2>2. new \in Promise!Entry
    BY <1>1, <2>1 DEF Promise!Entry, Promise!Stages
  <2>3. CASE new.stage = "gone"
    BY <2>2, <2>3 DEF Promise!Follows, old, new
  <2>4. CASE new.stage = "coming"
    <3>1. StillComing(p)
      BY <1>6, <2>1, <2>4, ComingStep
    <3>2. ~Holds(disk, p)
      <4>1. CASE disk' = disk
        BY <1>6, <4>1
      <4>2. CASE saves # << >> /\ disk' = Head(saves).snap
        BY <1>6, <3>1, <4>2, DroppedIsGone
      <4>3. QED
        BY <1>4, <4>1, <4>2
    <3>3. old.stage = "coming"
      BY <1>2, <3>1, <3>2
    <3>4. QED
      BY <2>2, <2>4, <3>3 DEF Promise!Follows, old, new
  <2>5. QED
    BY <2>1, <2>3, <2>4
<1>7. CASE Holds(disk', p)
  <2> DEFINE copy == CopyIn(disk', p)
  <2>1. copy.state \in {"pending"} \cup Promise!Verdicts /\ copy.attempts \in 0..MaxAttempts
    BY <1>1, <1>7, HeldEntry
  <2>2. new.tries = copy.attempts
        /\ new.stage = (IF copy.state = "pending" THEN "open" ELSE copy.state)
        /\ new = [stage |-> new.stage, tries |-> new.tries]
    BY <1>3, <1>7
  <2>3. copy.state = "delivered" => sends'[p] > 0
    BY <1>7 DEF DeliveredWereSent, AllSent, Delivered
  <2> HIDE DEF copy
  <2>4. new.stage \in {"open"} \cup Promise!Verdicts /\ new.tries \in 0..MaxAttempts
    BY <2>1, <2>2
  <2>5. new \in Promise!Entry
    BY <2>2, <2>4 DEF Promise!Entry, Promise!Stages
  <2>6. new.stage = "delivered" => sends'[p] > 0
    BY <2>2, <2>3
  <2>7. Promise!Follows(old, new)
    <3>1. CASE ~Holds(disk, p)
      <4>1. StillComing(p)
        BY <1>4, <1>5, <1>7, <3>1 DEF StillComing
      <4>2. old.stage = "coming"
        BY <1>2, <3>1, <4>1
      <4>3. QED
        BY <4>2 DEF Promise!Follows
    <3>2. CASE Holds(disk, p)
      <4> DEFINE before == CopyIn(disk, p)
      <4>1. before.state \in {"pending"} \cup Promise!Verdicts
            /\ before.attempts \in 0..MaxAttempts
        BY <1>1, <3>2, HeldEntry
      <4>2. before.attempts <= copy.attempts
            /\ (before.state # "pending" => copy.state = before.state)
        <5>1. CASE disk' = disk
          BY <4>1, <5>1 DEF copy
        <5>2. CASE saves # << >> /\ disk' = Head(saves).snap
          <6>1. /\ Newest = Len(saves) + 1 /\ Chain[0] = disk
                /\ Chain[1] = saves[1].snap
            BY <1>5, <5>2, ChainLinks
          <6>2. 0 \in 0..Newest /\ 1 \in 0..Newest /\ 0 <= 1
            BY <1>5, <5>2, <6>1
          <6>3. QED
            BY <1>5, <1>7, <3>2, <5>2, <6>1, <6>2 DEF ChainInOrder, InOrder, copy
        <5>3. QED
          BY <1>4, <5>1, <5>2
      <4>3. old.tries = before.attempts
            /\ old.stage = IF before.state = "pending" THEN "open" ELSE before.state
        BY <1>2, <3>2
      <4> HIDE DEF before
      <4>4. \/ old.stage = "open"
            \/ old.stage \in Promise!Verdicts /\ new.stage = old.stage
        BY <2>2, <4>1, <4>2, <4>3 DEF Promise!Verdicts
      <4>5. new.tries >= old.tries /\ new.stage # "coming"
        BY <2>1, <2>2, <2>4, <4>1, <4>2, <4>3 DEF Promise!Verdicts
      <4>6. QED
        BY <4>4, <4>5 DEF Promise!Follows
    <3>3. QED
      BY <3>1, <3>2
  <2>8. QED
    BY <2>5, <2>6, <2>7 DEF old, new
<1>8. QED
  BY <1>6, <1>7

\* A contact is for a copy that is open in the book, with a try left over.
LEMMA ContactIsPromised ==
    ASSUME IInv, RInv, ChainInOrder, AttemptOnDisk, ContactProvider
    PROVE  \E p \in Copies : Promise!Contact(p)
<1> DEFINE p == cycle.cur
           book == [q \in Copies |-> BookEntry(q)]
<1>1. /\ cycle.pc = "sending" /\ ~cycle.aborted
      /\ sends' = [sends EXCEPT ![p] = @ + 1]
      /\ UNCHANGED <<disk, snap, saves, serial>>
  BY DEF ContactProvider
<1>2. /\ p \in Copies /\ snap # None /\ Holds(snap, p) /\ CopyIn(snap, p).state = "pending"
  BY <1>1 DEF IInv, Coherent, InHand, InFlightDeliveryIsCurrent, IsCurrent,
              IsCurrentPendingChannel, Holds, CopyIn
<1>3. Holds(disk, p) /\ Allows(disk, p, sends)
  BY <1>1, <1>2 DEF AttemptOnDisk, OnTrial, RInv, AttemptIsSaved
<1>4. CopyIn(disk, p).state = "pending"
  <2>1. /\ Len(saves) \in Nat /\ Newest = Len(saves) + 1 /\ Chain[0] = disk
        /\ Chain[Newest] = snap
    BY <1>2, ChainLinks
  <2>2. 0 \in 0..Newest /\ Newest \in 0..Newest /\ 0 <= Newest
    BY <2>1
  <2>3. QED
    BY <1>2, <1>3, <2>1, <2>2 DEF ChainInOrder, InOrder
<1>5. BookEntry(p) = [stage |-> "open", tries |-> CopyIn(disk, p).attempts]
  BY <1>3, <1>4 DEF BookEntry, CopyIn
<1>6. sends[p] < CopyIn(disk, p).attempts
  <2>1. sends[p] \in Nat /\ disk \in Snapshot
    BY <1>2 DEF IInv, TypeOK
  <2>2. CopyIn(disk, p).attempts \in Int
    BY <1>2, <1>3, <2>1, AttemptsType DEF Attempts, CopyIn
  <2>3. QED
    BY <1>3, <2>1, <2>2 DEF Allows, Attempts, CopyIn
<1>7. UNCHANGED book
  <2>1. \A q \in Copies : BookEntry(q)' = BookEntry(q)
    BY <1>1 DEF BookEntry, StillComing, Holds
  <2>2. QED
    BY <2>1
<1>8. book[p] = [stage |-> "open", tries |-> CopyIn(disk, p).attempts]
  BY <1>2, <1>5
<1>9. Promise!Contact(p)
  <2> HIDE DEF p
  <2>1. book[p].stage = "open" /\ sends[p] < book[p].tries
    BY <1>6, <1>8
  <2>2. QED
    BY <1>1, <1>7, <2>1 DEF Promise!Contact
<1>10. QED
  BY <1>2, <1>9

\* Only a contact contacts.
LEMMA OthersDoNotContact ==
    ASSUME [Next]_vars, ~ContactProvider
    PROVE  sends' = sends
<1>1. CASE CycleStep
  BY <1>1 DEF CycleStep, FetchSettles, StartDispatch, Attempt, EndDispatch, Recheck,
       Resolve, DeclineDelivery, ProviderAnswers, DeliveryAborted
<1>2. CASE UserEdit
  BY <1>2 DEF UserEdit, AddWatch, ReplaceWatch, SetWatchEnabled, DeleteWatch,
       DisablePersonalTelegramForAllWatches, Edit, Reset
<1>3. CASE Wake \/ CheckNow
  BY <1>3 DEF Wake, CheckNow, BeginCycle
<1>4. CASE \/ Tick \/ SetClockBack \/ WakeWhileBusy \/ Open \/ WakeCold \/ LoadFails
           \/ ReadAgain \/ StartMonitor \/ FinishLoad
           \/ Crash \/ LearnStores \/ WriteSucceeds \/ WriteFails \/ UNCHANGED vars
  BY <1>4 DEF Tick, SetClockBack, WakeWhileBusy, Open, WakeCold, LoadFails, ReadAgain,
     StartMonitor, BootWith, FinishLoad,
     Crash, LearnStores, WriteSucceeds, WriteFails, vars
<1>5. QED
  BY <1>1, <1>2, <1>3, <1>4 DEF Next

\* The invariant of the refinement.
PromiseInv == LoadComesFirst /\ ChainInOrder /\ AttemptOnDisk /\ DeliveredWereSent

LEMMA InitPromiseInv == Init => PromiseInv
<1> SUFFICES ASSUME Init PROVE PromiseInv
  OBVIOUS
<1>1. snap = None /\ ~loading /\ saves = << >> /\ cycle.pc = "idle" /\ IInv
  BY InitIInv DEF Init, IdleCycle
<1>2. \A id \in EventIds : disk.pending[id] = None
  <2>1. (\A id \in EventIds : EmptySnapshot.pending[id] = None)
        /\ DOMAIN EmptySnapshot = {"watches", "items", "delivery", "pending",
                                   "nextEligibleAt", "failures"}
    BY DEF EmptySnapshot
  <2>2. PICK watches : disk = [EmptySnapshot EXCEPT !.watches = watches]
    BY DEF Init
  <2>3. QED
    BY <2>1, <2>2
<1>3. \A p \in Copies : ~Holds(disk, p)
  BY <1>2, CopyNames DEF Holds
<1>4. Newest = 0 /\ Chain[0] = disk
  BY <1>1 DEF Newest, Chain
<1>5. ChainInOrder
  <2>1. \A i \in 0..0 : i = 0
    OBVIOUS
  <2>2. QED
    BY <1>3, <1>4, <2>1 DEF ChainInOrder, InOrder
<1>6. DeliveredWereSent
  <2>1. Len(saves) = 0
    BY <1>1
  <2>2. QED
    BY <1>1, <1>3, <2>1 DEF DeliveredWereSent, AllSent, Delivered
<1>7. QED
  BY <1>1, <1>5, <1>6 DEF PromiseInv, LoadComesFirst, AttemptOnDisk, OnTrial

LEMMA NextKeepsPromiseInv ==
    IInv /\ IInv' /\ RInv /\ PromiseInv /\ [Next]_vars /\ ~(loading /\ Reset) => PromiseInv'
<1> SUFFICES ASSUME IInv, IInv', RInv, PromiseInv, [Next]_vars, ~(loading /\ Reset)
             PROVE  PromiseInv'
  OBVIOUS
<1>1. LoadComesFirst' /\ ChainInOrder'
  BY NextKeepsChain DEF PromiseInv
<1>2. AttemptOnDisk'
  BY NextKeepsAttemptOnDisk DEF PromiseInv
<1>3. DeliveredWereSent'
  BY NextKeepsSent DEF PromiseInv
<1>4. QED
  BY <1>1, <1>2, <1>3 DEF PromiseInv

LEMMA StepIsPromised ==
    IInv /\ IInv' /\ RInv /\ PromiseInv /\ PromiseInv' /\ [Next]_vars /\ ~(loading /\ Reset)
    => [Promise!Next]_(Promise!promiseVars)
<1> SUFFICES ASSUME IInv, IInv', RInv, PromiseInv, PromiseInv', [Next]_vars,
                    ~(loading /\ Reset)
             PROVE  Promise!Next
  OBVIOUS
<1> USE DEF PromiseInv
<1>1. CASE ContactProvider
  BY <1>1, ContactIsPromised DEF Promise!Next
<1>2. CASE ~ContactProvider
  <2> DEFINE book == [p \in Copies |-> BookEntry(p)]
  <2>1. \A p \in Copies : /\ BookEntry(p)' \in Promise!Entry
                          /\ Promise!Follows(BookEntry(p), BookEntry(p)')
                          /\ BookEntry(p)'.stage = "delivered" => sends'[p] > 0
    BY EntryFollows
  <2>2. sends' = sends
    BY <1>2, OthersDoNotContact
  <2>3. book' = [p \in Copies |-> BookEntry(p)']
    OBVIOUS
  <2>4. book' \in [Copies -> Promise!Entry]
    BY <2>1, <2>3
  <2>5. \A p \in Copies : /\ Promise!Follows(book[p], book'[p])
                          /\ book'[p].stage = "delivered" => sends[p] > 0
    BY <2>1, <2>2, <2>3
  <2>6. Promise!Write
    BY <2>2, <2>4, <2>5 DEF Promise!Write
  <2>7. QED
    BY <2>6 DEF Promise!Next
<1>3. QED
  BY <1>1, <1>2

\* The engine implements DeliveryPromise, unless a reset arrives while the snapshot
\* is being loaded: whatever dies, fails or comes late, a try is on disk before its
\* provider hears of it, no try and no verdict is taken back, a copy that is gone
\* stays gone, and only a copy that was sent is ever delivered.
THEOREM DeliveryPromiseIsKept ==
    Spec /\ [][~(loading /\ Reset)]_vars => KeepsDeliveryPromise
<1>1. Init => PromiseInv /\ Promise!Init
  BY InitPromiseInv, InitIsPromised
<1>2. IInv /\ UNCHANGED vars => ~(loading /\ Reset)
  BY DEF Reset, vars, IInv, TypeOK
<1>3. IInv /\ IInv' /\ RInv /\ PromiseInv /\ [Next]_vars /\ [~(loading /\ Reset)]_vars
      => PromiseInv'
  BY <1>2, NextKeepsPromiseInv
<1>4. IInv /\ IInv' /\ RInv /\ PromiseInv /\ PromiseInv' /\ [Next]_vars
      /\ [~(loading /\ Reset)]_vars => [Promise!Next]_(Promise!promiseVars)
  BY <1>2, StepIsPromised
<1>5. QED
  BY <1>1, <1>3, <1>4, IInvAlways, RInvAlways, PTL
     DEF Spec, KeepsDeliveryPromise, Promise!Spec

===============================================================================
