----------------------------- MODULE MonitorEngine -----------------------------
(***************************************************************************)
(* The local monitor engine (apps/extension/src/monitor/                   *)
(* local-monitor-engine.ts) inside its extension worker: one polling cycle *)
(* at a time, user edits that interleave with the cycle at every await,    *)
(* one queue of storage writes, browser alarms, a worker the browser may   *)
(* kill at any moment, and a wall clock.                                   *)
(*                                                                         *)
(* `disk`, `alarm` and the ghosts survive a crash; `snap`, `saves`, `gen`, *)
(* `loading`, `schedule`, `catalog` and `cycle` are the worker's memory.   *)
(* An action is the code that runs between two awaits; `cycle.pc` names    *)
(* the await the cycle is suspended at:                                    *)
(*   fetching    Apple requests outstanding                                *)
(*   recording   the save that precedes any delivery                       *)
(*   starting    that save has settled; dispatchPending comes next         *)
(*   dispatching between two candidates of dispatchPending                 *)
(*   attempting  the save of a delivery attempt                            *)
(*   rechecking  that save has settled; the candidate is resolved again    *)
(*   resolving   the adapter rebuilds the event from current state         *)
(*   sending     the adapter is about to contact the provider              *)
(*   answering   the provider has been contacted                           *)
(*   settling    the save of the attempt's outcome                         *)
(*   closing     the last save of the cycle                                *)
(***************************************************************************)
EXTENDS MonitorSnapshot, Sequences

CONSTANTS
    WatchForms,      \* what the user may save a watch as
    Catalogs,        \* what getCatalog() may return: catalogs, perhaps None
    RetryAfters,     \* Retry-After delays a failed Apple answer may carry
    ProviderDelays,  \* retry_not_before, relative to the answer
    Telegram,        \* the channel whose provider names retry times
    MaxParts,        \* MAX_PARTS_PER_REQUEST (12)
    MaxTime,         \* bound on the clock
    MaxEdits,        \* bound on user edits and starts
    MaxCrashes,      \* bound on worker deaths
    MaxFaults,       \* bound on storage reads and writes that fail
    MaxSetBacks      \* bound on the clock being set back

ASSUME FormsAssumption ==
    /\ WatchForms \subseteq WatchForm
    /\ \A form \in WatchForms : form.skus # {} /\ form.anchor \in form.stores

ASSUME EnvironmentAssumption ==
    /\ Catalogs \subseteq Catalog \cup {None}
    /\ RetryAfters \subseteq Nat /\ ProviderDelays \subseteq Int
    /\ MaxParts \in Nat \ {0} /\ MaxTime \in Nat

ASSUME NoneIsNoCopy == None \notin EventIds \X Channels

VARIABLES
    now,      \* the wall clock
    disk,     \* the snapshot in extension storage
    alarm,    \* when the two browser alarms ring
    snap,     \* the engine's snapshot, None before it is loaded
    loading,  \* a storage read is under way (snapshotLoad)
    schedule, \* what start() and the later refreshes have made of the alarms
    saves,    \* persistQueue: snapshots waiting to be written, oldest first
    gen,      \* generations: edits of each watch seen by this worker
    catalog,  \* what catalog.getCatalog() returns, None if there is none
    cycle,    \* the running cycle
    serial,   \* ghost: events ever queued for each scope
    added,    \* ghost: watch ids ever used (the UI draws a random UUID)
    sends,    \* ghost: provider contacts of each copy
    spent     \* ghost: edits, crashes, storage failures and set-backs so far

vars == <<now, disk, alarm, snap, loading, schedule, saves, gen, catalog,
          cycle, serial, added, sends, spent>>

-------------------------------------------------------------------------------
(* State *)

Copies == EventIds \X Channels

Revision == [rev : Int, gen : Nat]

Pcs == {"idle", "fetching", "recording", "starting", "dispatching",
        "attempting", "rechecking", "resolving", "sending", "answering",
        "settling", "closing"}

Cycle == [pc      : Pcs,
          t       : Int,                                 \* nowMs
          catalog : Catalogs \cup {None},                \* as the cycle began
          work    : [Stores -> SUBSET Skus],             \* by poll anchor
          revs    : [Watches -> Revision \cup {None}],   \* revisions polled
          failed  : BOOLEAN,                             \* hadFetchFailure
          retry   : Nat,                                 \* retryAfterMs
          todo    : SUBSET Copies,                       \* dispatch candidates
          cur     : Copies \cup {None},                  \* the one in hand
          aborted : BOOLEAN]                             \* its AbortSignal

(***************************************************************************)
(* ahead   the worker is dead, or its start() has yet to set the alarms    *)
(* set     the alarms were set for the snapshot in memory                  *)
(* lapsed  storage failed where the engine would have set them; the next   *)
(*         start(), edit or end of a cycle does                            *)
(***************************************************************************)
Schedules == {"ahead", "set", "lapsed"}

NoWork == [a \in Stores |-> {}]

IdleCycle == [pc |-> "idle", t |-> 0, catalog |-> None, work |-> NoWork,
              revs |-> [w \in Watches |-> None], failed |-> FALSE, retry |-> 0,
              todo |-> {}, cur |-> None, aborted |-> FALSE]

Save == [by : {"cycle", "edit", "reset"}, snap : Snapshot]

TypeOK ==
    /\ now \in Int
    /\ disk \in Snapshot
    /\ alarm \in Alarm
    /\ snap \in Snapshot \cup {None}
    /\ loading \in BOOLEAN
    /\ schedule \in Schedules
    /\ saves \in Seq(Save)
    /\ gen \in [Watches -> Nat]
    /\ catalog \in Catalogs \cup {None}
    /\ cycle \in Cycle
    /\ serial \in [Scopes -> Nat]
    /\ added \subseteq Watches
    /\ sends \in [Copies -> Nat]
    /\ spent \in [edits : Nat, crashes : Nat, faults : Nat, setBacks : Nat]

\* Storage holds what an earlier session saved before anything was polled: any
\* set of watches.  The browser has just started, so no alarm is set.
Init ==
    /\ now = 0
    /\ \E saved \in [Watches -> WatchForms \cup {None}] :
        /\ disk = [EmptySnapshot EXCEPT !.watches =
                    [w \in Watches |-> IF saved[w] = None THEN None
                                       ELSE WithRev(saved[w], 0)]]
        /\ added = {w \in Watches : saved[w] # None}
    /\ alarm = NoAlarm
    /\ snap = None
    /\ loading = FALSE
    /\ schedule = "ahead"
    /\ saves = << >>
    /\ gen = [w \in Watches |-> 0]
    /\ catalog = None
    /\ cycle = IdleCycle
    /\ serial = [x \in Scopes |-> 0]
    /\ sends = [p \in Copies |-> 0]
    /\ spent = [edits |-> 0, crashes |-> 0, faults |-> 0, setBacks |-> 0]

\* The engine answers: its snapshot is in memory.  A reset that arrives during
\* the load puts an empty one there, but its caller hears back only after a
\* write that waits behind the load, so nothing else runs before the load ends.
Ready == snap # None /\ ~loading

Persist(by, s) == saves' = Append(saves, [by |-> by, snap |-> s])

-------------------------------------------------------------------------------
(* Clock and alarms *)

Tick ==
    /\ now < MaxTime
    /\ now' = now + 1
    /\ UNCHANGED <<disk, alarm, snap, loading, schedule, saves, gen, catalog,
                   cycle, serial, added, sends, spent>>

\* The user, or a time server, sets the clock back.
SetClockBack ==
    /\ spent.setBacks < MaxSetBacks
    /\ \E t \in 0..(now - 1) : now' = t
    /\ spent' = [spent EXCEPT !.setBacks = @ + 1]
    /\ UNCHANGED <<disk, alarm, snap, loading, schedule, saves, gen, catalog,
                   cycle, serial, added, sends>>

Rings(at) == at # None /\ at <= now

AlarmRings == Rings(alarm.periodic) \/ Rings(alarm.oneShot)

\* A periodic alarm that has rung rings again a period later.
RungAlarm == [periodic |-> IF Rings(alarm.periodic) THEN now + PollInterval
                           ELSE alarm.periodic,
              oneShot  |-> IF Rings(alarm.oneShot) THEN None ELSE alarm.oneShot]

\* A wake finds a cycle running and reports "busy".
WakeWhileBusy ==
    /\ AlarmRings
    /\ Ready /\ cycle.pc # "idle"
    /\ alarm' = RungAlarm
    /\ UNCHANGED <<now, disk, snap, loading, schedule, saves, gen, catalog,
                   cycle, serial, added, sends, spent>>

-------------------------------------------------------------------------------
(* Worker start and death *)

\* The worker runs, if perhaps without a snapshot after a load that failed.
Alive == snap # None \/ loading \/ schedule = "lapsed"

\* The browser starts the worker for an alarm, a message or its own start; the
\* catalog of the installed release loads or does not, then start() begins.
BootWith(rung) ==
    /\ ~Alive
    /\ loading' = TRUE
    /\ schedule' = "ahead"
    /\ catalog' \in Catalogs
    /\ alarm' = rung
    /\ UNCHANGED <<now, disk, snap, saves, gen, cycle, serial, added, sends,
                   spent>>

Open == BootWith(alarm)

WakeCold == AlarmRings /\ BootWith(RungAlarm)

\* What start() sets for the snapshot s.  It also runs a cycle, which the
\* one-shot alarm due at once stands for.
StartSchedule(s) == [RefreshSchedule(s, now) EXCEPT !.oneShot = now]

(***************************************************************************)
(* ensureSnapshot's read settles, and if start() waits for it, start()     *)
(* goes on: only start() sets the alarms.  The loaded snapshot replaces    *)
(* whatever a reset put in memory meanwhile.                               *)
(***************************************************************************)
FinishLoad ==
    LET loaded == NormalizePersistedClockSkew(disk, now) IN
    /\ loading
    /\ loading' = FALSE
    /\ snap' = loaded
    /\ \/ /\ schedule = "ahead"
          /\ schedule' = "set"
          /\ alarm' = StartSchedule(loaded)
       \/ /\ schedule = "lapsed"
          /\ UNCHANGED <<alarm, schedule>>
    /\ UNCHANGED <<now, disk, saves, gen, catalog, cycle, serial, added, sends,
                   spent>>

\* The read rejects: start() and whoever else waits for it report an error and
\* set no alarm, and a wake that waits has rung in vain.
LoadFails ==
    /\ loading
    /\ spent.faults < MaxFaults
    /\ spent' = [spent EXCEPT !.faults = @ + 1]
    /\ loading' = FALSE
    /\ schedule' = "lapsed"
    /\ alarm' \in {alarm, RungAlarm}
    /\ UNCHANGED <<now, disk, snap, saves, gen, catalog, cycle, serial, added,
                   sends>>

\* After a load that failed a wake, a check, an edit or getSnapshot reads again.
ReadAgain ==
    /\ schedule = "lapsed" /\ snap = None /\ ~loading
    /\ loading' = TRUE
    /\ UNCHANGED <<now, disk, alarm, snap, schedule, saves, gen, catalog, cycle,
                   serial, added, sends, spent>>

\* "Start monitor" on the page calls start() again, whatever runs.
StartMonitor ==
    /\ spent.edits < MaxEdits
    /\ spent' = [spent EXCEPT !.edits = @ + 1]
    /\ \/ /\ Ready
          /\ alarm' = StartSchedule(snap)
          /\ schedule' = "set"
          /\ UNCHANGED loading
       \/ /\ snap = None /\ schedule = "lapsed"
          /\ loading' = TRUE
          /\ schedule' = "ahead"
          /\ UNCHANGED alarm
    /\ UNCHANGED <<now, disk, snap, saves, gen, catalog, cycle, serial, added,
                   sends>>

\* A write in flight may or may not have reached the disk.
Crash ==
    /\ Alive
    /\ spent.crashes < MaxCrashes
    /\ spent' = [spent EXCEPT !.crashes = @ + 1]
    /\ \/ disk' = disk
       \/ ~loading /\ saves # << >> /\ Saveable(Head(saves).snap)
          /\ disk' = Head(saves).snap
    /\ snap' = None
    /\ loading' = FALSE
    /\ schedule' = "ahead"
    /\ saves' = << >>
    /\ gen' = [w \in Watches |-> 0]
    /\ catalog' = None
    /\ cycle' = IdleCycle
    /\ UNCHANGED <<now, alarm, serial, added, sends>>

\* commitDiscoveredStores: the catalog learns stores while the worker runs.
LearnStores ==
    /\ catalog # None
    /\ \E c \in Catalogs \ {None} :
        /\ c.skus = catalog.skus
        /\ catalog.stores \subseteq c.stores /\ catalog.stores # c.stores
        /\ catalog' = c
    /\ UNCHANGED <<now, disk, alarm, snap, loading, schedule, saves, gen, cycle,
                   serial, added, sends, spent>>

-------------------------------------------------------------------------------
(* The storage queue: one write at a time, behind a read that is under way *)

AfterSave == [recording |-> "starting", attempting |-> "rechecking",
              settling |-> "dispatching", closing |-> "idle"]

\* Edits and the end of a cycle refresh the alarms once their write has settled.
WriteSucceeds ==
    /\ saves # << >> /\ ~loading
    /\ Saveable(Head(saves).snap)
    /\ disk' = Head(saves).snap
    /\ saves' = Tail(saves)
    /\ LET by   == Head(saves).by
           ends == by = "cycle" /\ cycle.pc = "closing"
       IN  /\ cycle' = IF ends THEN IdleCycle
                       ELSE IF by = "cycle"
                       THEN [cycle EXCEPT !.pc = AfterSave[cycle.pc]]
                       ELSE cycle
           /\ \/ /\ ends \/ by = "edit"
                 /\ alarm' = RefreshSchedule(snap, now)
                 /\ schedule' = "set"
              \/ /\ ~ends /\ by # "edit"
                 /\ UNCHANGED <<alarm, schedule>>
    /\ UNCHANGED <<now, snap, loading, gen, catalog, serial, added, sends, spent>>

\* Mutant: the cycle goes on as if its write had succeeded.
IgnoredWriteFails ==
    /\ saves # << >> /\ ~loading
    /\ spent.faults < MaxFaults
    /\ spent' = [spent EXCEPT !.faults = @ + 1]
    /\ saves' = Tail(saves)
    /\ cycle' = IF Head(saves).by # "cycle" THEN cycle
                ELSE IF cycle.pc = "closing" THEN IdleCycle
                ELSE [cycle EXCEPT !.pc = AfterSave[cycle.pc]]
    /\ UNCHANGED <<now, disk, alarm, snap, loading, schedule, gen, catalog,
                   serial, added, sends>>

\* The write is refused or fails: the awaiting cycle reports "storage_error",
\* the awaiting edit rejects without setting the alarms, and memory stays ahead
\* of the disk.
WriteFails ==
    /\ saves # << >> /\ ~loading
    /\ \/ /\ ~Saveable(Head(saves).snap)
          /\ UNCHANGED <<schedule, spent>>
       \/ /\ spent.faults < MaxFaults
          /\ spent' = [spent EXCEPT !.faults = @ + 1]
          /\ schedule' = IF Head(saves).by = "edit" THEN "lapsed" ELSE schedule
    /\ saves' = Tail(saves)
    /\ cycle' = IF Head(saves).by = "cycle" THEN IdleCycle ELSE cycle
    /\ UNCHANGED <<now, disk, alarm, snap, loading, gen, catalog,
                   serial, added, sends>>

-------------------------------------------------------------------------------
(* A cycle begins: runCycleInternal up to its first await *)

\* The snapshot once stale and retired work is closed.
Reconciled ==
    LET s == ReconcileDurableDelivery(snap, now)
    IN  IF catalog = None THEN s
        ELSE ReconcileRetiredCatalogState(s, catalog, now)

\* force: the watches of an explicit check-now, {} for a wake.
Selected(s, force) ==
    {w \in Watches :
        /\ s.watches[w] # None /\ s.watches[w].enabled
        /\ IF force # {} THEN w \in force ELSE IsWatchDue(s, w, now)}

Recording == [IdleCycle EXCEPT !.pc = "recording", !.t = now, !.catalog = catalog]

\* Apple's host is in backoff: only deliveries go on.
BeginBackedOff(rung) ==
    /\ InHostBackoff(Reconciled, now)
    /\ snap' = Reconciled
    /\ alarm' = [rung EXCEPT !.oneShot = Reconciled.nextEligibleAt]
    /\ cycle' = Recording
    /\ Persist("cycle", Reconciled)
    /\ UNCHANGED serial

\* Without a catalog what is selected is recorded as unknown.
BeginWithoutCatalog(force, rung) ==
    /\ ~InHostBackoff(Reconciled, now)
    /\ catalog = None
    /\ LET s   == Reconciled
           xs  == UNION {ScopesOf(s, w) : w \in Selected(s, force)}
           new == RecordItems(s, [x \in xs |-> "unknown"], now)
       IN  snap' = new /\ Persist("cycle", new)
    /\ alarm' = rung
    /\ cycle' = Recording
    /\ UNCHANGED serial

\* Every way of promoting the deferred alerts of s: the snapshot and the serial
\* numbers that result.
Promotions(s, numbers, atStart) ==
    {[snap   |-> PromoteDeferredAvailability(s, a, numbers, now, atStart),
      serial |-> NextSerial(numbers, a)] :
        a \in {b \in Admissions(s, Promotable(s, now, atStart, catalog)) :
                \A x \in b.queued : numbers[x] < MaxAlerts}}

\* Every way of recording the observations obs.
Recordings(s, obs, numbers) ==
    {[snap   |-> RecordObservation(s, obs, a, numbers, now, catalog),
      serial |-> NextSerial(numbers, a)] :
        a \in {b \in Admissions(s, Alerting(s, obs, now, catalog)) :
                \A x \in b.queued : numbers[x] < MaxAlerts}}

\* Nothing is due: promote what was deferred and deliver.
BeginIdle(force, rung) ==
    /\ ~InHostBackoff(Reconciled, now)
    /\ catalog # None
    /\ Selected(Reconciled, force) = {}
    /\ \E p \in Promotions(Reconciled, serial, catalog) :
        /\ snap' = p.snap
        /\ serial' = p.serial
        /\ Persist("cycle", p.snap)
    /\ alarm' = rung
    /\ cycle' = Recording

\* All that is due is retired: no request goes out, and as no request failed
\* the backoff is cleared.
BeginUnsupported(force, rung) ==
    /\ ~InHostBackoff(Reconciled, now)
    /\ catalog # None
    /\ Selected(Reconciled, force) # {}
    /\ Selected(Reconciled, force) \subseteq RetiredWatches(Reconciled, catalog)
    /\ \E p \in Promotions(Reconciled, serial, catalog) :
        LET new == UpdateBackoff(p.snap, FALSE, 0, now) IN
        /\ snap' = new
        /\ serial' = p.serial
        /\ Persist("cycle", new)
    /\ alarm' = rung
    /\ cycle' = Recording

\* Poll Apple for the valid watches, coalesced by poll anchor.
BeginPolling(force, rung) ==
    LET valid == Selected(Reconciled, force) \ RetiredWatches(Reconciled, catalog)
        watch(w) == Reconciled.watches[w]
    IN  /\ ~InHostBackoff(Reconciled, now)
        /\ catalog # None
        /\ valid # {}
        /\ \E p \in Promotions(Reconciled, serial, catalog) :
            /\ snap' = p.snap
            /\ serial' = p.serial
        /\ cycle' = [IdleCycle EXCEPT
                !.pc = "fetching", !.t = now, !.catalog = catalog,
                !.work = [a \in Stores |->
                    UNION {watch(w).skus : w \in {v \in valid : watch(v).anchor = a}}],
                !.revs = [w \in Watches |->
                    IF w \in valid THEN [rev |-> watch(w).rev, gen |-> gen[w]]
                    ELSE None]]
        /\ alarm' = rung
        /\ UNCHANGED saves

BeginCycle(force, rung) ==
    /\ Ready /\ cycle.pc = "idle"
    /\ \/ BeginBackedOff(rung)
       \/ BeginWithoutCatalog(force, rung)
       \/ BeginIdle(force, rung)
       \/ BeginUnsupported(force, rung)
       \/ BeginPolling(force, rung)
    /\ UNCHANGED <<now, disk, loading, schedule, gen, catalog, added, sends,
                   spent>>

Wake == AlarmRings /\ BeginCycle({}, RungAlarm)

CheckNow == \E force \in SUBSET Watches : BeginCycle(force, alarm)

-------------------------------------------------------------------------------
(* Polling *)

\* isCurrentRevision, for a watch the running cycle polls.
IsCurrentRevision(w) ==
    /\ cycle.revs[w] # None
    /\ snap.watches[w] # None
    /\ snap.watches[w].rev = cycle.revs[w].rev
    /\ gen[w] = cycle.revs[w].gen

\* The scopes an answer for the given anchor and SKUs speaks of.
Answered(anchor, skus) ==
    {x \in Scopes : /\ IsCurrentRevision(x[1])
                    /\ snap.watches[x[1]].anchor = anchor
                    /\ x[2] \in skus
                    /\ InScope(snap, x)}

\* A request settles: with a status for each SKU at each store, `unknown` where
\* the answer says nothing, or failed, which the timeout also counts as.
Answers(skus) ==
    [failed : {FALSE}, retry : {0}, status : [skus \X Stores -> Status]]
    \cup
    [failed : {TRUE}, retry : RetryAfters,
     status : {[y \in skus \X Stores |-> "unknown"]}]

(***************************************************************************)
(* One answer is recorded for the watches whose revision is still current. *)
(* After the last one the cycle promotes deferred alerts, updates the      *)
(* backoff and saves before any channel is called.                         *)
(***************************************************************************)
RequestSettles(anchor, skus, answer) ==
    LET obs    == [x \in Answered(anchor, skus) |-> answer.status[<<x[2], x[3]>>]]
        work   == [cycle.work EXCEPT ![anchor] = @ \ skus]
        failed == cycle.failed \/ answer.failed
        retry  == Greatest(cycle.retry, answer.retry)
        polled == [cycle EXCEPT !.t = now, !.work = work,
                                !.failed = failed, !.retry = retry]
    IN  \E r \in Recordings(snap, obs, serial) :
        \/ /\ work # NoWork
           /\ snap' = r.snap
           /\ serial' = r.serial
           /\ cycle' = polled
           /\ UNCHANGED <<alarm, saves>>
        \/ /\ work = NoWork
           /\ \E p \in Promotions(r.snap, r.serial, cycle.catalog) :
                LET new == UpdateBackoff(p.snap, failed, retry, now) IN
                /\ snap' = new
                /\ serial' = p.serial
                /\ Persist("cycle", new)
                /\ alarm' = IF failed
                            THEN [alarm EXCEPT !.oneShot = new.nextEligibleAt]
                            ELSE alarm
           /\ cycle' = [polled EXCEPT !.pc = "recording",
                            !.revs = [w \in Watches |-> None],
                            !.failed = FALSE, !.retry = 0]

\* The code asks batch by batch, each cut into chunks of MaxParts SKUs, in the
\* order of its arrays; here any batch and any chunk of it may come next.
FetchSettles ==
    /\ cycle.pc = "fetching"
    /\ \E anchor \in Stores : \E skus \in SUBSET cycle.work[anchor] :
        /\ skus # {}
        /\ Cardinality(skus) = Least(MaxParts, Cardinality(cycle.work[anchor]))
        /\ \E answer \in Answers(skus) : RequestSettles(anchor, skus, answer)
    /\ UNCHANGED <<now, disk, loading, schedule, gen, catalog, added, sends,
                   spent>>

-------------------------------------------------------------------------------
(* Delivery: dispatchPending *)

\* s with the copy p replaced.
WithCopy(s, p, copy) == [s EXCEPT !.pending[p[1]].channels[p[2]] = copy]

CopyAt(p) == snap.pending[p[1]].channels[p[2]]

IsCurrent(p) == IsCurrentPendingChannel(snap, p[1], p[2])

\* The candidates are what the ledger holds as delivery starts.
StartDispatch ==
    /\ cycle.pc = "starting"
    /\ snap' = ReconcileDurableDelivery(snap, cycle.t)
    /\ cycle' = [cycle EXCEPT !.pc = "dispatching",
                              !.todo = Ledger(snap) \X Channels]
    /\ UNCHANGED <<now, disk, alarm, loading, schedule, saves, gen, catalog,
                   serial, added, sends, spent>>

\* Candidates that may be delivered now; the cycle's clock reading may be stale.
Dispatchable == {p \in cycle.todo : IsDispatchable(snap, p[1], p[2], cycle.t)}

\* An attempt is saved before the delivery; a copy out of attempts fails.  The
\* code takes the candidates in ledger order; here any order will do.
Attempt ==
    /\ cycle.pc = "dispatching"
    /\ \E p \in Dispatchable :
        LET copy  == CopyAt(p)
            out   == copy.attempts >= MaxAttempts
            tried == [copy EXCEPT !.attempts = @ + 1,
                                  !.next = cycle.t + RetryDelay(copy.attempts + 1)]
            new   == WithCopy(snap, p, IF out THEN Closed(copy, "failed", cycle.t)
                                       ELSE tried)
        IN  /\ snap' = new
            /\ Persist("cycle", new)
            /\ cycle' = [cycle EXCEPT
                    !.pc   = IF out THEN "settling" ELSE "attempting",
                    !.todo = @ \ {p},
                    !.cur  = IF out THEN None ELSE p]
    /\ UNCHANGED <<now, disk, alarm, loading, schedule, gen, catalog,
                   serial, added, sends, spent>>

\* Nothing is left to deliver: the last save.
EndDispatch ==
    /\ cycle.pc = "dispatching"
    /\ Dispatchable = {}
    /\ Persist("cycle", snap)
    /\ cycle' = [cycle EXCEPT !.pc = "closing", !.todo = {}]
    /\ UNCHANGED <<now, disk, alarm, snap, loading, schedule, gen, catalog,
                   serial, added, sends, spent>>

NextCandidate == [cycle EXCEPT !.pc = "dispatching", !.cur = None, !.aborted = FALSE]

\* Mutant: the candidate is not looked at again.
HastyRecheck ==
    /\ cycle.pc = "rechecking"
    /\ cycle' = [cycle EXCEPT !.pc = "resolving"]
    /\ UNCHANGED <<now, disk, alarm, snap, loading, schedule, saves, gen, catalog,
                   serial, added, sends, spent>>

\* An edit may have landed during the save of the attempt: look again.
Recheck ==
    /\ cycle.pc = "rechecking"
    /\ cycle' = IF IsCurrent(cycle.cur) THEN [cycle EXCEPT !.pc = "resolving"]
                ELSE NextCandidate
    /\ UNCHANGED <<now, disk, alarm, snap, loading, schedule, saves, gen, catalog,
                   serial, added, sends, spent>>

\* Mutant: the status of the item is not looked at.
BlindStillOffered(p) ==
    /\ snap.pending[p[1]] # None
    /\ CanMakeEvent(snap, p[1][1], snap.pending[p[1]].observedAt, now, catalog)
    /\ Supported(snap.watches[p[1][1][1]], catalog)
    /\ snap.items[p[1][1]] # None

\* resolveCurrentAvailabilityEvent: the event is still what the snapshot says.
StillOffered(p) ==
    LET id == p[1]
        x  == id[1]
    IN  /\ snap.pending[id] # None
        /\ CanMakeEvent(snap, x, snap.pending[id].observedAt, now, catalog)
        /\ Supported(snap.watches[x[1]], catalog)
        /\ snap.items[x] # None
        /\ snap.items[x].status = "available"

Resolvable(p) ==
    /\ StillOffered(p)
    /\ snap.items[p[1][1]].successAt = snap.pending[p[1]].observedAt

\* The copy as the engine leaves it when a delivery attempt has the given outcome.
Settled(p, outcome) ==
    LET copy    == CopyAt(p)
        expires == snap.pending[p[1]].observedAt + Retention
    IN  IF outcome.kind = "delivered" THEN Closed(copy, "delivered", now)
        ELSE IF outcome.kind = "terminal" THEN Closed(copy, "failed", now)
        ELSE IF outcome.kind = "retry_not_before"
        THEN IF outcome.at <= now THEN Closed(copy, "failed", now)
             ELSE IF outcome.at > expires THEN Closed(copy, "expired", now)
             ELSE [copy EXCEPT !.next = outcome.at]
        ELSE IF copy.attempts >= MaxAttempts THEN Closed(copy, "failed", now)
        ELSE [copy EXCEPT !.next = now + RetryDelay(copy.attempts)]

\* Mutant: a late outcome is written whatever became of the copy meanwhile.
LateSettle(outcome) ==
    \/ /\ snap.pending[cycle.cur[1]] = None
       /\ cycle' = NextCandidate
       /\ UNCHANGED <<snap, saves>>
    \/ /\ snap.pending[cycle.cur[1]] # None
       /\ LET new == WithCopy(snap, cycle.cur, Settled(cycle.cur, outcome))
          IN  snap' = new /\ Persist("cycle", new)
       /\ cycle' = [NextCandidate EXCEPT !.pc = "settling"]

\* A late outcome changes nothing once the copy is no longer current.
Settle(outcome) ==
    \/ /\ ~IsCurrent(cycle.cur)
       /\ cycle' = NextCandidate
       /\ UNCHANGED <<snap, saves>>
    \/ /\ IsCurrent(cycle.cur)
       /\ LET new == WithCopy(snap, cycle.cur, Settled(cycle.cur, outcome))
          IN  snap' = new /\ Persist("cycle", new)
       /\ cycle' = [NextCandidate EXCEPT !.pc = "settling"]

Outcome(kind) == [kind |-> kind, at |-> now]

\* Mutant: a provider that says nothing, and no timeout.
SilentProviderOutcomes(channel) == {}

ProviderOutcomes(channel) ==
    {Outcome(kind) : kind \in {"delivered", "terminal", "retry"}}
    \cup
    {[kind |-> "retry_not_before", at |-> now + delay] :
        delay \in IF channel = Telegram THEN ProviderDelays ELSE {}}

\* The adapter rebuilds the event; if it no longer holds the attempt is terminal.
Resolve ==
    /\ cycle.pc = "resolving"
    /\ \/ /\ ~cycle.aborted /\ Resolvable(cycle.cur)
          /\ cycle' = [cycle EXCEPT !.pc = "sending"]
          /\ UNCHANGED <<snap, saves>>
       \/ /\ ~cycle.aborted /\ ~Resolvable(cycle.cur)
          /\ Settle(Outcome("terminal"))
    /\ UNCHANGED <<now, disk, alarm, loading, schedule, gen, catalog,
                   serial, added, sends, spent>>

\* The adapter has seen no abort and contacts the provider.
ContactProvider ==
    /\ cycle.pc = "sending"
    /\ ~cycle.aborted
    /\ sends' = [sends EXCEPT ![cycle.cur] = @ + 1]
    /\ cycle' = [cycle EXCEPT !.pc = "answering"]
    /\ UNCHANGED <<now, disk, alarm, snap, loading, schedule, saves, gen, catalog,
                   serial, added, spent>>

\* The adapter gives up before any contact: no permission, or too slow.
DeclineDelivery ==
    /\ cycle.pc = "sending"
    /\ ~cycle.aborted
    /\ \E kind \in {"terminal", "retry"} : Settle(Outcome(kind))
    /\ UNCHANGED <<now, disk, alarm, loading, schedule, gen, catalog,
                   serial, added, sends, spent>>

\* The provider answers, or the timeout makes it a retry.
ProviderAnswers ==
    /\ cycle.pc = "answering"
    /\ ~cycle.aborted
    /\ \E outcome \in ProviderOutcomes(cycle.cur[2]) : Settle(outcome)
    /\ UNCHANGED <<now, disk, alarm, loading, schedule, gen, catalog,
                   serial, added, sends, spent>>

\* An edit aborted the delivery: the engine's wait ends as a retry at once.
DeliveryAborted ==
    /\ cycle.pc \in {"resolving", "sending", "answering"}
    /\ cycle.aborted
    /\ Settle(Outcome("retry"))
    /\ UNCHANGED <<now, disk, alarm, loading, schedule, gen, catalog,
                   serial, added, sends, spent>>

-------------------------------------------------------------------------------
(* User edits: each changes memory at once and waits for its save *)

\* The watches of ws get a new generation and lose their running delivery; the
\* edited snapshot is queued for writing.
Edit(ws, new) ==
    /\ Ready
    /\ spent.edits < MaxEdits
    /\ spent' = [spent EXCEPT !.edits = @ + 1]
    /\ snap' = new
    /\ gen' = [w \in Watches |-> IF w \in ws THEN gen[w] + 1 ELSE gen[w]]
    /\ cycle' = [cycle EXCEPT !.aborted = @ \/
                    /\ cycle.pc \in {"resolving", "sending", "answering"}
                    /\ cycle.cur[1][1][1] \in ws]
    /\ Persist("edit", new)
    /\ UNCHANGED <<now, disk, alarm, loading, schedule, catalog, serial, sends>>

AddWatch(w, form) ==
    /\ w \notin added
    /\ added' = added \cup {w}
    /\ Edit({w}, [snap EXCEPT !.watches[w] = WithRev(form, now)])

\* A replacement is never older than what it replaces, whatever the clock says.
NextRev(w) == Greatest(now, snap.watches[w].rev + 1)

Replaced(s, w, watch) ==
    PruneForWatchRevision([s EXCEPT !.watches[w] = watch], {w}, now)

ReplaceWatch(w, form) ==
    /\ snap # None
    /\ snap.watches[w] # None
    /\ Edit({w}, Replaced(snap, w, WithRev(form, NextRev(w))))
    /\ UNCHANGED added

SetWatchEnabled(w, enabled) ==
    /\ snap # None
    /\ snap.watches[w] # None
    /\ Edit({w}, Replaced(snap, w, [snap.watches[w] EXCEPT !.enabled = enabled,
                                                          !.rev = NextRev(w)]))
    /\ UNCHANGED added

DeleteWatch(w) ==
    /\ snap # None
    /\ snap.watches[w] # None
    /\ Edit({w}, WithoutWatch(snap, w))
    /\ UNCHANGED added

TelegramWatches ==
    {w \in Watches : snap.watches[w] # None /\ Telegram \in snap.watches[w].channels}

DisablePersonalTelegramForAllWatches ==
    /\ snap # None
    /\ TelegramWatches # {}
    /\ LET replaced == [snap EXCEPT !.watches = [w \in Watches |->
                IF w \in TelegramWatches
                THEN [snap.watches[w] EXCEPT !.channels = @ \ {Telegram},
                                             !.rev = NextRev(w)]
                ELSE snap.watches[w]]]
       IN  Edit(TelegramWatches,
                PruneForWatchRevision(replaced, TelegramWatches, now))
    /\ UNCHANGED added

\* reset waits for no load: it empties memory, cancels the alarms and saves.
Reset ==
    /\ Alive
    /\ spent.edits < MaxEdits
    /\ spent' = [spent EXCEPT !.edits = @ + 1]
    /\ snap' = EmptySnapshot
    /\ gen' = [w \in Watches |-> 0]
    /\ alarm' = NoAlarm
    /\ cycle' = [cycle EXCEPT !.aborted = @ \/
                    cycle.pc \in {"resolving", "sending", "answering"}]
    /\ Persist("reset", EmptySnapshot)
    /\ UNCHANGED <<now, disk, loading, schedule, catalog, serial, added, sends>>

-------------------------------------------------------------------------------
(* Specification *)

CycleStep ==
    \/ FetchSettles
    \/ StartDispatch
    \/ Attempt
    \/ EndDispatch
    \/ Recheck
    \/ Resolve
    \/ ContactProvider
    \/ DeclineDelivery
    \/ ProviderAnswers
    \/ DeliveryAborted

UserEdit ==
    \/ \E w \in Watches, form \in WatchForms : AddWatch(w, form)
    \/ \E w \in Watches, form \in WatchForms : ReplaceWatch(w, form)
    \/ \E w \in Watches, enabled \in BOOLEAN : SetWatchEnabled(w, enabled)
    \/ \E w \in Watches : DeleteWatch(w)
    \/ DisablePersonalTelegramForAllWatches
    \/ Reset

Next ==
    \/ Tick
    \/ SetClockBack
    \/ WakeWhileBusy
    \/ Open
    \/ WakeCold
    \/ FinishLoad
    \/ LoadFails
    \/ ReadAgain
    \/ StartMonitor
    \/ Crash
    \/ LearnStores
    \/ WriteSucceeds
    \/ WriteFails
    \/ Wake
    \/ CheckNow
    \/ CycleStep
    \/ UserEdit

Spec == Init /\ [][Next]_vars

\* What the worker's event loop runs without being asked again.
WorkerStep == FinishLoad \/ WriteSucceeds \/ CycleStep

(***************************************************************************)
(* Time passes, alarms ring, storage and timeouts answer.  Nothing obliges *)
(* the user to act, nor the clock to be set back or the worker to die.     *)
(***************************************************************************)
Fairness ==
    /\ WF_vars(Tick)
    /\ WF_vars(WakeCold \/ Wake \/ (AlarmRings /\ ReadAgain))
    /\ WF_vars(WorkerStep)

FairSpec == Spec /\ Fairness
-------------------------------------------------------------------------------
(* Safety *)

\* The snapshots the engine holds, has queued for writing, or has written.
Snapshots ==
    {disk} \cup (IF snap = None THEN {} ELSE {snap})
           \cup {saves[i].snap : i \in 1..Len(saves)}

\* Whatever the cycle, edits and clock do to memory, storage never refuses it:
\* one refused save would end every later cycle with "storage_error".
SnapshotAlwaysSaveable == \A s \in Snapshots : Saveable(s)

\* Work still to be delivered, in memory, in a queued write or on disk, always
\* carries the revision of an enabled watch that has its channel switched on:
\* no edit, however it interleaves with a poll, leaves behind work that it
\* has revoked.
PendingWorkIsAuthorised == \A s \in Snapshots : Authorised(s)

\* A deferred alert is for the present revision of an enabled watch with a
\* channel, whose scope was available when last known.
DeferredAlertIsAuthorised ==
    \A s \in Snapshots, x \in Scopes :
        s.delivery[x].deferred = "pending" =>
            /\ InScope(s, x)
            /\ s.watches[x[1]].enabled
            /\ s.watches[x[1]].channels # {}
            /\ s.watches[x[1]].rev = s.delivery[x].deferredRev
            /\ s.items[x] # None
            /\ s.items[x].known = "available"

\* While an adapter works on a delivery it has not been told to abort, the
\* copy is current: an edit that revokes it always aborts it in the same step.
InFlightDeliveryIsCurrent ==
    /\ cycle.pc \in {"resolving", "sending", "answering"}
    /\ ~cycle.aborted
    => IsCurrent(cycle.cur)

\* The disk never records fewer attempts than a provider has been contacted for,
\* whatever crashes or failing writes come between, so restarts do not reset
\* MAX_DELIVERY_ATTEMPTS.
ContactsAreOnRecord ==
    \A p \in Copies :
        /\ sends[p] <= MaxAttempts
        /\ /\ disk.pending[p[1]] # None
           /\ disk.pending[p[1]].channels[p[2]] # None
           => sends[p] <= disk.pending[p[1]].channels[p[2]].attempts

\* When the engine rests, an enabled watch in memory has its periodic alarm, unless
\* storage failed where the engine would have set it and has not answered a start,
\* an edit or a cycle since: no reset, refused save or order of edits, polls and
\* restarts leaves it unscheduled.
EnabledWatchIsScheduled ==
    /\ Ready
    /\ cycle.pc = "idle"
    /\ saves = << >>
    /\ \E w \in Watches : snap.watches[w] # None /\ snap.watches[w].enabled
    => alarm.periodic # None \/ schedule = "lapsed"

-------------------------------------------------------------------------------
(* Action properties *)

\* A step of a loaded engine, from one snapshot to the next.
Working == Ready /\ snap' # None

IsFinal(s, p) ==
    /\ s.pending[p[1]] # None
    /\ s.pending[p[1]].channels[p[2]] # None
    /\ s.pending[p[1]].channels[p[2]].state # "pending"

KeepsFinal(before, after) ==
    \A p \in Copies :
        IsFinal(before, p) /\ after.pending[p[1]] # None =>
            after.pending[p[1]].channels[p[2]].state
                = before.pending[p[1]].channels[p[2]].state

\* A copy once delivered, failed, revoked, expired or superseded keeps that
\* verdict in memory and on disk: no late answer, stale write or restart revives
\* or rewrites it.
TerminalIsFinal ==
    [][/\ KeepsFinal(disk, disk')
       /\ Working => KeepsFinal(snap, snap')]_vars

\* An event that may still be delivered leaves the ledger only with its scope:
\* room for new alerts is never made at its expense.
LiveWorkIsNeverEvicted ==
    [][Working =>
        \A id \in Ledger(snap) :
            /\ IsLive(snap, id)
            /\ ~IsExpired(snap.pending[id], now)
            /\ catalog # None => Supported(snap.watches[id[1][1]], catalog)
            /\ snap'.pending[id] = None
            => ~InScope(snap', id[1])]_vars

BecameAvailable(x) ==
    /\ snap.items[x] # None
    /\ snap.items[x].status = "unavailable"
    /\ snap'.items[x] # None
    /\ snap'.items[x].status = "available"

\* Stock that comes back for a watch with a channel, outside the cooldown, is
\* queued or kept as a deferred alert in the same step, however full the ledger.
AvailabilityIsNeverLost ==
    [][Working =>
        \A x \in Scopes :
            /\ BecameAvailable(x)
            /\ snap.watches[x[1]].channels # {}
            /\ CooledDown(now, snap.delivery[x].alertedAt, Cooldown)
            => \/ snap'.delivery[x].deferred = "pending"
               \/ \E id \in Ledger(snap') : id[1] = x /\ id \notin Ledger(snap)]_vars

\* A new event comes from a deferred alert or from stock not known to be
\* available before: an outage in between, or a restart, raises no second alert.
AlertsFollowTransitions ==
    [][Working =>
        \A id \in Ledger(snap') \ Ledger(snap) :
            \/ snap.delivery[id[1]].deferred = "pending"
            \/ snap.items[id[1]] = None
            \/ snap.items[id[1]].known # "available"]_vars

\* Two alerts of one scope are a cooldown apart, deferred ones included.
AlertsAreSpaced ==
    [][Working =>
        \A x \in Scopes :
            LET before == snap.delivery[x].alertedAt
                after  == snap'.delivery[x].alertedAt
            IN  before # None /\ after # None /\ before # after
                => after - before >= Cooldown]_vars

\* A provider hears only of stock that is available, for a watch that the catalog
\* still supports and whose revision still asks for that channel: not of stock
\* that sold out, or a product that was retired, while the event was queued.
ProviderHearsCurrentStock ==
    [][\A p \in Copies : sends'[p] # sends[p] =>
        /\ IsCurrent(p)
        /\ catalog # None
        /\ Supported(snap.watches[p[1][1][1]], catalog)
        /\ snap.items[p[1][1]] # None
        /\ snap.items[p[1][1]].status = "available"]_vars

\* A delivery the engine still wants of stock that is still offered, fresh and
\* available is not given up before its provider was contacted.
AvailableStockIsNotDropped ==
    [][\A p \in Copies :
        /\ cycle.pc = "resolving" /\ ~cycle.aborted
        /\ cycle.cur = p /\ IsCurrent(p) /\ StillOffered(p)
        /\ snap' # None /\ snap'.pending[p[1]] # None
        => snap'.pending[p[1]].channels[p[2]].state # "failed"]_vars

\* No poll starts while the backoff that is on disk lasts.
HostBackoffIsHonoured ==
    [][cycle.pc = "idle" /\ cycle'.pc = "fetching"
        => disk.nextEligibleAt = None \/ disk.nextEligibleAt <= now]_vars

\* A watch appears in the engine's memory only when the user adds it.
WatchesAppearOnlyWhenAdded ==
    [][snap # None /\ snap' # None =>
        \A w \in Watches :
            snap.watches[w] = None /\ snap'.watches[w] # None => w \notin added]_vars

-------------------------------------------------------------------------------
(***************************************************************************)
(* What the disk promises about deliveries (DeliveryPromise): its book is  *)
(* what storage holds of each copy.  A copy that storage does not hold is  *)
(* still coming if it is in memory or on its way to storage, or has not    *)
(* been queued yet; otherwise it is gone for good.                         *)
(***************************************************************************)

Holds(s, p) ==
    /\ s.pending[p[1]] # None
    /\ s.pending[p[1]].channels[p[2]] # None

StillComing(p) ==
    \/ p[1][2] > serial[p[1][1]]
    \/ snap # None /\ Holds(snap, p)
    \/ \E i \in 1..Len(saves) : Holds(saves[i].snap, p)

BookEntry(p) ==
    IF Holds(disk, p)
    THEN LET copy == disk.pending[p[1]].channels[p[2]]
         IN  [stage |-> IF copy.state = "pending" THEN "open" ELSE copy.state,
              tries |-> copy.attempts]
    ELSE [stage |-> IF StillComing(p) THEN "coming" ELSE "gone", tries |-> 0]

Promise == INSTANCE DeliveryPromise WITH
                book     <- [p \in Copies |-> BookEntry(p)],
                contacts <- sends

\* Whatever dies, fails or comes late, storage keeps the book that DeliveryPromise
\* describes: a try is on disk before its provider hears of it, no try and no
\* verdict is taken back, a copy that is gone stays gone, and "delivered" is
\* written only of a copy that was sent.
KeepsDeliveryPromise == Promise!Spec

-------------------------------------------------------------------------------
(* Liveness *)

\* Every cycle ends, so the engine never stays busy.
CycleEnds == cycle.pc # "idle" ~> cycle.pc = "idle"

IsPending(id, c) ==
    /\ disk.pending[id] # None
    /\ disk.pending[id].channels[c] # None
    /\ disk.pending[id].channels[c].state = "pending"

\* The worker is dead and its next wake lies beyond the bounded clock.
WakesTooLate ==
    snap = None /\ alarm.periodic \in (MaxTime + 1)..(MaxTime + PollInterval)

\* Every pending copy on disk is delivered or closed, also when the worker dies on
\* the way, if it was created early enough for the bounded clock to see its end.
PendingWorkSettles ==
    \A id \in EventIds, c \in Channels :
        /\ IsPending(id, c)
        /\ disk.pending[id].createdAt + Retention + PollInterval < MaxTime
        ~> ~IsPending(id, c) \/ WakesTooLate
===============================================================================
