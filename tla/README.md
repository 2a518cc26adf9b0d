# Verification of the Apple inventory checker extension

The repository is a browser extension that polls Apple's pickup availability for
the products and stores a user has picked, and tells the user through desktop
notifications or a personal Telegram bot when stock comes back. Everything runs
in an extension worker that the browser may stop at any moment; what must
survive lives in extension storage. This directory holds TLA+ models of that
program, the TLC configurations that check them, and TLAPS proofs.

## 1. Inventory

Paths are relative to `src/`; `ext` stands for `apps/extension/src`.

| Component | State it keeps | Operations | Hard behaviour |
|---|---|---|---|
| Local monitor engine (`ext/monitor/local-monitor-engine.ts`) | snapshot in memory, running cycle, load in progress, queue of writes, watch generations, abort controllers | `start`, `wake`, `checkNow`, `checkNewWatch`, `addWatch`, `replaceWatch`, `setWatchEnabled`, `deleteWatch`, `disablePersonalTelegramForAllWatches`, `reset`, the cycle | edits between the awaits of a cycle, crashes between saves, a first read of storage that fails, late provider answers, full ledger, wrong clock |
| Alert decision (`packages/core/src/transitions.ts`) | none | `evaluateAvailabilityTransition` | outages must neither hide nor repeat an alert |
| Monitor contracts (`packages/core/src/local-monitor-contracts.ts`) | the schema of the durable snapshot | validation, `reconcileWatchWithCatalog`, `coalescePollBatches`, history cap | a snapshot that the schema refuses stops every later save |
| Snapshot storage (`ext/storage/local-monitor-storage.ts`) | one key of extension storage | `load`, `save` | failing writes, corrupt or old values |
| Alarm scheduler (`ext/runtime/scheduler.ts`) | wanted alarms, revision, reconciliation promise | `schedulePeriodic`, `scheduleOneShot`, `cancelAll`, wake listener | asynchronous clears racing later changes |
| Delivery dispatch (`ext/runtime/delivery.ts`, `ext/handoff/local-apple-handoff.ts`) | none | rebuild the event from current state, call the channel | stock or catalog that changed while the event was queued |
| Runtime composition (`ext/runtime/local-monitor-runtime.ts`) | queue of watch mutations, initialization promise | message handlers, permission revocation | cold starts, disconnect against edits |
| Runtime catalog (`ext/runtime/catalog.ts`) | catalog, store cache, write gate | `loadBundled`, `lookupStores`, `commitDiscoveredStores` | a write that outlives the deadline of its caller |
| Personal Telegram (`ext/notifications/telegram.ts`) | generation, storage queue, requests in flight | pair, confirm, send, `disconnect` | disconnect against late writes and answers |
| Telegram secrets (`ext/storage/telegram-secrets.ts`, `telegram-key-store.ts`) | key, ciphertext, legacy value | read, write, remove | crash between the steps |
| Desktop notifications (`ext/notifications/desktop.ts`) | in-flight map, click ledger | `notifyAvailable`, clicks, reconcile | duplicates, bounded ledger |
| Catalog refresh (`ext/catalog/*`) | cached portable catalog | `refreshPortableCatalog` | not wired into the runtime |
| Pickup fetch and parsing (`ext/runtime/apple-pickup-fetch.ts`, `packages/core/src/apple-*.ts`) | none | HTTP, parsing | format only |
| Settings page (`ext/ui/view.ts` with its controllers) | two busy flags, generation of the store lookup, revision of the Telegram status, drafts, runs of `refresh` | find stores, edit, create, command, reset, Telegram commands, `refresh` | answers that come after the draft, the page or the worker they were asked by is gone, a refresh that finds no catalog |
| Popup, message validation, checkout assistant, platform adapters, scripts, site | display state | rendering, validation | no logic of the monitor |

How they interact. The worker's composition root builds one engine and hands it
ports: storage, scheduler, fetch, catalog, event factory and dispatcher. Pages
send messages which become calls of the engine; alarms call `wake`. One cycle at
a time polls Apple, records what it saw, queues alerts in a durable ledger,
saves, and only then delivers: each attempt is saved before the channel is
called and its outcome is saved after. Edits run between any two awaits of the
cycle; all saves go through one queue. The dispatcher reads the engine's
snapshot again right before a provider is contacted.

Beside the engine the worker holds the Telegram controller, with its encrypted
store, the desktop alert service with its ledger and toolbar badge, and the store
catalog with its cache. Each serves several handlers at a time and has a queue of
its own for what it stores. The runtime orders edits of the watches with what a
disconnect does to them in a further queue. The page asks the worker for
everything and shows what it has heard last.

What makes the engine correct:

- work a user has revoked (edit, pause, delete, channel off, reset) is never
  left pending and never stays in an adapter's hands;
- an attempt reaches a provider only after it is on disk, so restarts cannot
  reset the limit on attempts;
- a verdict on a delivery is never rewritten;
- alerts follow real transitions, are a cooldown apart, and are not lost when the
  ledger is full;
- whatever happens in memory, storage accepts the snapshot;
- cycles end, and pending work is delivered or closed.

What makes the other parts correct:

- alarms: at rest the browser has exactly the alarms that were asked for last;
- Telegram: what a disconnect has removed does not come back, the newest setup
  wins, a stored ciphertext can be read, the watches stay off, commands settle;
- desktop: no alert is shown twice unless the first, or its record, was lost; the
  badge counts what is unread; test notifications are spaced;
- catalog: what a lookup has answered survives, what the worker routes by is what
  is stored, no store changes its route, a slow commit does not block the next;
- page: busy while a command runs, and free again after it; only answers for the
  present draft are shown, and only stores of the catalog; no old Telegram status.

## 2. Modules

| Module | Models |
|---|---|
| `AvailabilityTransition` | the alert decision, as a pure operator |
| `MonitorSnapshot` | the durable snapshot and every computation on it that runs between two awaits, as operators from snapshots to snapshots; `Saveable` is the refinement that `save` insists on |
| `MonitorEngine` | the engine in its worker: cycle, edits, write queue, alarms, crash and restart, clock; the properties |
| `MonitorEngineMC` | catalogs and watch forms of the small instances |
| `MonitorSnapshotProofs` | lemmas on the operators of `MonitorSnapshot`: types, that no operator creates or revives unauthorised work, and what each does to stock, markers and events |
| `MonitorEngineProofs` | the inductive invariant, one lemma per action, the theorems |
| `AlarmScheduler` | `BrowserMonitorScheduler` and the browser's alarms: what `MonitorEngine` sets in one step, with its asynchronous clears |
| `AlarmPromise` | the abstract specification that `AlarmScheduler` implements |
| `DeliveryPromise` | the abstract specification of deliveries: what storage says of each copy of an alert, and when its provider is contacted |
| `MonitorAlertProofs` | the engine's action properties, and that the engine implements `DeliveryPromise` |
| `AlarmSchedulerProofs` | the inductive invariant of the scheduler and the proof of the implementation |
| `CredentialStore` | the abstract specification of the encrypted store: one value, calls that take effect once or not at all |
| `TelegramSecrets` | `telegram-secrets.ts` await by await: the plain record of older releases, the ciphertext, the key, the queue of calls |
| `TelegramController` | `createPersonalTelegramController`: the commands, deliveries, generations and the storage queue, on top of `TelegramSecrets` |
| `DesktopAlerts` | `DesktopAlertService`: alerts under way, the ledger and its bound and TTL, the badge, the test notification |
| `LocalRuntime` | `installLocalMonitorRuntime`: `TelegramController` and `DesktopAlerts` with the queue of watch mutations, failures and the death of the worker |
| `StoreCatalog` | `LocalRuntimeCatalog`: loading, concurrent lookups, the gate of physical writes, deadlines |
| `MonitorPage` | the settings page with its controllers, on top of `StoreCatalog` |
| `MonitorPageMC` | releases and finds of the small instance |
| `TelegramSecretsProofs` | the store keeps its promise |
| `LocalRuntimeProofs` | the controller uses the store as its proofs assume; disconnects stick, on the watches too; the newest setup wins |
| `DesktopAlertsProofs` | no avoidable duplicate, the badge, the spacing of tests |
| `MonitorPageProofs` | the catalog's and the page's invariants |

Composition. `MonitorSnapshot` EXTENDS `AvailabilityTransition`, `MonitorEngine`
EXTENDS `MonitorSnapshot`. `LocalRuntime` EXTENDS `TelegramController` (which
EXTENDS `TelegramSecrets`) and `DesktopAlerts`; `MonitorPage` EXTENDS
`StoreCatalog`. `AlarmPromise` and `CredentialStore` are instantiated with a
refinement mapping by `AlarmScheduler` and `TelegramSecrets`, `DeliveryPromise` by
`MonitorEngine`: its book is what `disk` holds of each copy, or that the copy may
still get there (`BookEntry`), and its contacts are `sends`. The engine appears
in `LocalRuntime` as one saved watch, and the catalog in `MonitorEngine` as one
that loads or does not.



### How state and actions correspond to the code

An action of `MonitorEngine` is the code between two awaits. `cycle.pc` names
the await at which `runCycleInternal` or `dispatchPending` is suspended:

| `cycle.pc` | Suspended at | Left by |
|---|---|---|
| `idle` | no cycle | `Wake`, `CheckNow` |
| `fetching` | `fetchWithTimeout` | `FetchSettles` |
| `recording` | the save before any delivery | `WriteSucceeds`, `WriteFails` |
| `starting` | that save has settled | `StartDispatch` |
| `dispatching` | between two candidates | `Attempt`, `EndDispatch` |
| `attempting` | the save of an attempt | `WriteSucceeds`, `WriteFails` |
| `rechecking` | that save has settled | `Recheck` |
| `resolving` | the dispatcher reads the snapshot | `Resolve`, `DeliveryAborted` |
| `sending` | the adapter has not contacted the provider yet | `ContactProvider`, `DeclineDelivery`, `DeliveryAborted` |
| `answering` | the provider has been contacted | `ProviderAnswers`, `DeliveryAborted` |
| `settling` | the save of the outcome | `WriteSucceeds`, `WriteFails` |
| `closing` | the last save | `WriteSucceeds`, `WriteFails` |

`snap` is `this.snapshot`, `loading` is `this.snapshotLoad`, `saves` is the chain
`this.persistQueue` with the snapshot that each save cloned, `gen` is
`this.generations`, `cycle` stands for `this.cycle` with the local variables of
the running cycle, `cycle.aborted` for the abort controller of the delivery in
hand. `disk` is extension storage and `alarm` the two browser alarms.
`schedule` says what has become of the alarms: `ahead` while `start` has yet to set
them, `set`, or `lapsed` after storage has failed where they would have been set.
`FinishLoad` is the end of `ensureSnapshot` and, if `start` waits for it, the rest of
`start`; `LoadFails` its rejection, after which `start` answers an error and sets
nothing (lines 385-396); `ReadAgain` the next `ensureSnapshot`, of a wake, a check, an
edit or `getSnapshot`, which loads the watches and sets nothing either; `StartMonitor`
the page's *Start monitor*, which runs `start` once more. Ghost
variables: `serial` counts events per scope, so that an event's id is never used
twice (`nextEventId`); `added` holds the watch ids used so far (the user
interface draws random UUIDs, so an id is not used again); `sends` counts
provider contacts; `spent` enforces the bounds.

The start of a cycle has one action part per early return: `BeginBackedOff`,
`BeginWithoutCatalog`, `BeginIdle`, `BeginUnsupported`, `BeginPolling`.

In `AlarmScheduler`, `sched` holds the scheduler's fields and the number of
reconciliations chained behind the running one, `run` the local state of
`reconcileAlarms`, `alarms` what the browser has. `BeginRun`, `StartOver` and
`CreateAlarms` are the code between its awaits, `ClearSettles` one settled
`alarms.clear`, and an action `Ask...` is everything one caller asks for before it
returns to the event loop. `AlarmPromise` sees only the last wish, the alarms and
whether work is left; `wanted` and `settled` are computed from `sched` and `run`.

In the modules about Telegram a handler is a `slot`: the command, the generation
it captured (`gen`), what it read (`seen`) and means to write (`next`), and the
await it is at:

| `slot[s].at` | Suspended at | Left by |
|---|---|---|
| `reading`, `reporting` | `store.read` for its work, or for the answer to the page | `StateRead` and the answers of the store |
| `calling` | a request to the Bot API | a provider answer, a timeout, or the abort of `advanceGeneration` |
| `sleeping` | the delay before a delivery is tried again | its end |
| `queued` | `storageTail` | its turn |
| `comparing` | the read before a compare-and-set | the store |
| `storing` | the write or the removal | the store |
| `disabling` | `disableTelegramWatches` of a disconnect that is stored | `JoinWatchQueue` |
| `waiting` | `telegramWatchMutationTail` | `StartWatchMutation` |
| `gating` | the status that `gateTelegramChannel` asks for | `GateAnswered` |
| `saving` | the engine's save | `WatchSaved`, `WatchNotSaved` |

`line` and `job` are the store's own queue and the call it serves, `job.at` the
await of that call; `disk` is the two records and the key; `tail` is
`storageTail` and `watchTail` is `telegramWatchMutationTail`. Ghosts: `revoked`
(the store has acknowledged a disconnect and no setup has begun since), `quiet` (a
disconnect ran to its end and no connection was stored since), `calm` (what a
handler will make of `quiet`), `lastWriter`.

In `DesktopAlerts` `task` is `inFlight`, `stateTail` the chain of ledger mutations,
`turn` the running one, `ledger` the stored references, `badge` the toolbar, `test`,
`cooling` and `lateTests` the test notification. `shown` and `unrecorded` count what
the system was given and what of it was lost; `missed` and `tests` are ghosts too.

In `StoreCatalog` `cache` and `catalog` are the fields of the class, `stored` is
extension storage, `gate` the chain of physical writes and `lookup[l].at` the await
of a lookup: `asking` the provider, `queued` at the gate, `writing`; `late` says that
its deadline has passed, `answer` what its caller was told. `promised` and
`forgotten` are ghosts. In `MonitorPage` `page` is `UiState`, `ask[l]` a lookup the
page waits for (`sent`, `asked`, `catalog`; `gone` and `lost` belong to a page that was
reloaded), `running` the monitor commands, `teleRun` the Telegram command, `refresh`
the runs of `refresh`, `tele` the version of the status in the background. Of the
draft `page.region` says that a region is selected, and `page.fits` that the stores on
display were found for it and the location. Ghosts:
`lastTele`, `stranded` (what gave up a lookup without freeing the page),
`overtaken` (a refresh has shown a catalog older than a lookup's).

### Abstractions

- Times are integers, one unit per polling interval or fraction of it. Jitter is
  0, so the one-shot alarm of `start` is due at once and stands for the cycle
  that `start` runs itself.
- `ineligible` is folded into `unavailable`: the monitor does not tell them apart.
- A market is not modelled; scopes are (watch, SKU, store). A catalog is the set
  of SKUs and the set of stores that it offers, and every watch carries its
  schema version.
- A stored value that does not parse, which `ensureSnapshot` replaces by the empty
  snapshot (line 1796), is not modelled: every save of the engine can be read back
  (`SnapshotAlwaysSaveable`), so it takes damage from outside or another release.
  The rewrite of legacy poll intervals at a load may reject: that is `LoadFails`.
- History, titles, diagnostics and reports are left out. Nothing reads history
  back for a decision.
- The order in which the code walks its arrays (batches, deferred markers,
  candidates of delivery) is left open: any order may occur.
- An Apple answer may carry any status for each SKU and store, or fail, with
  a Retry-After from a small set. A timeout is a failure.
- Of an adapter the model keeps whether the provider was contacted and the
  outcome; a provider may answer anything. Only the Telegram channel names a
  time before which not to retry.
- A saved watch is valid: the limit of 20 watches and of 12 SKUs never bites, as
  the instances are smaller. `replaceWatch` also takes the page's `updatedAt`
  into account; as the page reads the same clock it is never later than `now`.
- An alarm is known by the delay it was created with; seconds and milliseconds
  are one unit. A clear that rejects leaves its alarm. A clear that outlives its
  worker is carried out, if at all, before the next worker starts. Every platform
  of the model has an alarms API, so creating an alarm does not throw.
- A token stands for the bot and its one private chat; nonces, names and chats are
  determined by it, so a compare-and-set is refused less often than in the code.
  A pairing may turn out to be expired whenever it is confirmed.
- The watch of `LocalRuntime` stands for any watch: absent, on Telegram, or not.
  `setWatchEnabled` does not touch the channel, so it is not told apart. The engine
  changes it in the one step in which it has saved.
- The two channels share nothing but the worker, so an instance explores one or the
  other (`channel`), and with it the faults that strike it.
- The desktop clock moves between the instants that matter: event `e` counts as
  fresh up to `2e - 1`, and its reference expires at that same instant.
- One market. Store records are model values; the shape of a cached entry is
  checked by `Mergeable` only as far as records disagree or are too many.
- Generations and revisions of the page are only compared with the present one, so
  a request carries a flag instead of a number. The page's monitor commands succeed
  or fail; what the engine makes of them is `MonitorEngine`'s. A packaged catalog has
  stores, so an empty one stands for the null of `getCatalog`, and it keeps its regions,
  so a refresh that finds a catalog leaves the region alone. `capabilities.monitor` is
  true. Choosing a region is not counted as a click.

## 3. Runs

The `engine_` runs use module `MonitorEngineMC`, `page` uses `MonitorPageMC`,
`telegram_unaccepted_test` and `runtime` use `LocalRuntime`.

| Run | Instance | Shows |
|---|---|---|
| `engine_edits` | 1 watch, 1 SKU, 1 store, Telegram, 2 edits or starts, 1 failed read or write | `TypeOK`, `SnapshotAlwaysSaveable`, `PendingWorkIsAuthorised`, `InFlightDeliveryIsCurrent`, `EnabledWatchIsScheduled`, `TerminalIsFinal` with edits at every await and a fault of storage anywhere |
| `engine_restarts` | 1 crash, 1 failed read or write, 3 catalogs | `ContactsAreOnRecord`, `AlertsFollowTransitions`, `ProviderHearsCurrentStock` |
| `engine_ledger` | 2 SKUs, ledger of 1 entry, 3 catalogs | `DeferredAlertIsAuthorised`, `LiveWorkIsNeverEvicted`, `AvailabilityIsNeverLost`, `AlertsAreSpaced`, `HostBackoffIsHonoured` |
| `engine_clock` | clock set back once, 1 crash, no accepted skew | `SnapshotAlwaysSaveable`, `KeepsDeliveryPromise` (implements `DeliveryPromise`) with stored times in the future |
| `engine_liveness` | 1 crash, fairness | `CycleEnds`, `PendingWorkSettles` |
| `alarm_scheduler` | delays below and above the minimum, 3 calls, 1 rejected clear, 1 worker death, fairness | `TypeOK`, `SettledAlarmsAreWanted`, `KeepsPromise` (implements `AlarmPromise`), `AlarmsSettle` |
| `runtime` | 1 token, 2 handlers, 2 commands; 2 events, 2 alerts under way, ledger of 1, 3 alerts; 1 fault; fairness | `DisconnectSticks`, `DisconnectedWatchesStayOff`, `CiphertextIsReadable`, `KeepsPromise` (implements `CredentialStore`), `NewestSetupWins`, `NoAvoidableDuplicate`, `BadgeCountsUnread`, `TestsAreSpaced`, `CommandsSettle` |
| `page` | 2 lookups, 1 refresh, 3 clicks, 1 death or update, 2 releases, 3 stores at most; fairness | `DiscoveriesSurvive`, `PublishedIsStored`, `RoutesAreStable`, `CommandKeepsPageBusy`, `StaleLookupNotShown`, `ShownStoresAreInCatalog`, `TelegramStatusIsNotStale`, `BusyIsReleased`, `CommitsLeaveTheGate` |
| `engine_reset_race` | violation | a reset during the first load is undone by the load |
| `engine_restart_backoff` | violation | a long backoff is forgotten on restart |
| `engine_dropped_retry` | violation | a retry is given up because a newer poll refreshed the item |
| `telegram_unaccepted_test` | violation | a test message that was turned away still activates the connection |

The bounds, and why they are enough:

- *Data.* The engine treats watches, SKUs and stores alike and relates two of
  them in two places only: they share a request and they share the ledger. One
  watch with one scope shows every interleaving of cycle and edits; two SKUs
  with `MaxPending = 1` show the ledger full with a competing alert, deferral,
  promotion and eviction; `MaxParts = 1` makes that poll take two requests.
- *Time.* `Retention`, `Cooldown`, `PollInterval` and `MaxBackoff` are one to four
  units, so that within `MaxTime` (at most 2, with a backoff of up to 3) an event
  can expire, a cooldown can end and a backoff can outlast a poll.
- *Environment.* Two edits give an edit during a poll and one during a delivery,
  and every pair of an edit and its undoing; one crash and one fault of storage
  reach every await, the first load included. `engine_edits` has one attempt for each
  copy and no Retry-After; second attempts are in `engine_restarts` and `engine_ledger`. `MaxAlerts = 2` lets a scope alert again after its first
  event. `MaxAttempts` is 1 or 2, so that the last attempt is reached.
- *Cooldown.* In `engine_ledger` the cooldown of 2 is longer than `MaxTime`, so spacing
  is checked there as the absence of a second alert: with a cooldown of 1 an
  alert raised without regard to it would come at a time when it is allowed anyway,
  and with more time the instance is too large. That alerts are spaced over any
  number of cooldowns is proved (`AlertsAreAlwaysSpaced`).
- *Alarms.* Three calls give one before, one during and one after the clears of a
  run; the delays 1 and 3 lie on either side of the minimum 2.
- *Telegram.* Two commands in two handlers give every pair of them in every
  interleaving: a disconnect during a setup, a setup during a setup, an edit at its
  gate during a disconnect. The initial profile is empty or holds, in the plain
  record of an older release, any state: a connection, a pairing or both, or a
  token; so no command is spent on reaching one. The fault is an await that rejects or the worker's death.
- *Desktop.* A ledger of one reference is displaced by the second event; three
  alerts of two events give the same one twice at a time, again after a loss, and
  a test that times out followed by another.
- *Page.* Two lookups make one wait at the gate for the other's late write; three
  clicks are a lookup, something that makes it obsolete, and something that needs a
  free page. The second release packages a store that the first had to discover, and
  the provider finds packaged stores under another record.
- The clock and edits are bounded, so the system comes to rest: deadlock is not
  an error in these runs.

A mutant of the code's definitions, the way a plausible bug would look, is kept
for each property (the operators marked `Mutant` in the modules); each breaks
its property under the same configuration.

### Fairness

`FairSpec` assumes weak fairness of three things. `Tick`: time passes.
`WakeCold \/ Wake \/ (AlarmRings /\ ReadAgain)`: the browser delivers an alarm that
has rung, starting the worker if it has died, or having a living one read storage
again if its first read failed. `WorkerStep`: the event loop goes on; storage answers,
fetches and deliveries settle because `fetchWithTimeout` and `deliverWithTimeout`
race them against a timer. Nothing is assumed of the user, of the
clock being set back, or of crashes. No strong fairness is used.
The scheduler's `FairSpec` is weakly fair to `Reconcile`: the event loop runs what
is chained, and the browser settles every clear it was asked for. Without a
bound on calls the loop could go round for ever; with one, it settles.

`PendingWorkSettles` speaks of work created early enough for the bounded clock to
see it settle, and excuses a dead worker whose next alarm lies beyond that bound.
Its run has no faults of storage: a worker that dies in the middle of a cycle which
follows a failed start leaves pending work without any alarm, and only the next start
of the browser or of a page goes on with it.

`LocalRuntime` and `MonitorPage` each have weak fairness of their `SystemStep`: requests
to a provider are answered or time out (`telegram.ts` and `catalog.ts` race them
against timers), storage settles, and queues go on. Nothing is assumed of the
user, of failures, of deaths, or of an alert being aborted. As users are bounded,
the disjunction does not let one part starve another for ever. Whether the
properties still hold with a user who never stops is not claimed.

## 4. Findings

- **A reset during the first load is lost** (`engine_reset_race`). `reset` does
  not wait for `ensureSnapshot`; the load that is under way then assigns the old
  snapshot over the empty one. The watches return although the user asked to
  clear local data, and the next cycle saves them again.
- **A long backoff does not survive a restart** (`engine_restart_backoff`).
  `normalizePersistedClockSkew` takes a `nextEligibleAt` more than five minutes
  ahead for a wrong clock; the engine itself sets backoffs of ten minutes.
- **A retry can be given up for stock that is still there**
  (`engine_dropped_retry`). The dispatcher insists that the item's last success is
  the event's own observation; a poll in between moves it, and the copy is closed
  as failed.
- **A test that Telegram turned away enables alerts**
  (`telegram_unaccepted_test`). `sendTest` ignores what `deliver` answers; a 429 is not an
  exception but an answer, and the pairing becomes the active connection although
  the comment there, and the page, say that Telegram accepted the test.

What follows is no divergence from any document, but worth knowing:

- An alarm that is no longer wanted stays set if its clear rejects (the wake it
  causes is harmless, as the engine decides again), and a worker that dies between
  clear and creation leaves no alarm to start it again.
- A first read of storage that fails leaves the monitor unscheduled. `start` sets no
  alarm, and the later call that does load the watches (the page's `getSnapshot`, for
  instance) sets none either: until *Start monitor*, an edit, a check or the ring of an
  alarm from before, an enabled watch is shown and not polled. A failed write at the
  end of an edit skips `refreshSchedule` in the same way. `EnabledWatchIsScheduled`
  excuses exactly these (`schedule = "lapsed"`), and only until storage has answered
  one of them.
- *Cancel edit*, and *Clear local monitor data*, during a pending lookup give up the
  lookup but leave the page busy: nothing frees it but a reload or, after the
  latter, typing a location. A refresh that finds no catalog has the same effect: it
  deselects the region (`view.ts:669`), so that the answer of the lookup is dropped,
  and only typing a location or a reload frees the page. `BusyIsReleased` excuses
  exactly these three. That refresh also leaves the stores of the region on display;
  no watch is built from them, as the form needs a region and choosing one clears them
  (`StaleLookupNotShown` speaks of stores under a region).
- A cache of discovered stores that cannot be read at the start is taken for empty,
  and the next commit writes over it (`catalog.ts:425`); `DiscoveriesSurvive` excuses it.
- Two runs of `refresh` may end in either order, and a refresh may replace the catalog
  that a lookup has read since; `ShownStoresAreInCatalog` excuses it. The Telegram
  status is the one thing that has a revision against this.
- A worker that dies after a disconnect was stored, and before the watches were
  switched off, leaves their channel on: they deliver nothing until Telegram is
  connected again, and then they do.
- At the one instant `observedAt + TTL` an alert still counts as fresh while its
  reference has expired.
- The cooldown of test notifications lives in the worker and ends with it.

## 5. Proofs

`MonitorEngineProofs` proves, for all values of the constants that satisfy the
named assumptions (any number of watches, scopes, edits, crashes, failed reads and
writes, set-backs of the clock, any caps):

- `TypeCorrect`: `Spec => []TypeOK`;
- `PendingWorkIsAlwaysAuthorised`: `Spec => []PendingWorkIsAuthorised`;
- `InFlightDeliveryIsAlwaysCurrent`: `Spec => []InFlightDeliveryIsCurrent`;
- `IInvAlways`: `Spec => []IInv`, from which the three follow;
- `ContactsAreAlwaysOnRecord`: `Spec => []ContactsAreOnRecord`;
- `VerdictsAreFinal`: `Spec => TerminalIsFinal`;
- `RInvAlways`: `Spec => []RInv`, from which these two follow;
- `SnapshotsAreAlwaysSaveable`: `Spec => []SnapshotAlwaysSaveable`;
- `DeferredAlertsAreAlwaysAuthorised`: `Spec => []DeferredAlertIsAuthorised`;
- `FInvAlways`: `Spec => []FInv`, from which these two follow;
- `EnabledWatchesAreScheduled`: `Spec => []EnabledWatchIsScheduled`.

That is every invariant the engine's runs check. Its other action properties are in
`MonitorAlertProofs`, below.

Assumptions: `BoundsAssumption` and `DelaysAssumption` (caps and delays are
naturals, at least one attempt and failure count), `ScopesAssumption` (a user saves
finitely many watches, so that the ledger's size is a number), `FormsAssumption` (a saved
form is a watch whose anchor is one of its stores), `EnvironmentAssumption`
(catalogs, Retry-After and provider delays have their types),
and that `None` is none of the records (`NoneAssumption`, `NoneIsNoRecord`,
`NoneIsNoCopy`). TLC evaluates all of them on every run.

`PendingWorkIsAuthorised` is not inductive by itself. A queued write becomes the
disk, so the queue must be sound too; a new watch must find no work under its id,
so every snapshot's watches must be among `added`; a crash can surface any
snapshot on disk; and an edit that replaces a watch is harmless to the cycle only
because the copy in hand is aborted in the same step. `IInv` adds that: the type
invariant, `Coherent` (no cycle and no queued write before there is a snapshot),
`CycleSaves` (the cycle has at most one write queued, and only where it waits
for one), `AllSound` (disk, memory and every queued write are authorised and
mention only added watches) and `InFlightDeliveryIsCurrent`. The lemmas of
`MonitorSnapshotProofs` say of each operator that it keeps types, and either
closes work or queues work for the present revision only; each action's lemma
combines them.

The record of attempts and verdicts has an invariant of its own, `RInv`. The disk has
an attempt on record before its contact only because the attempt's save is awaited,
and because every snapshot queued behind it has the attempt too: `AttemptIsSaved`
says which snapshots these are at each stage of the delivery. A verdict stays because
the queue is written in order: `VerdictsInOrder` says that each snapshot, from the disk
through the queue to memory, keeps the verdicts of all before it, and
`OnlyResetsWhileLoading` that a load cannot be overtaken by another write. `AllRecorded`
and `ContactsBounded` say that no snapshot knows an event that was never queued, so
that a verdict is never about a later event of the same number. `MonitorSnapshotProofs`
shows for it that every operator advances the ledger: attempts never fall, a verdict
stays until its event leaves, and a new event is numbered above all earlier ones.

What storage accepts has an invariant too, `FInv`: the disk, memory and every queued
write `Fits`. An item or a marker exists only within the scope of a saved watch, an
event's verdicts are consistent, the ledger has its size, and a deferred alert is for
known stock and the present revision of a watch that asks for it. Each operator of
`MonitorSnapshot` has a lemma that it leaves a fitting snapshot fit; those that add to
the ledger need the eviction before, and those that replace a watch need what was
kept for the old revision to be pruned with it.

`SInv`, last, says that a loaded engine with an enabled watch has its periodic alarm, or
the save of an edit still waits, whose end sets it, or the schedule has lapsed. It needs
`FInv`: a save that storage refuses would end the edit before it comes to
`refreshSchedule`, and that is no excuse. Only a read or a write that fails makes the
schedule lapse, and every start, edit and end of a cycle that storage answers sets it.

`MonitorAlertProofs` proves, from the same assumptions:

- `AlertsComeFromTransitions`: `Spec => AlertsFollowTransitions`;
- `ProvidersHearCurrentStock`: `Spec => ProviderHearsCurrentStock`;
- `LiveWorkStays`: `Spec => LiveWorkIsNeverEvicted`;
- `AvailabilityIsKept`: `Spec => AvailabilityIsNeverLost`;
- `AlertsAreAlwaysSpaced`: `Spec /\ [](spent.setBacks = 0) => AlertsAreSpaced`;
- `BackoffIsHonoured`: `Spec /\ [][KeepsBackoff]_vars => HostBackoffIsHonoured`;
- `DeliveryPromiseIsKept`:
  `Spec /\ [][~(loading /\ Reset)]_vars => KeepsDeliveryPromise`.

Three of these have a hypothesis, because the property is false without it, and
`Spec` allows for what the hypothesis excludes. The code compares
readings of the wall clock, and an alert that was deferred a cooldown after the one
before it is promoted as soon as there is room, with no second look at the cooldown
(`promoteDeferredAvailability`): a clock that is set back in between brings the two
closer.
`KeepsBackoff` excludes the three ways in which memory loses a backoff that is on
disk: a reset; a write that fails (the disk then keeps the backoff that memory has
come through, and a clock set back makes it last again); and a load that takes the
backoff for a wrong clock, the finding of `engine_restart_backoff`. A reset during a
load queues an empty snapshot; the load then puts the old copies into memory, the
write empties the disk, and the next save may bring them back: a copy that was open
is to come again, a step the promise does not allow (the finding of
`engine_reset_race`). Other edits, deaths and restarts are excluded by none of them,
failed writes and set-backs only where they are named.

*What the provider hears.* `OfferStands` says that the copy about to be sent is for
stock that is available in memory and for a watch the catalog supports; it is
inductive because the catalog of a living worker only grows and because every edit
that touches the watch aborts the delivery. `PolledStands` says that what is being
polled, and has not been edited since, is enabled and supported.
`AlertsComeFromTransitions`, `LiveWorkStays` and `AvailabilityIsKept` then follow the ledger
through each operator that a step of the cycle is made of (reconciling, promoting,
evicting, recording, closing): which events each of them may add, which it may drop,
and which marker it leaves for an alert that found no room.

*Spacing.* `AllSpaced` holds of every snapshot, on disk, queued and in memory, that
alerts and markers lie in the past, and that a deferred alert lies a cooldown after
the alert before it. The whole chain is needed, as a restart continues with whatever
the disk has.

*The backoff.* `BackoffOnRecord` says that what the cycle has saved last, on disk or
still queued, has the backoff of memory. A cycle looks at memory and the property at
the disk; they agree because a cycle does not end before its save is written and no
edit but a reset changes the backoff.

*The promise of deliveries.* `PromiseInv` has four parts. `ChainInOrder` says that the
disk, the queued saves and memory, in this order, never take back a try or a verdict,
and that a copy which left the chain does not return to it; so whichever of them the
next write or a death puts on the disk continues what the disk said.
`LoadComesFirst` says that nothing is in memory before the load has ended, so that the
chain then starts anew at the disk. `AttemptOnDisk` says that while
the cycle goes from the save of an attempt to its contact, the disk has the copy if
memory does: without it a contact could be for a copy whose entry is still coming.
`DeliveredWereSent` says that only what was contacted is recorded as delivered,
anywhere in the chain. Then each step is a `Contact`, or a `Write` that leaves the contacts
alone (`StepIsPromised`).

`AlarmSchedulerProofs` proves, from `AlarmConstants` alone (delays and minima are
naturals, `None` is not) and for any number of calls, rejected clears and deaths:

- `TypeCorrect`: no alarm is shorter than the minimum;
- `SettledAlarmsAreAlwaysWanted`: `Spec => []SettledAlarmsAreWanted`;
- `PromiseIsKept`: `Spec => KeepsPromise`, every step of the scheduler is a step of
  `AlarmPromise` or leaves its variables alone.

Their inductive invariant adds `ClearsBelongToRun`: clears are outstanding only
while a run is active. Without it a late clear could strike when the alarms are
settled, which is the very hazard that the chained promise is there for.

`TelegramSecretsProofs` proves of `SecretsSpec`, from `SecretsConstants` and
`StatesAssumption`: `CiphertextIsAlwaysReadable`, and `StorePromiseIsKept`, the refinement of
`CredentialStore`. The invariant `SInv` holds `CiphertextIsReadable`, that the two records
agree while a migration or a removal is half done (`RecordsAgree`), that the call
served is where its records say (`JobIsOnCourse`), and `WritesFollowMigration`: a
write over a plain record that was never migrated could be undone by a removal
that fails half way. The code excludes this only because every write follows a read;
`SecretsNext` states that discipline, and the next module proves that the
controller keeps it.

`LocalRuntimeProofs` proves of `LocalRuntime`, for any number of handlers, tokens,
commands and faults: `RuntimeUsesTheStore` (`Spec => SecretsSpec`), hence
`RuntimeKeepsCiphertextReadable` and `RuntimeSeesThePromise`; `DisconnectAlwaysSticks`; and
`NewestSetupAlwaysWins`. The invariant `RInv` adds to `SInv` that handlers have their
types (`HandlersSound`), that a call in the store belongs to the handler waiting for
it (`CallsOwned`), that only the first of `storageTail` compares and stores
(`OneMutates`), that two handlers of setups never share a generation
(`GenerationsDiffer`), and `NothingReturns`: while `revoked`, no write is on its way, and the
setups that are left are of an older generation and have not come to compare.

The same module proves `WatchesStayDisconnected`. Its invariant `WInv` says that while
the ghosts of a disconnect last nothing is connected (`CalmMeansGone`), that the
watch queue is served in order (`EachInTurn`), and that while `quiet` no edit that
has passed the gate brings the channel with it (`QuietMeansOff`).

`DesktopAlertsProofs` proves of the `LocalRuntime` composition, from `DesktopConstants`:
`DuplicatesAreLosses`, `BadgeAlwaysCounts`, `TestsAreAlwaysSpaced`. The hard part is the
bounded ledger: a reference may be displaced only by newer ones, so an alert that
is still in time and was shown is in the ledger, or shown anew by its own task, or
counted as lost. It rests on a lemma that at most `n` events are among the newest
`n`, shown with an injection into `0..n-1` (no induction over data).

`MonitorPageProofs` proves of `MonitorPage`, from no assumption at all, for any number of
lookups, refreshes, clicks and deaths and any catalogs: `DiscoveriesAreSafe`,
`PublishedStoresAreStored`, `RoutesStay`, `CommandsKeepThePageBusy`, `ShownStoresAreSound`,
`StaleLookupsAreNeverShown`, `TelegramStatusIsNeverStale`.
`PInv` holds that only the head of the gate writes, over the cache as it was when
the write was prepared (`OnlyTheHeadWrites`); that a living worker's cache has all
that was answered (`PromisedIsCached`), without which a late write could be
overwritten by one that never saw it; that the page waits for one lookup at most and
for none while a command runs (`OneThingAtATime`); and that what is answered, asked
for and shown stays known across deaths (`ShownStayKnown`). `OneThingAtATime` also says
that once a lookup was given up without freeing the page no answer is taken that would
free it, so `stranded` always stands for a busy page.

So every invariant and every action property that a passing run checks is proved,
three action properties of them under the hypotheses above.

Only model-checked: all liveness properties (`CycleEnds`, `PendingWorkSettles`,
`AlarmsSettle`, `CommandsSettle`, `BusyIsReleased`, `CommitsLeaveTheGate`), as fairness and
ENABLED are out of the prover's reach, and the violations. Nothing here needs
induction over data: the modules use no recursive operator.

## 6. Plan

Written: all modules above. Left, in this order:

1. Progress without fairness, which can be proved: that a cycle which is not idle
   always has a step that the environment cannot withhold, and that each step of a
   cycle decreases a measure. The liveness runs rest on both.
2. That the spacing of alerts and the order of deliveries extend to the desktop and
   Telegram modules: a composition of `DeliveryPromise` with `DesktopAlerts`, where a
   contact is a call of the service.
3. The pure algorithms (`coalescePollBatches`, `capHistoryEvents`, the popup's summary)
   against reference definitions.
4. `CatalogRefresh`, should it ever be wired into the runtime.

## 7. Not modelled

- The click on a desktop notification and the sound: they open the handoff or play,
  and change nothing that is kept.
- The popup, rendering, validation of forms and of messages, HTTP and JSON parsing,
  history and its cap: no decision depends on what they keep.
- The checkout assistant: it highlights what Apple's page shows.
- The catalog refresh (`ext/catalog/*`): exported, tested, called by nothing.
- Platform adapters are thin wrappers; the browser's own guarantees (alarms,
  storage, worker lifetime) are the environment of the models.
- Build scripts and the website.
