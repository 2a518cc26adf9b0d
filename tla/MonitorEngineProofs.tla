-------------------------- MODULE MonitorEngineProofs --------------------------
(***************************************************************************)
(* The engine's type invariant, all of its safety invariants and that a    *)
(* verdict is final, for every value of the constants: every set of        *)
(* watches, any number of edits, crashes, failed writes and clock changes. *)
(*                                                                         *)
(* None of them is inductive.  That a queued write is sound depends on     *)
(* what was queued, that a new watch has no work on its id being new, and  *)
(* that a late outcome is harmless on where the cycle waits for its saves: *)
(* IInv says that, and every other invariant rests on it.  RInv adds the   *)
(* attempts and verdicts on record, FInv that every snapshot fits what     *)
(* storage accepts, SInv that the alarm is set.  There is one lemma per    *)
(* action or group of actions for each of the four.                        *)
(***************************************************************************)
EXTENDS MonitorEngine, MonitorSnapshotProofs

\* The cycle awaits one of its own saves.
Waiting == {"recording", "attempting", "settling", "closing"}

\* The cycle has a delivery candidate in hand.
InHand == {"attempting", "rechecking", "resolving", "sending", "answering"}

\* Without a snapshot, or while one is loaded, no cycle runs; nothing is queued for
\* writing before there is a snapshot.
Coherent ==
    /\ snap = None => cycle.pc = "idle" /\ saves = << >>
    /\ loading => cycle.pc = "idle"
    /\ cycle.pc \in InHand => cycle.cur \in Copies

\* The cycle queues one save at a time and waits for it, so a write that settles
\* for the cycle finds it where it waits.
CycleSaves ==
    /\ \A i \in 1..Len(saves) : saves[i].by = "cycle" => cycle.pc \in Waiting
    /\ \A i, j \in 1..Len(saves) :
        saves[i].by = "cycle" /\ saves[j].by = "cycle" => i = j

\* What every copy of the snapshot has in common: its pending work is authorised,
\* and its watches are among those the user has added.
Sound(s, known) ==
    /\ Authorised(s)
    /\ \A w \in Watches : s.watches[w] # None => w \in known

\* Every save waiting to be written is sound.
SavesSound == \A i \in 1..Len(saves) : Sound(saves[i].snap, added)

\* ... and so are the disk and memory.
AllSound ==
    /\ Sound(disk, added)
    /\ snap # None => Sound(snap, added)
    /\ SavesSound

\* The inductive invariant.
IInv ==
    /\ TypeOK
    /\ Coherent
    /\ CycleSaves
    /\ AllSound
    /\ InFlightDeliveryIsCurrent

-------------------------------------------------------------------------------

\* A saved form is a watch.
LEMMA WithRevType ==
    ASSUME NEW form \in WatchForms, NEW rev \in Int
    PROVE  WithRev(form, rev) \in Watch
<1>1. form \in WatchForm
  BY FormsAssumption
<1>2. QED
  BY <1>1 DEF WithRev, WatchForm, Watch

\* The empty snapshot is a snapshot.
LEMMA EmptySnapshotType ==
    /\ EmptySnapshot \in Snapshot
    /\ EmptySnapshot.pending = [id \in EventIds |-> None]
    /\ EmptySnapshot.watches = [w \in Watches |-> None]
<1>1. NoDelivery \in Delivery
  BY DEF NoDelivery, Delivery, OptTime, MarkerState
<1>2. QED
  BY <1>1, BoundsAssumption DEF EmptySnapshot, Snapshot, OptTime

\* An empty ledger is authorised.
LEMMA NothingPendingIsAuthorised ==
    ASSUME NEW s \in Snapshot, \A id \in EventIds : s.pending[id] = None
    PROVE  Authorised(s)
BY DEF Authorised

\* A reset leaves nothing unauthorised.
LEMMA EmptySnapshotIsSound ==
    ASSUME NEW known
    PROVE  Sound(EmptySnapshot, known)
<1>1. Authorised(EmptySnapshot)
  BY EmptySnapshotType, NothingPendingIsAuthorised
<1>2. QED
  BY <1>1, EmptySnapshotType DEF Sound

\* Soundness survives steps that keep the watches and add no work.
LEMMA SoundKept ==
    ASSUME NEW s \in Snapshot, NEW new \in Snapshot, NEW known, NEW known2,
           Sound(s, known), known \subseteq known2,
           new.watches = s.watches, NoNewWork(s, new)
    PROVE  Sound(new, known2)
BY AuthorisedKept DEF Sound

\* persist puts one save at the end of the queue.
LEMMA PersistAppends ==
    ASSUME saves \in Seq(Save), NEW by \in {"cycle", "edit", "reset"},
           NEW s \in Snapshot, Persist(by, s)
    PROVE  /\ saves' \in Seq(Save)
           /\ saves' # << >>
           /\ Len(saves') = Len(saves) + 1
           /\ \A i \in 1..Len(saves) : saves'[i] = saves[i]
           /\ saves'[Len(saves) + 1].by = by
           /\ saves'[Len(saves) + 1].snap = s
<1> DEFINE e == [by |-> by, snap |-> s]
<1>1. e \in Save /\ e.by = by /\ e.snap = s
  BY DEF Save
<1>2. saves' = Append(saves, e)
  BY DEF Persist
<1>3. QED
  <2> HIDE DEF e
  <2> QED BY <1>1, <1>2

\* Queueing a sound snapshot keeps the queue sound.
LEMMA PersistKeepsSound ==
    ASSUME saves \in Seq(Save), NEW by \in {"cycle", "edit", "reset"},
           NEW s \in Snapshot, Persist(by, s),
           SavesSound, added \subseteq added', Sound(s, added')
    PROVE  SavesSound'
<1>1. Len(saves) \in Nat
  OBVIOUS
<1>2. ASSUME NEW i \in 1..Len(saves)
      PROVE  Sound(saves[i].snap, added')
  BY DEF SavesSound, Sound
<1>3. ASSUME NEW i \in 1..Len(saves')
      PROVE  Sound(saves'[i].snap, added')
  <2>1. CASE i = Len(saves) + 1
    BY <2>1, PersistAppends
  <2>2. CASE i # Len(saves) + 1
    <3>1. i \in 1..Len(saves)
      BY <1>1, <2>2, PersistAppends
    <3>2. saves'[i] = saves[i]
      BY <3>1, PersistAppends
    <3>3. QED
      BY <1>2, <3>1, <3>2
  <2>3. QED
    BY <2>1, <2>2
<1>4. QED
  BY <1>3 DEF SavesSound

\* The cycle may queue a save when it waits for none, and then waits; an edit may
\* queue one at any time without moving the cycle.
LEMMA PersistKeepsCycleSaves ==
    ASSUME saves \in Seq(Save), NEW by \in {"cycle", "edit", "reset"},
           NEW s \in Snapshot, Persist(by, s), CycleSaves,
           IF by = "cycle" THEN cycle.pc \notin Waiting /\ cycle'.pc \in Waiting
                           ELSE cycle'.pc = cycle.pc
    PROVE  CycleSaves'
<1>1. Len(saves) \in Nat
  OBVIOUS
<1>2. ASSUME NEW i \in 1..Len(saves')
      PROVE  \/ i \in 1..Len(saves) /\ saves'[i] = saves[i]
             \/ i = Len(saves) + 1 /\ saves'[i].by = by
  <2>1. CASE i = Len(saves) + 1
    BY <2>1, PersistAppends
  <2>2. CASE i # Len(saves) + 1
    <3>1. i \in 1..Len(saves)
      BY <1>1, <2>2, PersistAppends
    <3>2. QED
      BY <3>1, PersistAppends
  <2>3. QED
    BY <2>1, <2>2
<1>3. ASSUME NEW i \in 1..Len(saves'), saves'[i].by = "cycle"
      PROVE  cycle'.pc \in Waiting
  BY <1>2, <1>3 DEF CycleSaves
<1>4. ASSUME NEW i \in 1..Len(saves'), NEW j \in 1..Len(saves'),
             saves'[i].by = "cycle", saves'[j].by = "cycle"
      PROVE  i = j
  <2>1. CASE by = "cycle"
    <3>1. \A k \in 1..Len(saves) : saves[k].by # "cycle"
      BY <2>1 DEF CycleSaves
    <3>2. QED
      BY <1>2, <1>4, <3>1
  <2>2. CASE by # "cycle"
    <3>1. /\ i \in 1..Len(saves) /\ saves[i].by = "cycle"
          /\ j \in 1..Len(saves) /\ saves[j].by = "cycle"
      BY <1>2, <1>4, <2>2
    <3>2. QED
      BY <3>1 DEF CycleSaves
  <2>3. QED
    BY <2>1, <2>2
<1>5. QED
  BY <1>3, <1>4 DEF CycleSaves

\* What storage holds at first is sound.
LEMMA InitIInv == Init => IInv
<1> SUFFICES ASSUME Init PROVE IInv
  OBVIOUS
<1>1. PICK saved \in [Watches -> WatchForms \cup {None}] :
        /\ disk = [EmptySnapshot EXCEPT !.watches =
                    [w \in Watches |-> IF saved[w] = None THEN None
                                       ELSE WithRev(saved[w], 0)]]
        /\ added = {w \in Watches : saved[w] # None}
  BY DEF Init
<1> DEFINE watches == [w \in Watches |-> IF saved[w] = None THEN None
                                         ELSE WithRev(saved[w], 0)]
<1>2. watches \in [Watches -> Watch \cup {None}]
  BY WithRevType
<1>3. disk \in Snapshot /\ disk.pending = [id \in EventIds |-> None]
                        /\ disk.watches = watches
  <2> HIDE DEF watches
  <2>1. disk = [EmptySnapshot EXCEPT !.watches = watches]
    BY <1>1 DEF watches
  <2>2. QED
    BY <1>2, <2>1, EmptySnapshotType DEF Snapshot
<1>4. Sound(disk, added)
  <2>1. Authorised(disk)
    BY <1>3, NothingPendingIsAuthorised
  <2>2. \A w \in Watches : disk.watches[w] # None => w \in added
    BY <1>1, <1>3
  <2>3. QED
    BY <2>1, <2>2 DEF Sound
<1>5. IdleCycle \in Cycle /\ IdleCycle.pc = "idle"
  BY DEF IdleCycle, Cycle, Pcs, NoWork
<1>6. TypeOK
  <2>1. now \in Int /\ alarm \in Alarm /\ snap \in Snapshot \cup {None}
        /\ loading \in BOOLEAN /\ catalog \in Catalogs \cup {None}
    <3>1. NoAlarm \in Alarm
      BY DEF NoAlarm, Alarm, OptTime
    <3>2. now = 0 /\ alarm = NoAlarm /\ snap = None /\ loading = FALSE
          /\ catalog = None
      BY DEF Init
    <3> HIDE DEF watches
    <3>3. now \in Int
      BY <3>2
    <3>4. alarm \in Alarm
      BY <3>1, <3>2
    <3>5. snap \in Snapshot \cup {None} /\ catalog \in Catalogs \cup {None}
      BY <3>2
    <3>6. loading \in BOOLEAN
      BY <3>2
    <3>7. QED
      BY <3>3, <3>4, <3>5, <3>6
  <2>2. saves \in Seq(Save)
    BY DEF Init
  <2>3. gen \in [Watches -> Nat] /\ serial \in [Scopes -> Nat]
        /\ sends \in [Copies -> Nat]
    BY DEF Init
  <2>4. /\ schedule \in Schedules
        /\ spent \in [edits : Nat, crashes : Nat, faults : Nat, setBacks : Nat]
    BY DEF Init, Schedules
  <2>5. added \subseteq Watches
    BY <1>1
  <2>6. cycle \in Cycle
    BY <1>5 DEF Init
  <2>7. QED
    BY <1>3, <2>1, <2>2, <2>3, <2>4, <2>5, <2>6 DEF TypeOK
<1>7. snap = None /\ saves = << >> /\ cycle.pc = "idle" /\ ~loading
  BY <1>5 DEF Init
<1>8. AllSound
  BY <1>4, <1>7 DEF AllSound, SavesSound
<1>9. Coherent /\ CycleSaves /\ InFlightDeliveryIsCurrent
  BY <1>7 DEF Coherent, CycleSaves, InFlightDeliveryIsCurrent, InHand
<1>10. QED
  BY <1>6, <1>8, <1>9 DEF IInv
-------------------------------------------------------------------------------
(* Steps that leave the snapshots and the cycle alone *)

\* A step that touches neither snapshots nor cycle keeps the invariant.
LEMMA IdleStepKeeps ==
    ASSUME IInv, TypeOK', UNCHANGED <<disk, snap, saves, cycle, added>>,
           loading' => cycle.pc = "idle"
    PROVE  IInv'
<1>1. Coherent' /\ CycleSaves' /\ AllSound'
  BY DEF IInv, Coherent, CycleSaves, AllSound, SavesSound
<1>2. InFlightDeliveryIsCurrent'
  BY DEF IInv, InFlightDeliveryIsCurrent, IsCurrent
<1>3. QED
  BY <1>1, <1>2 DEF IInv

\* An alarm that rang is an alarm.
LEMMA RungAlarmType ==
    ASSUME TypeOK
    PROVE  RungAlarm \in Alarm
<1>1. alarm.periodic \in OptTime /\ alarm.oneShot \in OptTime
  BY DEF TypeOK, Alarm
<1>2. now + PollInterval \in Int
  BY DelaysAssumption DEF TypeOK
<1>3. QED
  BY <1>1, <1>2 DEF RungAlarm, Alarm, OptTime

\* Time passes.
LEMMA TickKeeps ==
    ASSUME IInv, Tick
    PROVE  IInv'
<1>1. TypeOK'
  BY DEF IInv, TypeOK, Tick
<1>2. QED
  BY <1>1, IdleStepKeeps DEF Tick, IInv, Coherent

\* The clock is set back.
LEMMA SetClockBackKeeps ==
    ASSUME IInv, SetClockBack
    PROVE  IInv'
<1>1. now' \in Int
  BY DEF IInv, TypeOK, SetClockBack
<1>2. spent' \in [edits : Nat, crashes : Nat, faults : Nat, setBacks : Nat]
  <2>1. spent' = [spent EXCEPT !.setBacks = @ + 1]
    BY DEF SetClockBack
  <2>2. spent \in [edits : Nat, crashes : Nat, faults : Nat, setBacks : Nat]
    BY DEF IInv, TypeOK
  <2>3. QED
    BY <2>1, <2>2
<1>3. TypeOK'
  BY <1>1, <1>2 DEF IInv, TypeOK, SetClockBack
<1>4. QED
  BY <1>3, IdleStepKeeps DEF SetClockBack, IInv, Coherent

\* A wake during a cycle.
LEMMA WakeWhileBusyKeeps ==
    ASSUME IInv, WakeWhileBusy
    PROVE  IInv'
<1>1. TypeOK'
  BY RungAlarmType DEF IInv, TypeOK, WakeWhileBusy
<1>2. QED
  BY <1>1, IdleStepKeeps DEF WakeWhileBusy, IInv, Coherent

\* The worker starts.
LEMMA BootWithKeeps ==
    ASSUME IInv, NEW rung \in Alarm, BootWith(rung)
    PROVE  IInv'
<1>1. TypeOK'
  BY DEF IInv, TypeOK, BootWith, Schedules
<1>2. QED
  BY <1>1, IdleStepKeeps DEF BootWith, Alive, IInv, Coherent

\* What start() sets is an alarm.
LEMMA StartScheduleType ==
    ASSUME NEW s \in Snapshot, now \in Int
    PROVE  /\ StartSchedule(s) \in Alarm
           /\ StartSchedule(s).periodic = RefreshSchedule(s, now).periodic
<1> DEFINE set == RefreshSchedule(s, now)
<1>1. set \in Alarm
  BY RefreshScheduleType
<1>2. StartSchedule(s) = [set EXCEPT !.oneShot = now]
  BY DEF StartSchedule
<1> HIDE DEF set
<1>3. StartSchedule(s) \in Alarm /\ StartSchedule(s).periodic = set.periodic
  BY <1>1, <1>2 DEF Alarm, OptTime
<1>4. QED
  BY <1>3 DEF set

\* A load fails.
LEMMA LoadFailsKeeps ==
    ASSUME IInv, LoadFails
    PROVE  IInv'
<1>1. spent' \in [edits : Nat, crashes : Nat, faults : Nat, setBacks : Nat]
  <2>1. spent \in [edits : Nat, crashes : Nat, faults : Nat, setBacks : Nat]
    BY DEF IInv, TypeOK
  <2>2. QED
    BY <2>1 DEF LoadFails
<1>2. TypeOK'
  BY <1>1, RungAlarmType DEF IInv, TypeOK, LoadFails, Schedules
<1>3. QED
  BY <1>2, IdleStepKeeps DEF LoadFails, IInv, Coherent

\* The snapshot is read again.
LEMMA ReadAgainKeeps ==
    ASSUME IInv, ReadAgain
    PROVE  IInv'
<1>1. TypeOK'
  BY DEF IInv, TypeOK, ReadAgain
<1>2. QED
  BY <1>1, IdleStepKeeps DEF ReadAgain, IInv, Coherent

\* The user starts the monitor.
LEMMA StartMonitorKeeps ==
    ASSUME IInv, StartMonitor
    PROVE  IInv'
<1>1. spent' \in [edits : Nat, crashes : Nat, faults : Nat, setBacks : Nat]
  <2>1. spent \in [edits : Nat, crashes : Nat, faults : Nat, setBacks : Nat]
    BY DEF IInv, TypeOK
  <2>2. QED
    BY <2>1 DEF StartMonitor
<1>2. alarm' \in Alarm
  <2>1. CASE Ready /\ alarm' = StartSchedule(snap)
    BY <2>1, StartScheduleType DEF Ready, IInv, TypeOK
  <2>2. CASE alarm' = alarm
    BY <2>2 DEF IInv, TypeOK
  <2>3. QED
    BY <2>1, <2>2 DEF StartMonitor
<1>3. loading' \in BOOLEAN /\ schedule' \in Schedules
  BY DEF StartMonitor, IInv, TypeOK, Schedules
<1>4. TypeOK'
  BY <1>1, <1>2, <1>3 DEF IInv, TypeOK, StartMonitor
<1>5. QED
  BY <1>4, IdleStepKeeps DEF StartMonitor, Ready, IInv, Coherent

\* The catalog learns stores.
LEMMA LearnStoresKeeps ==
    ASSUME IInv, LearnStores
    PROVE  IInv'
<1>1. TypeOK'
  BY DEF IInv, TypeOK, LearnStores
<1>2. QED
  BY <1>1, IdleStepKeeps DEF LearnStores, IInv, Coherent

\* Nothing happens.
LEMMA StutteringKeeps ==
    ASSUME IInv, UNCHANGED vars
    PROVE  IInv'
<1>1. TypeOK'
  BY DEF IInv, TypeOK, vars
<1>2. QED
  BY <1>1, IdleStepKeeps DEF vars, IInv, Coherent

-------------------------------------------------------------------------------
(* Loading, crashes and writes *)

\* A snapshot is loaded: setting its clock right leaves it sound.
LEMMA FinishLoadKeeps ==
    ASSUME IInv, FinishLoad
    PROVE  IInv'
<1> DEFINE loaded == NormalizePersistedClockSkew(disk, now)
<1>1. disk \in Snapshot /\ now \in Int /\ Sound(disk, added)
  BY DEF IInv, TypeOK, AllSound
<1>2. loaded \in Snapshot /\ Sound(loaded, added)
  BY <1>1, NormalizePersistedClockSkewKeeps, SoundKept
<1>3. snap' = loaded /\ loading' = FALSE
      /\ UNCHANGED <<now, disk, saves, gen, catalog, cycle, serial, added, sends, spent>>
  BY DEF FinishLoad
<1>4. alarm' \in Alarm /\ schedule' \in Schedules
  <2>1. StartSchedule(loaded) \in Alarm
    BY <1>1, <1>2, StartScheduleType
  <2>2. /\ alarm' \in {alarm, StartSchedule(loaded)}
        /\ schedule' \in {schedule, "set"}
    BY DEF FinishLoad
  <2>3. QED
    BY <2>1, <2>2 DEF IInv, TypeOK, Schedules
<1>5. cycle.pc = "idle"
  BY DEF IInv, Coherent, FinishLoad
<1> HIDE DEF loaded
<1>6. TypeOK'
  BY <1>2, <1>3, <1>4 DEF IInv, TypeOK
<1>7. Coherent' /\ CycleSaves'
  BY <1>2, <1>3, <1>5, NoneIsNoRecord DEF IInv, Coherent, CycleSaves, InHand
<1>8. AllSound'
  BY <1>2, <1>3 DEF IInv, AllSound, SavesSound
<1>9. InFlightDeliveryIsCurrent'
  BY <1>3, <1>5 DEF InFlightDeliveryIsCurrent
<1>10. QED
  BY <1>6, <1>7, <1>8, <1>9 DEF IInv

\* The save at the head of the queue is sound, and the rest keeps its order.
LEMMA HeadOfSaves ==
    ASSUME IInv, saves # << >>
    PROVE  /\ Head(saves) \in Save /\ Head(saves) = saves[1]
           /\ Head(saves).snap \in Snapshot
           /\ Sound(Head(saves).snap, added)
           /\ Tail(saves) \in Seq(Save)
           /\ 1 \in 1..Len(saves)
           /\ Len(Tail(saves)) = Len(saves) - 1
           /\ \A i \in 1..Len(Tail(saves)) :
                i + 1 \in 1..Len(saves) /\ Tail(saves)[i] = saves[i + 1]
<1>1. saves \in Seq(Save)
  BY DEF IInv, TypeOK
<1>2. Len(saves) \in Nat \ {0}
  BY <1>1
<1>3. Head(saves) \in Save /\ Head(saves) = saves[1] /\ Tail(saves) \in Seq(Save)
  BY <1>1
<1>4. 1 \in 1..Len(saves)
  BY <1>2
<1>5. Sound(saves[1].snap, added)
  BY <1>4 DEF IInv, AllSound, SavesSound
<1>6. Len(Tail(saves)) = Len(saves) - 1
  BY <1>1
<1>7. \A i \in 1..Len(Tail(saves)) :
        i + 1 \in 1..Len(saves) /\ Tail(saves)[i] = saves[i + 1]
  BY <1>1, <1>2, <1>6
<1>8. QED
  BY <1>3, <1>4, <1>5, <1>6, <1>7 DEF Save

\* The worker dies: what is on disk, perhaps after the write under way, is sound.
LEMMA CrashKeeps ==
    ASSUME IInv, Crash
    PROVE  IInv'
<1>1. disk' \in Snapshot /\ Sound(disk', added)
  BY HeadOfSaves DEF Crash, IInv, TypeOK, AllSound
<1>2. IdleCycle \in Cycle /\ IdleCycle.pc = "idle"
  BY DEF IdleCycle, Cycle, Pcs, NoWork
<1>3. /\ snap' = None /\ loading' = FALSE /\ saves' = << >> /\ cycle' = IdleCycle
      /\ schedule' = "ahead"
      /\ gen' = [w \in Watches |-> 0] /\ catalog' = None
      /\ spent' = [spent EXCEPT !.crashes = @ + 1]
      /\ UNCHANGED <<now, alarm, serial, added, sends>>
  BY DEF Crash
<1>4. TypeOK'
  <2>1. spent' \in [edits : Nat, crashes : Nat, faults : Nat, setBacks : Nat]
    <3>1. spent \in [edits : Nat, crashes : Nat, faults : Nat, setBacks : Nat]
      BY DEF IInv, TypeOK
    <3>2. QED
      BY <1>3, <3>1
  <2>2. saves' \in Seq(Save) /\ gen' \in [Watches -> Nat]
    BY <1>3
  <2>3. QED
    BY <1>1, <1>2, <1>3, <2>1, <2>2 DEF IInv, TypeOK, Schedules
<1>5. Coherent' /\ CycleSaves'
  BY <1>2, <1>3 DEF Coherent, CycleSaves, InHand
<1>6. AllSound'
  BY <1>1, <1>3 DEF AllSound, SavesSound
<1>7. InFlightDeliveryIsCurrent'
  BY <1>2, <1>3 DEF InFlightDeliveryIsCurrent
<1>8. QED
  BY <1>4, <1>5, <1>6, <1>7 DEF IInv

\* What both outcomes of a write share: the queue is one save shorter, and the
\* cycle goes on only if the save was its own.
LEMMA WriteKeeps ==
    ASSUME IInv, saves # << >>, saves' = Tail(saves), ~loading,
           TypeOK', Sound(disk', added), UNCHANGED <<snap, loading, added>>,
           IF Head(saves).by = "cycle"
           THEN cycle'.pc \in {"idle", "starting", "rechecking", "dispatching"}
           ELSE cycle' = cycle,
           Head(saves).by = "cycle" /\ cycle'.pc = "rechecking" =>
                cycle'.cur = cycle.cur /\ cycle.pc = "attempting"
    PROVE  IInv'
<1>1. ASSUME NEW i \in 1..Len(saves'), saves'[i].by = "cycle"
      PROVE  cycle'.pc \in Waiting
  <2>1. i + 1 \in 1..Len(saves) /\ saves[i + 1].by = "cycle" /\ i + 1 # 1
    BY <1>1, HeadOfSaves
  <2>2. Head(saves).by # "cycle"
    BY <2>1, HeadOfSaves DEF IInv, CycleSaves
  <2>3. cycle.pc \in Waiting
    BY <2>1 DEF IInv, CycleSaves
  <2>4. QED
    BY <2>2, <2>3
<1>2. ASSUME NEW i \in 1..Len(saves'), NEW j \in 1..Len(saves'),
             saves'[i].by = "cycle", saves'[j].by = "cycle"
      PROVE  i = j
  <2>1. i + 1 = j + 1
    BY <1>2, HeadOfSaves DEF IInv, CycleSaves
  <2>2. QED
    BY <2>1
<1>3. SavesSound'
  <2>1. ASSUME NEW i \in 1..Len(saves')
        PROVE  Sound(saves'[i].snap, added)
    BY HeadOfSaves DEF IInv, AllSound, SavesSound
  <2>2. QED
    BY <2>1 DEF SavesSound
<1>4. AllSound'
  BY <1>3 DEF IInv, AllSound
<1>5. Coherent'
  BY DEF IInv, Coherent, InHand
<1>6. InFlightDeliveryIsCurrent'
  BY DEF IInv, InFlightDeliveryIsCurrent, IsCurrent
<1>7. QED
  BY <1>1, <1>2, <1>4, <1>5, <1>6 DEF IInv, CycleSaves

\* A write succeeds.
LEMMA WriteSucceedsKeeps ==
    ASSUME IInv, WriteSucceeds
    PROVE  IInv'
<1> DEFINE by == Head(saves).by
           ends == by = "cycle" /\ cycle.pc = "closing"
<1>1. /\ saves # << >> /\ ~loading /\ saves' = Tail(saves)
      /\ disk' = Head(saves).snap
      /\ UNCHANGED <<now, snap, loading, gen, catalog, serial, added, sends, spent>>
  BY DEF WriteSucceeds
<1>2. cycle' = IF ends THEN IdleCycle
               ELSE IF by = "cycle" THEN [cycle EXCEPT !.pc = AfterSave[cycle.pc]]
               ELSE cycle
  BY DEF WriteSucceeds
<1>3. alarm' = IF ends \/ by = "edit" THEN RefreshSchedule(snap, now) ELSE alarm
  BY DEF WriteSucceeds
<1>4. IdleCycle \in Cycle /\ IdleCycle.pc = "idle"
  BY DEF IdleCycle, Cycle, Pcs, NoWork
<1>5. cycle \in Cycle /\ now \in Int /\ alarm \in Alarm
  BY DEF IInv, TypeOK
<1>6. snap \in Snapshot
  BY <1>1 DEF IInv, TypeOK, Coherent
<1>7. by = "cycle" => cycle.pc \in Waiting
  BY <1>1, HeadOfSaves DEF IInv, CycleSaves
<1>8. /\ cycle' \in Cycle
      /\ IF by = "cycle"
         THEN cycle'.pc \in {"idle", "starting", "rechecking", "dispatching"}
         ELSE cycle' = cycle
      /\ by = "cycle" /\ cycle'.pc = "rechecking" =>
            cycle'.cur = cycle.cur /\ cycle.pc = "attempting"
  <2> HIDE DEF by
  <2>1. CASE ends
    BY <1>2, <1>4, <2>1
  <2>2. CASE by # "cycle"
    BY <1>2, <1>5, <2>2
  <2>3. CASE by = "cycle" /\ cycle.pc # "closing"
    <3>1. cycle.pc \in {"recording", "attempting", "settling"}
      BY <1>7, <2>3 DEF Waiting
    <3>2. AfterSave[cycle.pc] \in {"starting", "rechecking", "dispatching"}
          /\ (AfterSave[cycle.pc] = "rechecking" => cycle.pc = "attempting")
      BY <3>1 DEF AfterSave
    <3>3. cycle' = [cycle EXCEPT !.pc = AfterSave[cycle.pc]]
      BY <1>2, <2>3
    <3>4. QED
      BY <1>5, <2>3, <3>2, <3>3 DEF Cycle, Pcs
  <2>4. QED
    BY <2>1, <2>2, <2>3
<1>9. TypeOK'
  <2>1. alarm' \in Alarm
    BY <1>3, <1>5, <1>6, RefreshScheduleType
  <2>2. schedule' \in Schedules
    <3>1. schedule' \in {schedule, "set"}
      BY DEF WriteSucceeds
    <3>2. QED
      BY <3>1 DEF Schedules, IInv, TypeOK
  <2>3. QED
    BY <1>1, <1>8, <2>1, <2>2, HeadOfSaves DEF IInv, TypeOK
<1>10. Sound(disk', added)
  BY <1>1, HeadOfSaves
<1>11. QED
  BY <1>1, <1>8, <1>9, <1>10, WriteKeeps

\* A write fails.
LEMMA WriteFailsKeeps ==
    ASSUME IInv, WriteFails
    PROVE  IInv'
<1>1. /\ saves # << >> /\ ~loading /\ saves' = Tail(saves)
      /\ cycle' = IF Head(saves).by = "cycle" THEN IdleCycle ELSE cycle
      /\ UNCHANGED <<now, disk, alarm, snap, loading, gen, catalog, serial,
                     added, sends>>
  BY DEF WriteFails
<1>2. IdleCycle \in Cycle /\ IdleCycle.pc = "idle"
  BY DEF IdleCycle, Cycle, Pcs, NoWork
<1>3. TypeOK'
  <2>1. /\ schedule' \in Schedules
        /\ spent' \in [edits : Nat, crashes : Nat, faults : Nat, setBacks : Nat]
    BY DEF WriteFails, IInv, TypeOK, Schedules
  <2>2. QED
    BY <1>1, <1>2, <2>1, HeadOfSaves DEF IInv, TypeOK
<1>4. Sound(disk', added)
  BY <1>1 DEF IInv, AllSound
<1>5. QED
  BY <1>1, <1>2, <1>3, <1>4, WriteKeeps
-------------------------------------------------------------------------------
(* The cycle *)

\* What every step of a running or starting cycle has to show.
LEMMA CycleStepKeeps ==
    ASSUME IInv, TypeOK', UNCHANGED <<disk, added, loading>>,
           snap # None, ~loading, cycle.pc \notin Waiting,
           snap' \in Snapshot, Sound(snap', added),
           \/ saves' = saves
           \/ Persist("cycle", snap') /\ cycle'.pc \in Waiting,
           cycle'.pc \in InHand => cycle'.cur \in Copies,
           /\ cycle'.pc \in {"resolving", "sending", "answering"}
           /\ ~cycle'.aborted
           => IsCurrent(cycle.cur)'
    PROVE  IInv'
<1>1. saves \in Seq(Save) /\ SavesSound /\ CycleSaves
  BY DEF IInv, TypeOK, AllSound
<1>2. SavesSound' /\ CycleSaves'
  <2>1. CASE saves' = saves
    <3>1. \A i \in 1..Len(saves) : saves[i].by # "cycle"
      BY DEF IInv, CycleSaves
    <3>2. QED
      BY <1>1, <2>1, <3>1 DEF SavesSound, CycleSaves
  <2>2. CASE Persist("cycle", snap') /\ cycle'.pc \in Waiting
    BY <1>1, <2>2, PersistKeepsSound, PersistKeepsCycleSaves
  <2>3. QED
    BY <2>1, <2>2
<1>3. AllSound'
  BY <1>2 DEF IInv, AllSound
<1>4. Coherent'
  BY NoneIsNoRecord DEF Coherent
<1>5. InFlightDeliveryIsCurrent'
  BY DEF InFlightDeliveryIsCurrent, IsCurrent
<1>6. QED
  BY <1>2, <1>3, <1>4, <1>5 DEF IInv

\* While a cycle runs there is a sound snapshot in memory.
LEMMA WorkingCycle ==
    ASSUME IInv, cycle.pc # "idle"
    PROVE  /\ snap \in Snapshot /\ snap # None /\ ~loading
           /\ Sound(snap, added) /\ now \in Int /\ cycle \in Cycle
           /\ saves \in Seq(Save)
BY DEF IInv, TypeOK, Coherent, AllSound

\* Reconciling as a cycle begins adds no work.
LEMMA ReconciledKeeps ==
    ASSUME snap \in Snapshot, now \in Int
    PROVE  /\ Reconciled \in Snapshot
           /\ Reconciled.watches = snap.watches
           /\ NoNewWork(snap, Reconciled)
<1> DEFINE s == ReconcileDurableDelivery(snap, now)
<1>1. s \in Snapshot /\ s.watches = snap.watches /\ NoNewWork(snap, s)
  BY ReconcileDurableDeliveryKeeps
<1>2. CASE catalog = None
  BY <1>1, <1>2 DEF Reconciled
<1>3. CASE catalog # None
  <2> DEFINE r == ReconcileRetiredCatalogState(s, catalog, now)
  <2>1. Reconciled = r
    BY <1>3 DEF Reconciled
  <2>2. r \in Snapshot /\ r.watches = s.watches /\ NoNewWork(s, r)
    BY <1>1, ReconcileRetiredCatalogStateKeeps
  <2> HIDE DEF s, r
  <2>3. QED
    BY <1>1, <2>1, <2>2, NoNewWorkIsTransitive
<1>4. QED
  BY <1>2, <1>3

\* Serial numbers stay numbers.
LEMMA NextSerialType ==
    ASSUME NEW numbers \in [Scopes -> Nat], NEW a
    PROVE  NextSerial(numbers, a) \in [Scopes -> Nat]
BY DEF NextSerial

\* Every way of promoting deferred alerts leaves the snapshot sound.
LEMMA PromotionsKeep ==
    ASSUME NEW s \in Snapshot, now \in Int, NEW numbers \in [Scopes -> Nat],
           NEW atStart, NEW p \in Promotions(s, numbers, atStart), NEW known,
           Sound(s, known)
    PROVE  /\ p.snap \in Snapshot
           /\ p.snap.watches = s.watches
           /\ Sound(p.snap, known)
           /\ p.serial \in [Scopes -> Nat]
<1>1. PICK a \in Admissions(s, Promotable(s, now, atStart, catalog)) :
        p = [snap   |-> PromoteDeferredAvailability(s, a, numbers, now, atStart),
             serial |-> NextSerial(numbers, a)]
  BY DEF Promotions
<1> DEFINE new == PromoteDeferredAvailability(s, a, numbers, now, atStart)
<1>2. new \in Snapshot /\ new.watches = s.watches /\ (Authorised(s) => Authorised(new))
  BY PromoteDeferredAvailabilityKeeps
<1>3. p.snap = new /\ p.serial = NextSerial(numbers, a)
  BY <1>1
<1> HIDE DEF new
<1>4. QED
  BY <1>2, <1>3, NextSerialType DEF Sound

\* Every way of recording observations leaves the snapshot sound.
LEMMA RecordingsKeep ==
    ASSUME NEW s \in Snapshot, now \in Int, NEW numbers \in [Scopes -> Nat],
           NEW obs, DOMAIN obs \subseteq Scopes,
           \A x \in DOMAIN obs : obs[x] \in Status,
           NEW r \in Recordings(s, obs, numbers), NEW known, Sound(s, known)
    PROVE  /\ r.snap \in Snapshot
           /\ r.snap.watches = s.watches
           /\ Sound(r.snap, known)
           /\ r.serial \in [Scopes -> Nat]
<1>1. PICK a \in Admissions(s, Alerting(s, obs, now, catalog)) :
        r = [snap   |-> RecordObservation(s, obs, a, numbers, now, catalog),
             serial |-> NextSerial(numbers, a)]
  BY DEF Recordings
<1> DEFINE new == RecordObservation(s, obs, a, numbers, now, catalog)
<1>2. new \in Snapshot /\ new.watches = s.watches /\ (Authorised(s) => Authorised(new))
  BY RecordObservationKeeps
<1>3. r.snap = new /\ r.serial = NextSerial(numbers, a)
  BY <1>1
<1> HIDE DEF new
<1>4. QED
  BY <1>2, <1>3, NextSerialType DEF Sound

\* Updating the backoff leaves the snapshot sound.
LEMMA BackoffSound ==
    ASSUME NEW s \in Snapshot, NEW t \in Int, NEW failed \in BOOLEAN,
           NEW retryAfter \in Int, NEW known, Sound(s, known)
    PROVE  /\ UpdateBackoff(s, failed, retryAfter, t) \in Snapshot
           /\ Sound(UpdateBackoff(s, failed, retryAfter, t), known)
BY UpdateBackoffKeeps, SamePendingIsNoNewWork, SoundKept

\* The cycle as it waits for the save that precedes delivery.
LEMMA RecordingType ==
    ASSUME now \in Int, catalog \in Catalogs \cup {None}
    PROVE  Recording \in Cycle /\ Recording.pc = "recording"
BY DEF Recording, IdleCycle, Cycle, Pcs, NoWork

\* A cycle begins, in each of its five ways.
LEMMA BeginCycleKeeps ==
    ASSUME IInv, NEW force \in SUBSET Watches, NEW rung \in Alarm,
           BeginCycle(force, rung)
    PROVE  IInv'
<1>1. /\ snap \in Snapshot /\ snap # None /\ ~loading /\ Sound(snap, added)
      /\ now \in Int /\ saves \in Seq(Save) /\ cycle.pc = "idle"
      /\ serial \in [Scopes -> Nat] /\ catalog \in Catalogs \cup {None}
      /\ gen \in [Watches -> Nat]
  BY DEF BeginCycle, Ready, IInv, TypeOK, AllSound
<1>2. UNCHANGED <<now, disk, loading, schedule, gen, catalog, added, sends, spent>>
  BY DEF BeginCycle
<1>3. Reconciled \in Snapshot /\ Sound(Reconciled, added)
  BY <1>1, ReconciledKeeps, SoundKept
<1>4. cycle.pc \notin Waiting
  BY <1>1 DEF Waiting
<1>5. ASSUME NEW new \in Snapshot, Sound(new, added), snap' = new,
             Persist("cycle", new), cycle' = Recording,
             alarm' \in Alarm, serial' \in [Scopes -> Nat]
      PROVE  IInv'
  <2>1. saves' \in Seq(Save)
    BY <1>1, <1>5, PersistAppends
  <2>2. Recording \in Cycle /\ Recording.pc = "recording"
    BY <1>1, RecordingType
  <2>3. TypeOK'
    BY <1>2, <1>5, <2>1, <2>2 DEF IInv, TypeOK
  <2>4. QED
    BY <1>1, <1>2, <1>4, <1>5, <2>2, <2>3, CycleStepKeeps DEF Waiting, InHand
<1>6. CASE BeginBackedOff(rung)
  <2>1. alarm' \in Alarm
    <3>1. Reconciled.nextEligibleAt \in OptTime
      BY <1>3 DEF Snapshot
    <3>2. alarm' = [rung EXCEPT !.oneShot = Reconciled.nextEligibleAt]
      BY <1>6 DEF BeginBackedOff
    <3>3. QED
      BY <3>1, <3>2 DEF Alarm
  <2>2. QED
    BY <1>1, <1>3, <1>5, <1>6, <2>1 DEF BeginBackedOff
<1>7. CASE BeginWithoutCatalog(force, rung)
  <2> DEFINE xs  == UNION {ScopesOf(Reconciled, w) : w \in Selected(Reconciled, force)}
             obs == [x \in xs |-> "unknown"]
             new == RecordItems(Reconciled, obs, now)
  <2>1. \A x \in DOMAIN obs : obs[x] \in Status
    BY DEF Status
  <2>2. snap' = new /\ Persist("cycle", new) /\ alarm' = rung /\ cycle' = Recording
        /\ serial' = serial
    BY <1>7 DEF BeginWithoutCatalog
  <2> HIDE DEF obs
  <2>3. new \in Snapshot /\ new.watches = Reconciled.watches
        /\ new.pending = Reconciled.pending
    BY <1>1, <1>3, <2>1, RecordItemsKeeps
  <2> HIDE DEF new
  <2>4. Sound(new, added)
    BY <1>3, <2>3, SamePendingIsNoNewWork, SoundKept
  <2>5. QED
    BY <1>1, <1>5, <2>2, <2>3, <2>4
<1>8. CASE BeginIdle(force, rung)
  <2>1. PICK p \in Promotions(Reconciled, serial, catalog) :
            snap' = p.snap /\ serial' = p.serial /\ Persist("cycle", p.snap)
    BY <1>8 DEF BeginIdle
  <2>2. p.snap \in Snapshot /\ Sound(p.snap, added) /\ p.serial \in [Scopes -> Nat]
    BY <1>1, <1>3, PromotionsKeep
  <2>3. alarm' = rung /\ cycle' = Recording
    BY <1>8 DEF BeginIdle
  <2>4. QED
    BY <1>5, <2>1, <2>2, <2>3
<1>9. CASE BeginUnsupported(force, rung)
  <2>1. PICK p \in Promotions(Reconciled, serial, catalog) :
            /\ snap' = UpdateBackoff(p.snap, FALSE, 0, now)
            /\ serial' = p.serial
            /\ Persist("cycle", UpdateBackoff(p.snap, FALSE, 0, now))
    BY <1>9 DEF BeginUnsupported
  <2>2. p.snap \in Snapshot /\ Sound(p.snap, added) /\ p.serial \in [Scopes -> Nat]
    BY <1>1, <1>3, PromotionsKeep
  <2>3. UpdateBackoff(p.snap, FALSE, 0, now) \in Snapshot
        /\ Sound(UpdateBackoff(p.snap, FALSE, 0, now), added)
    <3>1. \A failed \in BOOLEAN :
            /\ UpdateBackoff(p.snap, failed, 0, now) \in Snapshot
            /\ Sound(UpdateBackoff(p.snap, failed, 0, now), added)
      <4>1. 0 \in Int /\ now \in Int
        BY <1>1
      <4>2. QED
        BY <2>2, <4>1, BackoffSound, Zenon
    <3>2. QED
      BY <3>1
  <2>4. alarm' = rung /\ cycle' = Recording
    BY <1>9 DEF BeginUnsupported
  <2>5. QED
    BY <1>5, <2>1, <2>2, <2>3, <2>4
<1>10. CASE BeginPolling(force, rung)
  <2>1. PICK p \in Promotions(Reconciled, serial, catalog) :
            snap' = p.snap /\ serial' = p.serial
    BY <1>10 DEF BeginPolling
  <2>2. p.snap \in Snapshot /\ Sound(p.snap, added) /\ p.serial \in [Scopes -> Nat]
    BY <1>1, <1>3, PromotionsKeep
  <2> DEFINE valid == Selected(Reconciled, force) \ RetiredWatches(Reconciled, catalog)
             watch(w) == Reconciled.watches[w]
             work == [a \in Stores |->
                    UNION {watch(w).skus : w \in {v \in valid : watch(v).anchor = a}}]
             revs == [w \in Watches |->
                    IF w \in valid THEN [rev |-> watch(w).rev, gen |-> gen[w]]
                    ELSE None]
  <2>3. cycle' = [IdleCycle EXCEPT !.pc = "fetching", !.t = now, !.catalog = catalog,
                                   !.work = work, !.revs = revs]
        /\ alarm' = rung /\ saves' = saves
    BY <1>10 DEF BeginPolling
  <2>4. \A w \in valid : w \in Watches /\ watch(w) \in Watch
    BY <1>3 DEF Selected, Snapshot
  <2>5. work \in [Stores -> SUBSET Skus]
    BY <2>4 DEF Watch
  <2>6. revs \in [Watches -> Revision \cup {None}]
    BY <1>1, <2>4 DEF Watch, Revision
  <2> HIDE DEF work, revs
  <2>7. cycle' \in Cycle /\ cycle'.pc = "fetching"
    BY <1>1, <2>3, <2>5, <2>6 DEF IdleCycle, Cycle, Pcs
  <2>8. TypeOK'
    BY <1>2, <2>1, <2>2, <2>3, <2>7 DEF IInv, TypeOK
  <2>9. QED
    BY <1>1, <1>2, <1>4, <2>1, <2>2, <2>3, <2>7, <2>8, CycleStepKeeps DEF InHand
<1>11. QED
  BY <1>6, <1>7, <1>8, <1>9, <1>10 DEF BeginCycle

\* What an answer says.
LEMMA AnswerType ==
    ASSUME NEW skus, NEW answer \in Answers(skus)
    PROVE  /\ answer.status \in [skus \X Stores -> Status]
           /\ answer.failed \in BOOLEAN /\ answer.retry \in Nat
<1>1. CASE answer \in [failed : {FALSE}, retry : {0},
                       status : [skus \X Stores -> Status]]
  <2>1. answer.status \in [skus \X Stores -> Status] /\ answer.retry = 0
    BY <1>1
  <2>2. answer.failed \in {FALSE}
    BY <1>1
  <2>3. answer.failed \in BOOLEAN
    BY <2>2
  <2>4. QED
    BY <2>1, <2>3
<1>2. CASE answer \in [failed : {TRUE}, retry : RetryAfters,
                       status : {[y \in skus \X Stores |-> "unknown"]}]
  <2>1. [y \in skus \X Stores |-> "unknown"] \in [skus \X Stores -> Status]
    BY DEF Status
  <2>2. answer.failed \in BOOLEAN /\ answer.retry \in Nat
    BY <1>2, EnvironmentAssumption
  <2>3. answer.status = [y \in skus \X Stores |-> "unknown"]
    BY <1>2
  <2>4. QED
    BY <2>1, <2>2, <2>3
<1>3. QED
  BY <1>1, <1>2 DEF Answers

\* An answer is recorded; after the last one alerts are promoted and saved.
LEMMA FetchSettlesKeeps ==
    ASSUME IInv, FetchSettles
    PROVE  IInv'
<1>1. /\ snap \in Snapshot /\ snap # None /\ ~loading /\ Sound(snap, added)
      /\ now \in Int /\ saves \in Seq(Save) /\ cycle \in Cycle
      /\ cycle.pc = "fetching" /\ cycle.pc \notin Waiting
  BY WorkingCycle DEF FetchSettles, Waiting
<1>2. serial \in [Scopes -> Nat] /\ alarm \in Alarm
      /\ cycle.work \in [Stores -> SUBSET Skus]
      /\ cycle.failed \in BOOLEAN /\ cycle.retry \in Nat
  BY <1>1 DEF IInv, TypeOK, Cycle
<1>3. UNCHANGED <<now, disk, loading, schedule, gen, catalog, added, sends, spent>>
  BY DEF FetchSettles
<1>4. PICK anchor \in Stores :
        \E skus \in SUBSET cycle.work[anchor] : \E ans \in Answers(skus) :
            RequestSettles(anchor, skus, ans)
  BY DEF FetchSettles
<1>4a. PICK skus \in SUBSET cycle.work[anchor] :
        \E ans \in Answers(skus) : RequestSettles(anchor, skus, ans)
  BY <1>4
<1>4b. PICK answer \in Answers(skus) : RequestSettles(anchor, skus, answer)
  BY <1>4a
<1> DEFINE obs    == [x \in Answered(anchor, skus) |-> answer.status[<<x[2], x[3]>>]]
           work   == [cycle.work EXCEPT ![anchor] = @ \ skus]
           failed == cycle.failed \/ answer.failed
           retry  == Greatest(cycle.retry, answer.retry)
           polled == [cycle EXCEPT !.t = now, !.work = work,
                                   !.failed = failed, !.retry = retry]
<1>5. answer.status \in [skus \X Stores -> Status]
      /\ answer.failed \in BOOLEAN /\ answer.retry \in Nat
  BY AnswerType
<1>6. DOMAIN obs \subseteq Scopes /\ \A x \in DOMAIN obs : obs[x] \in Status
  <2>1. ASSUME NEW x \in Answered(anchor, skus)
        PROVE  x \in Scopes /\ <<x[2], x[3]>> \in skus \X Stores
    BY DEF Answered, Scopes
  <2>2. QED
    BY <1>5, <2>1
<1>7. work \in [Stores -> SUBSET Skus]
  BY <1>2
<1>8. failed \in BOOLEAN
  OBVIOUS
<1>9. retry \in Nat
  BY <1>2, <1>5 DEF Greatest
<1>10. polled \in Cycle /\ polled.pc = "fetching"
  <2> HIDE DEF work, failed, retry
  <2>1. QED
    BY <1>1, <1>7, <1>8, <1>9 DEF Cycle
<1> HIDE DEF obs, work, failed, retry, polled
<1>11. PICK r \in Recordings(snap, obs, serial) :
            \/ /\ snap' = r.snap
               /\ serial' = r.serial
               /\ cycle' = polled
               /\ UNCHANGED <<alarm, saves>>
            \/ /\ \E p \in Promotions(r.snap, r.serial, cycle.catalog) :
                    LET new == UpdateBackoff(p.snap, failed, retry, now) IN
                    /\ snap' = new
                    /\ serial' = p.serial
                    /\ Persist("cycle", new)
                    /\ alarm' = IF failed
                                THEN [alarm EXCEPT !.oneShot = new.nextEligibleAt]
                                ELSE alarm
               /\ cycle' = [polled EXCEPT !.pc = "recording",
                                !.revs = [w \in Watches |-> None],
                                !.failed = FALSE, !.retry = 0]
  BY <1>4b DEF RequestSettles, obs, work, failed, retry, polled
<1>12. r.snap \in Snapshot /\ Sound(r.snap, added) /\ r.serial \in [Scopes -> Nat]
  BY <1>1, <1>2, <1>6, RecordingsKeep
<1>13. CASE /\ snap' = r.snap
            /\ serial' = r.serial
            /\ cycle' = polled
            /\ UNCHANGED <<alarm, saves>>
  <2>1. TypeOK'
    BY <1>3, <1>10, <1>12, <1>13 DEF IInv, TypeOK
  <2>2. QED
    BY <1>1, <1>3, <1>10, <1>12, <1>13, <2>1, CycleStepKeeps DEF InHand
<1>14. CASE /\ \E p \in Promotions(r.snap, r.serial, cycle.catalog) :
                    LET new == UpdateBackoff(p.snap, failed, retry, now) IN
                    /\ snap' = new
                    /\ serial' = p.serial
                    /\ Persist("cycle", new)
                    /\ alarm' = IF failed
                                THEN [alarm EXCEPT !.oneShot = new.nextEligibleAt]
                                ELSE alarm
            /\ cycle' = [polled EXCEPT !.pc = "recording",
                                !.revs = [w \in Watches |-> None],
                                !.failed = FALSE, !.retry = 0]
  <2>1. PICK p \in Promotions(r.snap, r.serial, cycle.catalog) :
                    /\ snap' = UpdateBackoff(p.snap, failed, retry, now)
                    /\ serial' = p.serial
                    /\ Persist("cycle", UpdateBackoff(p.snap, failed, retry, now))
                    /\ alarm' = IF failed
                                THEN [alarm EXCEPT !.oneShot =
                                        UpdateBackoff(p.snap, failed, retry, now).nextEligibleAt]
                                ELSE alarm
    BY <1>14
  <2>2. p.snap \in Snapshot /\ Sound(p.snap, added) /\ p.serial \in [Scopes -> Nat]
    BY <1>1, <1>12, PromotionsKeep
  <2> DEFINE new == UpdateBackoff(p.snap, failed, retry, now)
  <2>3. new \in Snapshot /\ Sound(new, added)
    BY <1>1, <1>8, <1>9, <2>2, BackoffSound
  <2> HIDE DEF new
  <2>4. snap' = new /\ Persist("cycle", new)
        /\ alarm' = IF failed THEN [alarm EXCEPT !.oneShot = new.nextEligibleAt]
                    ELSE alarm
    BY <2>1 DEF new
  <2>5. alarm' \in Alarm
    <3>1. new.nextEligibleAt \in OptTime
      BY <2>3 DEF Snapshot
    <3>2. QED
      BY <1>2, <2>4, <3>1 DEF Alarm
  <2>6. saves' \in Seq(Save)
    BY <1>1, <2>3, <2>4, PersistAppends
  <2>7. cycle' \in Cycle /\ cycle'.pc = "recording"
    <3>1. cycle' = [polled EXCEPT !.pc = "recording",
                                  !.revs = [w \in Watches |-> None],
                                  !.failed = FALSE, !.retry = 0]
      BY <1>14
    <3>2. QED
      BY <1>10, <3>1 DEF Cycle, Pcs
  <2>8. TypeOK'
    BY <1>3, <2>1, <2>2, <2>3, <2>4, <2>5, <2>6, <2>7 DEF IInv, TypeOK
  <2>9. QED
    BY <1>1, <1>3, <2>3, <2>4, <2>7, <2>8, CycleStepKeeps DEF Waiting, InHand
<1>15. QED
  BY <1>11, <1>13, <1>14

-------------------------------------------------------------------------------
(* Delivery *)

\* The parts of a copy's name.
LEMMA CopiesTypes ==
    \A p \in Copies : p[1] \in EventIds /\ p[2] \in Channels
BY DEF Copies

\* Replacing a copy that may be delivered adds no work, whatever replaces it.
LEMMA WithCopyKeeps ==
    ASSUME NEW s \in Snapshot, NEW p \in Copies, NEW copy \in Copy,
           IsCurrentPendingChannel(s, p[1], p[2])
    PROVE  LET new == WithCopy(s, p, copy) IN
           new \in Snapshot /\ new.watches = s.watches /\ NoNewWork(s, new)
<1> DEFINE id == p[1]
           c == p[2]
           event == s.pending[id]
           changed == [event EXCEPT !.channels[c] = copy]
           pending == [s.pending EXCEPT ![id] = changed]
           new == WithCopy(s, p, copy)
<1>1. id \in EventIds /\ c \in Channels
  BY CopiesTypes
<1>2. event \in Event /\ IsPendingCopy(s, id, c)
  BY <1>1 DEF IsCurrentPendingChannel, IsPendingCopy, Snapshot
<1>3. s.pending \in [EventIds -> Event \cup {None}]
  BY DEF Snapshot
<1>4. new = [s EXCEPT !.pending = pending]
  BY DEF WithCopy
<1>5. changed \in Event /\ changed.rev = event.rev
      /\ changed.channels = [event.channels EXCEPT ![c] = copy]
  <2>1. event.channels \in [Channels -> Copy \cup {None}]
    BY <1>2 DEF Event
  <2> DEFINE channels == [event.channels EXCEPT ![c] = copy]
  <2>2. channels \in [Channels -> Copy \cup {None}]
    BY <1>1, <2>1
  <2>3. changed = [event EXCEPT !.channels = channels]
    OBVIOUS
  <2> HIDE DEF channels, changed, event
  <2>4. changed \in Event /\ changed.rev = event.rev /\ changed.channels = channels
    BY <1>2, <2>2, <2>3 DEF Event
  <2>5. QED
    BY <2>4 DEF channels
<1> HIDE DEF changed
<1>6. pending \in [EventIds -> Event \cup {None}] /\ pending[id] = changed
      /\ \A i \in EventIds : i # id => pending[i] = s.pending[i]
  BY <1>1, <1>3, <1>5
<1> HIDE DEF pending
<1>7. new \in Snapshot /\ new.watches = s.watches /\ new.pending = pending
  BY <1>4, <1>6 DEF Snapshot
<1> HIDE DEF new
<1>8. NoNewWork(s, new)
  <2> SUFFICES ASSUME NEW i \in EventIds, NEW d \in Channels,
                      IsPendingCopy(new, i, d)
               PROVE  /\ IsPendingCopy(s, i, d)
                      /\ new.pending[i].rev = s.pending[i].rev
    BY DEF NoNewWork
  <2>1. CASE i # id
    BY <1>6, <1>7, <2>1 DEF IsPendingCopy
  <2>2. CASE i = id
    <3>1. new.pending[i].rev = s.pending[i].rev
      BY <1>5, <1>6, <1>7, <2>2
    <3>2. CASE d = c
      BY <1>2, <2>2, <3>1, <3>2
    <3>3. CASE d # c
      <4>1. event.channels \in [Channels -> Copy \cup {None}]
        BY <1>2 DEF Event
      <4>2. new.pending[i].channels[d] = s.pending[i].channels[d]
        BY <1>5, <1>6, <1>7, <2>2, <3>3, <4>1
      <4>3. s.pending[i] # None
        BY <1>2, <2>2 DEF IsPendingCopy
      <4>4. QED
        BY <3>1, <4>2, <4>3 DEF IsPendingCopy
    <3>4. QED
      BY <3>2, <3>3
  <2>3. QED
    BY <2>1, <2>2
<1>9. QED
  BY <1>7, <1>8 DEF new

\* Delivery starts.
LEMMA StartDispatchKeeps ==
    ASSUME IInv, StartDispatch
    PROVE  IInv'
<1>1. /\ snap \in Snapshot /\ snap # None /\ ~loading /\ Sound(snap, added)
      /\ cycle \in Cycle /\ cycle.pc = "starting" /\ cycle.pc \notin Waiting
      /\ cycle.t \in Int
  BY WorkingCycle DEF StartDispatch, Waiting, Cycle
<1>2. UNCHANGED <<now, disk, alarm, loading, schedule, saves, gen, catalog, serial, added,
                  sends, spent>>
  BY DEF StartDispatch
<1>3. snap' \in Snapshot /\ Sound(snap', added)
  BY <1>1, ReconcileDurableDeliveryKeeps, SoundKept DEF StartDispatch
<1>4. cycle' \in Cycle /\ cycle'.pc = "dispatching"
  <2>1. Ledger(snap) \X Channels \in SUBSET Copies
    BY DEF Ledger, Copies
  <2>2. QED
    BY <1>1, <2>1 DEF StartDispatch, Cycle, Pcs
<1>5. TypeOK'
  BY <1>2, <1>3, <1>4 DEF IInv, TypeOK
<1>6. QED
  BY <1>1, <1>2, <1>3, <1>4, <1>5, CycleStepKeeps DEF InHand

\* An attempt is recorded.
LEMMA AttemptKeeps ==
    ASSUME IInv, Attempt
    PROVE  IInv'
<1>1. /\ snap \in Snapshot /\ snap # None /\ ~loading /\ Sound(snap, added)
      /\ cycle \in Cycle /\ cycle.pc = "dispatching" /\ cycle.pc \notin Waiting
      /\ cycle.t \in Int /\ saves \in Seq(Save) /\ cycle.todo \in SUBSET Copies
  BY WorkingCycle DEF Attempt, Waiting, Cycle
<1>2. UNCHANGED <<now, disk, alarm, loading, schedule, gen, catalog, serial, added, sends,
                  spent>>
  BY DEF Attempt
<1>3. PICK p \in Dispatchable :
        LET copy  == CopyAt(p)
            out   == copy.attempts >= MaxAttempts
            tried == [copy EXCEPT !.attempts = @ + 1,
                                  !.next = cycle.t + RetryDelay(copy.attempts + 1)]
            new   == WithCopy(snap, p, IF out THEN Closed(copy, "failed", cycle.t)
                                       ELSE tried)
        IN  /\ snap' = new
            /\ Persist("cycle", new)
            /\ cycle' = [cycle EXCEPT
                    !.pc   = IF out THEN "settling" ELSE "attempting",
                    !.todo = @ \ {p},
                    !.cur  = IF out THEN None ELSE p]
  BY DEF Attempt
<1> DEFINE copy  == CopyAt(p)
           out   == copy.attempts >= MaxAttempts
           tried == [copy EXCEPT !.attempts = @ + 1,
                                 !.next = cycle.t + RetryDelay(copy.attempts + 1)]
           after == IF out THEN Closed(copy, "failed", cycle.t) ELSE tried
           new   == WithCopy(snap, p, after)
<1>4. p \in Copies /\ IsCurrentPendingChannel(snap, p[1], p[2])
  BY <1>1 DEF Dispatchable, IsDispatchable
<1>5. copy \in Copy
  BY <1>1, <1>4, CopiesTypes DEF CopyAt, IsCurrentPendingChannel, Snapshot, Event
<1>6. after \in Copy
  <2>1. CASE out
    BY <1>1, <1>5, <2>1, ClosedType DEF CopyState
  <2>2. CASE ~out
    <3> HIDE DEF copy
    <3>1. copy.attempts \in Int /\ copy.attempts + 1 \in 0..MaxAttempts
      BY <1>5, <2>2, BoundsAssumption DEF Copy
    <3>2. cycle.t + RetryDelay(copy.attempts + 1) \in Int
      <4>1. copy.attempts + 1 \in Int
        BY <3>1
      <4>2. RetryDelay(copy.attempts + 1) \in Int
        BY <4>1, RetryDelayType
      <4>3. QED
        BY <1>1, <4>2
    <3>3. tried \in Copy
      BY <1>5, <3>1, <3>2 DEF Copy, OptTime
    <3>4. QED
      BY <2>2, <3>3
  <2>3. QED
    BY <2>1, <2>2
<1> HIDE DEF after, copy
<1>7. new \in Snapshot /\ new.watches = snap.watches /\ NoNewWork(snap, new)
  BY <1>1, <1>4, <1>6, WithCopyKeeps
<1>8. Sound(new, added)
  BY <1>1, <1>7, SoundKept
<1> HIDE DEF new, out
<1>9. /\ snap' = new
      /\ Persist("cycle", new)
      /\ cycle' = [cycle EXCEPT !.pc   = IF out THEN "settling" ELSE "attempting",
                                !.todo = @ \ {p},
                                !.cur  = IF out THEN None ELSE p]
  BY <1>3 DEF new, after, out, copy
<1>10. /\ cycle' \in Cycle /\ cycle'.pc \in {"settling", "attempting"}
       /\ cycle'.pc = "attempting" => cycle'.cur \in Copies
  <2>1. CASE out
    BY <1>1, <1>9, <2>1 DEF Cycle, Pcs
  <2>2. CASE ~out
    BY <1>1, <1>4, <1>9, <2>2 DEF Cycle, Pcs
  <2>3. QED
    BY <2>1, <2>2
<1>11. saves' \in Seq(Save)
  BY <1>1, <1>7, <1>9, PersistAppends
<1>12. TypeOK'
  BY <1>2, <1>7, <1>9, <1>10, <1>11 DEF IInv, TypeOK
<1>13. QED
  BY <1>1, <1>2, <1>7, <1>8, <1>9, <1>10, <1>12, CycleStepKeeps DEF Waiting, InHand

\* Delivery ends.
LEMMA EndDispatchKeeps ==
    ASSUME IInv, EndDispatch
    PROVE  IInv'
<1>1. /\ snap \in Snapshot /\ snap # None /\ ~loading /\ Sound(snap, added)
      /\ cycle \in Cycle /\ cycle.pc = "dispatching" /\ cycle.pc \notin Waiting
      /\ saves \in Seq(Save)
  BY WorkingCycle DEF EndDispatch, Waiting
<1>2. /\ UNCHANGED <<now, disk, alarm, snap, loading, schedule, gen, catalog,
                     serial, added, sends, spent>>
      /\ Persist("cycle", snap)
      /\ cycle' = [cycle EXCEPT !.pc = "closing", !.todo = {}]
  BY DEF EndDispatch
<1>3. cycle' \in Cycle /\ cycle'.pc = "closing"
  BY <1>1, <1>2 DEF Cycle, Pcs
<1>4. saves' \in Seq(Save)
  BY <1>1, <1>2, PersistAppends
<1>5. TypeOK'
  BY <1>2, <1>3, <1>4 DEF IInv, TypeOK
<1>6. QED
  BY <1>1, <1>2, <1>3, <1>5, CycleStepKeeps DEF Waiting, InHand

\* The cycle between two candidates.
LEMMA NextCandidateType ==
    ASSUME cycle \in Cycle
    PROVE  NextCandidate \in Cycle /\ NextCandidate.pc = "dispatching"
BY DEF NextCandidate, Cycle, Pcs

\* The candidate goes to an adapter only if it is still current.
LEMMA RecheckKeeps ==
    ASSUME IInv, Recheck
    PROVE  IInv'
<1>1. /\ snap \in Snapshot /\ snap # None /\ ~loading /\ Sound(snap, added)
      /\ cycle \in Cycle /\ cycle.pc = "rechecking" /\ cycle.pc \notin Waiting
      /\ cycle.cur \in Copies
  BY WorkingCycle DEF Recheck, Waiting, IInv, Coherent, InHand
<1>2. /\ UNCHANGED <<now, disk, alarm, snap, loading, schedule, saves, gen, catalog, serial,
                     added, sends, spent>>
      /\ cycle' = IF IsCurrent(cycle.cur) THEN [cycle EXCEPT !.pc = "resolving"]
                  ELSE NextCandidate
  BY DEF Recheck
<1>3. CASE IsCurrent(cycle.cur)
  <2>1. cycle' \in Cycle /\ cycle'.pc = "resolving" /\ cycle'.cur = cycle.cur
    BY <1>1, <1>2, <1>3 DEF Cycle, Pcs
  <2>2. TypeOK'
    BY <1>2, <2>1 DEF IInv, TypeOK
  <2>3. IsCurrent(cycle.cur)'
    BY <1>2, <1>3, <2>1 DEF IsCurrent
  <2>4. QED
    BY <1>1, <1>2, <2>1, <2>2, <2>3, CycleStepKeeps
<1>4. CASE ~IsCurrent(cycle.cur)
  <2>1. cycle' \in Cycle /\ cycle'.pc = "dispatching"
    BY <1>1, <1>2, <1>4, NextCandidateType
  <2>2. TypeOK'
    BY <1>2, <2>1 DEF IInv, TypeOK
  <2>3. QED
    BY <1>1, <1>2, <2>1, <2>2, CycleStepKeeps DEF InHand
<1>5. QED
  BY <1>3, <1>4

\* The outcome of an attempt gives a copy.
LEMMA SettledType ==
    ASSUME snap \in Snapshot, now \in Int, NEW p \in Copies, IsCurrent(p),
           NEW outcome, outcome.at \in Int
    PROVE  Settled(p, outcome) \in Copy
<1> DEFINE copy == CopyAt(p)
<1>1. copy \in Copy
  BY CopiesTypes DEF IsCurrent, CopyAt, IsCurrentPendingChannel, Snapshot, Event
<1>2. /\ Closed(copy, "delivered", now) \in Copy
      /\ Closed(copy, "failed", now) \in Copy
      /\ Closed(copy, "expired", now) \in Copy
  BY <1>1, ClosedType DEF CopyState
<1>3. [copy EXCEPT !.next = outcome.at] \in Copy
  BY <1>1 DEF Copy, OptTime
<1>4. [copy EXCEPT !.next = now + RetryDelay(copy.attempts)] \in Copy
  <2>1. copy.attempts \in Int
    BY <1>1, BoundsAssumption DEF Copy
  <2>2. now + RetryDelay(copy.attempts) \in Int
    BY <2>1, RetryDelayType
  <2>3. QED
    BY <1>1, <2>2 DEF Copy, OptTime
<1> HIDE DEF copy
<1>5. QED
  BY <1>2, <1>3, <1>4 DEF Settled, copy

\* An outcome is recorded, or dropped if the copy is no longer current.
LEMMA SettleKeeps ==
    ASSUME IInv, cycle.pc \in {"resolving", "sending", "answering"},
           NEW outcome, outcome.at \in Int, Settle(outcome),
           UNCHANGED <<now, disk, alarm, loading, schedule, gen, catalog, serial, added,
                       sends, spent>>
    PROVE  IInv'
<1>1. /\ snap \in Snapshot /\ snap # None /\ ~loading /\ Sound(snap, added)
      /\ cycle \in Cycle /\ cycle.pc \notin Waiting /\ cycle.cur \in Copies
      /\ now \in Int /\ saves \in Seq(Save)
  BY WorkingCycle DEF Waiting, IInv, Coherent, InHand
<1>2. CASE ~IsCurrent(cycle.cur)
  <2>1. cycle' = NextCandidate /\ snap' = snap /\ saves' = saves
    BY <1>2 DEF Settle
  <2>2. cycle' \in Cycle /\ cycle'.pc = "dispatching"
    BY <1>1, <2>1, NextCandidateType
  <2>3. TypeOK'
    BY <2>1, <2>2 DEF IInv, TypeOK
  <2>4. QED
    BY <1>1, <2>1, <2>2, <2>3, CycleStepKeeps DEF InHand
<1>3. CASE IsCurrent(cycle.cur)
  <2> DEFINE after == Settled(cycle.cur, outcome)
             new == WithCopy(snap, cycle.cur, after)
  <2>1. snap' = new /\ Persist("cycle", new)
        /\ cycle' = [NextCandidate EXCEPT !.pc = "settling"]
    BY <1>3 DEF Settle
  <2>2. after \in Copy
    BY <1>1, <1>3, SettledType
  <2> HIDE DEF after
  <2>3. new \in Snapshot /\ new.watches = snap.watches /\ NoNewWork(snap, new)
    BY <1>1, <1>3, <2>2, WithCopyKeeps DEF IsCurrent
  <2> HIDE DEF new
  <2>4. Sound(new, added)
    BY <1>1, <2>3, SoundKept
  <2>5. cycle' \in Cycle /\ cycle'.pc = "settling"
    BY <1>1, <2>1, NextCandidateType DEF Cycle, Pcs
  <2>6. saves' \in Seq(Save)
    BY <1>1, <2>1, <2>3, PersistAppends
  <2>7. TypeOK'
    BY <2>1, <2>3, <2>5, <2>6 DEF IInv, TypeOK
  <2>8. QED
    BY <1>1, <2>1, <2>3, <2>4, <2>5, <2>7, CycleStepKeeps DEF Waiting, InHand
<1>4. QED
  BY <1>2, <1>3

\* The adapter goes on with a delivery nobody has aborted.
LEMMA HandOnKeeps ==
    ASSUME IInv, cycle.pc \in {"resolving", "sending"}, TypeOK', ~cycle.aborted,
           NEW pc \in {"sending", "answering"},
           cycle' = [cycle EXCEPT !.pc = pc],
           UNCHANGED <<disk, snap, loading, saves, added>>
    PROVE  IInv'
<1>1. /\ snap \in Snapshot /\ snap # None /\ ~loading /\ Sound(snap, added)
      /\ cycle \in Cycle /\ cycle.pc \notin Waiting /\ cycle.cur \in Copies
  BY WorkingCycle DEF Waiting, IInv, Coherent, InHand
<1>2. cycle'.pc = pc /\ cycle'.cur = cycle.cur
  BY <1>1 DEF Cycle
<1>3. IsCurrent(cycle.cur)'
  BY <1>2 DEF IInv, InFlightDeliveryIsCurrent, IsCurrent
<1>4. QED
  BY <1>1, <1>2, <1>3, CycleStepKeeps

\* The adapter resolves, contacts, declines, hears from the provider or is aborted.
LEMMA DeliveryKeeps ==
    ASSUME IInv,
           \/ Resolve \/ ContactProvider \/ DeclineDelivery
           \/ ProviderAnswers \/ DeliveryAborted
    PROVE  IInv'
<1>1. now \in Int /\ \A kind : Outcome(kind).at \in Int
  BY DEF IInv, TypeOK, Outcome
<1>2. CASE Resolve
  <2>1. CASE ~cycle.aborted /\ Resolvable(cycle.cur)
    <3>1. cycle' = [cycle EXCEPT !.pc = "sending"] /\ snap' = snap /\ saves' = saves
          /\ cycle.pc = "resolving"
      BY <1>2, <2>1 DEF Resolve
    <3>2. cycle' \in Cycle
      BY <3>1 DEF IInv, TypeOK, Cycle, Pcs
    <3>3. TypeOK'
      BY <1>2, <3>1, <3>2 DEF IInv, TypeOK, Resolve
    <3>4. QED
      BY <1>2, <2>1, <3>1, <3>3, HandOnKeeps DEF Resolve
  <2>2. CASE ~(~cycle.aborted /\ Resolvable(cycle.cur))
    BY <1>1, <1>2, <2>2, SettleKeeps DEF Resolve
  <2>3. QED
    BY <2>1, <2>2
<1>3. CASE ContactProvider
  <2>1. cycle' = [cycle EXCEPT !.pc = "answering"] /\ cycle.pc = "sending"
        /\ ~cycle.aborted /\ sends' = [sends EXCEPT ![cycle.cur] = @ + 1]
    BY <1>3 DEF ContactProvider
  <2>2. cycle' \in Cycle
    BY <2>1 DEF IInv, TypeOK, Cycle, Pcs
  <2>3. sends' \in [Copies -> Nat]
    <3>1. sends \in [Copies -> Nat] /\ cycle.cur \in Copies
      BY <2>1 DEF IInv, TypeOK, Coherent, InHand
    <3>2. QED
      BY <2>1, <3>1
  <2>4. TypeOK'
    BY <1>3, <2>2, <2>3 DEF IInv, TypeOK, ContactProvider
  <2>5. QED
    BY <1>3, <2>1, <2>4, HandOnKeeps DEF ContactProvider
<1>4. CASE DeclineDelivery
  BY <1>1, <1>4, SettleKeeps DEF DeclineDelivery
<1>5. CASE ProviderAnswers
  <2>1. PICK outcome \in ProviderOutcomes(cycle.cur[2]) : Settle(outcome)
    BY <1>5 DEF ProviderAnswers
  <2>2. outcome.at \in Int
    BY <1>1, <2>1, EnvironmentAssumption DEF ProviderOutcomes
  <2>3. QED
    BY <1>5, <2>1, <2>2, SettleKeeps DEF ProviderAnswers
<1>6. CASE DeliveryAborted
  BY <1>1, <1>6, SettleKeeps DEF DeliveryAborted
<1>7. QED
  BY <1>2, <1>3, <1>4, <1>5, <1>6
-------------------------------------------------------------------------------
(* User edits *)

\* What every edit has to show: the work of the other watches stays deliverable,
\* and a delivery of an edited watch is aborted in the same step.
LEMMA EditKeeps ==
    ASSUME IInv, NEW ws \in SUBSET Watches, NEW new \in Snapshot, Edit(ws, new),
           added \subseteq added', added' \subseteq Watches, Sound(new, added'),
           \A id \in EventIds, c \in Channels :
                id[1][1] \notin ws /\ IsCurrentPendingChannel(snap, id, c)
                => IsCurrentPendingChannel(new, id, c)
    PROVE  IInv'
<1>1. /\ snap' = new /\ snap # None /\ ~loading
      /\ Persist("edit", new)
      /\ gen' = [w \in Watches |-> IF w \in ws THEN gen[w] + 1 ELSE gen[w]]
      /\ spent' = [spent EXCEPT !.edits = @ + 1]
      /\ UNCHANGED <<now, disk, alarm, loading, schedule, catalog, serial, sends>>
  BY DEF Edit, Ready
<1> DEFINE aborted == \/ cycle.aborted
                      \/ /\ cycle.pc \in {"resolving", "sending", "answering"}
                         /\ cycle.cur[1][1][1] \in ws
<1>2. cycle' = [cycle EXCEPT !.aborted = aborted]
  BY DEF Edit
<1>3. aborted \in BOOLEAN
  OBVIOUS
<1>4. /\ cycle \in Cycle /\ saves \in Seq(Save) /\ SavesSound /\ CycleSaves
      /\ gen \in [Watches -> Nat]
      /\ spent \in [edits : Nat, crashes : Nat, faults : Nat, setBacks : Nat]
      /\ Sound(disk, added)
  BY DEF IInv, TypeOK, AllSound
<1>5. /\ cycle' \in Cycle /\ cycle'.pc = cycle.pc /\ cycle'.cur = cycle.cur
      /\ cycle'.aborted = aborted
  <2> HIDE DEF aborted
  <2>1. QED
    BY <1>2, <1>3, <1>4 DEF Cycle
<1>6. TypeOK'
  <2>1. saves' \in Seq(Save)
    BY <1>1, <1>4, PersistAppends
  <2>2. gen' \in [Watches -> Nat]
    BY <1>1, <1>4
  <2>3. spent' \in [edits : Nat, crashes : Nat, faults : Nat, setBacks : Nat]
    BY <1>1, <1>4
  <2>4. QED
    BY <1>1, <1>5, <2>1, <2>2, <2>3 DEF IInv, TypeOK
<1>7. AllSound'
  <2>1. SavesSound'
    BY <1>1, <1>4, PersistKeepsSound
  <2>2. Sound(disk', added')
    BY <1>1, <1>4 DEF Sound
  <2>3. QED
    BY <1>1, <2>1, <2>2 DEF AllSound
<1>8. CycleSaves'
  BY <1>1, <1>4, <1>5, PersistKeepsCycleSaves
<1>9. Coherent'
  BY <1>1, <1>5, NoneIsNoRecord DEF IInv, Coherent
<1>10. InFlightDeliveryIsCurrent'
  <2> SUFFICES ASSUME cycle'.pc \in {"resolving", "sending", "answering"},
                      ~cycle'.aborted
               PROVE  IsCurrentPendingChannel(new, cycle.cur[1], cycle.cur[2])
    BY <1>1, <1>5 DEF InFlightDeliveryIsCurrent, IsCurrent
  <2>1. ~cycle.aborted /\ cycle.cur[1][1][1] \notin ws
    BY <1>5
  <2>2. IsCurrentPendingChannel(snap, cycle.cur[1], cycle.cur[2])
    BY <1>5, <2>1 DEF IInv, InFlightDeliveryIsCurrent, IsCurrent
  <2>3. cycle.cur \in Copies
    BY <1>5 DEF IInv, Coherent, InHand
  <2>4. QED
    BY <2>1, <2>2, <2>3, CopiesTypes
<1>11. QED
  BY <1>6, <1>7, <1>8, <1>9, <1>10 DEF IInv

\* What an edit finds in memory.
LEMMA Editable ==
    ASSUME IInv, snap # None
    PROVE  /\ snap \in Snapshot /\ Sound(snap, added) /\ now \in Int
           /\ snap.watches \in [Watches -> Watch \cup {None}]
           /\ added \subseteq Watches
BY DEF IInv, TypeOK, AllSound, Snapshot

\* A new watch has no work yet, as its id was never used.
LEMMA AddWatchKeeps ==
    ASSUME IInv, NEW w \in Watches, NEW form \in WatchForms, AddWatch(w, form)
    PROVE  IInv'
<1> DEFINE watch == WithRev(form, now)
           watches == [snap.watches EXCEPT ![w] = watch]
           new == [snap EXCEPT !.watches[w] = watch]
<1>1. /\ snap # None /\ w \notin added /\ added' = added \cup {w}
      /\ Edit({w}, new)
  BY DEF AddWatch, Edit, Ready
<1>2. /\ snap \in Snapshot /\ Sound(snap, added) /\ now \in Int
      /\ snap.watches \in [Watches -> Watch \cup {None}]
      /\ added \subseteq Watches
  BY <1>1, Editable
<1>3. watch \in Watch
  BY <1>2, WithRevType
<1>4. new = [snap EXCEPT !.watches = watches]
  OBVIOUS
<1> HIDE DEF watch, new
<1>5. watches \in [Watches -> Watch \cup {None}]
      /\ \A v \in Watches : v # w => watches[v] = snap.watches[v]
  BY <1>2, <1>3
<1> HIDE DEF watches
<1>6. new \in Snapshot /\ new.watches = watches /\ new.pending = snap.pending
  BY <1>2, <1>4, <1>5 DEF Snapshot
<1>7. snap.watches[w] = None
  BY <1>1, <1>2 DEF Sound
<1>8. \A id \in EventIds, c \in Channels :
        id[1][1] # w /\ IsCurrentPendingChannel(snap, id, c)
        => IsCurrentPendingChannel(new, id, c)
  BY <1>5, <1>6, ScopeTypes DEF IsCurrentPendingChannel
<1>9. Authorised(new)
  <2> SUFFICES ASSUME NEW id \in EventIds, NEW c \in Channels,
                      IsPendingCopy(new, id, c)
               PROVE  IsCurrentPendingChannel(new, id, c)
    BY DEF Authorised, IsPendingCopy
  <2>1. IsCurrentPendingChannel(snap, id, c)
    BY <1>2, <1>6 DEF IsPendingCopy, Sound, Authorised
  <2>2. id[1][1] # w
    BY <1>7, <2>1 DEF IsCurrentPendingChannel
  <2>3. QED
    BY <1>8, <2>1, <2>2
<1>10. Sound(new, added')
  BY <1>1, <1>2, <1>5, <1>6, <1>9 DEF Sound
<1>11. {w} \in SUBSET Watches /\ added \subseteq added' /\ added' \subseteq Watches
  BY <1>1, <1>2
<1>12. \A id \in EventIds, c \in Channels :
        id[1][1] \notin {w} /\ IsCurrentPendingChannel(snap, id, c)
        => IsCurrentPendingChannel(new, id, c)
  BY <1>8
<1>13. QED
  BY <1>1, <1>6, <1>10, <1>11, <1>12, EditKeeps

\* The watches of ws are replaced by other revisions, then pruned: no copy of an
\* earlier revision stays pending.
LEMMA ReplacementKeeps ==
    ASSUME IInv, snap # None, NEW ws \in SUBSET Watches,
           NEW watches \in [Watches -> Watch \cup {None}],
           \A w \in ws : /\ snap.watches[w] # None /\ watches[w] # None
                         /\ watches[w].rev # snap.watches[w].rev,
           \A w \in Watches \ ws : watches[w] = snap.watches[w],
           Edit(ws, PruneForWatchRevision([snap EXCEPT !.watches = watches], ws, now)),
           UNCHANGED added
    PROVE  IInv'
<1> DEFINE mid == [snap EXCEPT !.watches = watches]
           new == PruneForWatchRevision(mid, ws, now)
<1>1. /\ snap \in Snapshot /\ Sound(snap, added) /\ now \in Int
      /\ added \subseteq Watches
  BY Editable
<1>2. mid \in Snapshot /\ mid.watches = watches /\ mid.pending = snap.pending
  BY <1>1 DEF Snapshot
<1> HIDE DEF mid
<1>3. /\ new \in Snapshot
      /\ new.watches = watches
      /\ NoNewWork(mid, new)
      /\ \A id \in EventIds, c \in Channels :
            IF id[1][1] \in ws
            THEN IsPendingCopy(new, id, c) =>
                    /\ c \in watches[id[1][1]].channels
                    /\ snap.pending[id].rev = watches[id[1][1]].rev
            ELSE IsPendingCopy(mid, id, c) =>
                    /\ IsPendingCopy(new, id, c)
                    /\ new.pending[id].rev = snap.pending[id].rev
  BY <1>1, <1>2, PruneForWatchRevisionKeeps
<1> HIDE DEF new
<1>4. \A id \in EventIds, c \in Channels :
        IsPendingCopy(new, id, c) =>
            /\ IsPendingCopy(snap, id, c)
            /\ new.pending[id].rev = snap.pending[id].rev
            /\ IsCurrentPendingChannel(snap, id, c)
  <2>1. \A id \in EventIds, c \in Channels :
            IsPendingCopy(mid, id, c) <=> IsPendingCopy(snap, id, c)
    BY <1>2 DEF IsPendingCopy
  <2>2. \A id \in EventIds, c \in Channels :
            IsPendingCopy(snap, id, c) => IsCurrentPendingChannel(snap, id, c)
    BY <1>1 DEF IsPendingCopy, Sound, Authorised
  <2>3. QED
    BY <1>2, <1>3, <2>1, <2>2 DEF NoNewWork
<1>5. ASSUME NEW id \in EventIds, NEW c \in Channels, IsPendingCopy(new, id, c)
      PROVE  id[1][1] \notin ws
  <2>1. snap.pending[id].rev = snap.watches[id[1][1]].rev
    BY <1>4, <1>5 DEF IsCurrentPendingChannel
  <2>2. QED
    BY <1>3, <1>5, <2>1
<1>6. \A id \in EventIds, c \in Channels :
        id[1][1] \notin ws /\ IsCurrentPendingChannel(snap, id, c)
        => IsCurrentPendingChannel(new, id, c)
  <2> SUFFICES ASSUME NEW id \in EventIds, NEW c \in Channels,
                      id[1][1] \notin ws, IsCurrentPendingChannel(snap, id, c)
               PROVE  IsCurrentPendingChannel(new, id, c)
    OBVIOUS
  <2>1. IsPendingCopy(mid, id, c)
    BY <1>2 DEF IsPendingCopy, IsCurrentPendingChannel
  <2>2. IsPendingCopy(new, id, c) /\ new.pending[id].rev = snap.pending[id].rev
    BY <1>3, <2>1
  <2>3. new.watches[id[1][1]] = snap.watches[id[1][1]]
    BY <1>3, ScopeTypes
  <2>4. QED
    BY <2>2, <2>3 DEF IsPendingCopy, IsCurrentPendingChannel
<1>7. Authorised(new)
  BY <1>4, <1>5, <1>6 DEF Authorised, IsPendingCopy
<1>8. Sound(new, added')
  <2>1. \A w \in Watches : new.watches[w] # None => snap.watches[w] # None
    BY <1>3
  <2>2. QED
    BY <1>1, <1>7, <2>1 DEF Sound
<1>9. Edit(ws, new)
  BY DEF new, mid
<1>10. QED
  BY <1>1, <1>3, <1>6, <1>8, <1>9, EditKeeps

\* A replacement's revision is later than the one it replaces, whatever the clock
\* says.
LEMMA NextRevIsLater ==
    ASSUME snap \in Snapshot, now \in Int, NEW w \in Watches,
           snap.watches[w] # None
    PROVE  NextRev(w) \in Int /\ NextRev(w) > snap.watches[w].rev
<1>1. snap.watches[w].rev \in Int
  BY DEF Snapshot, Watch
<1>2. QED
  BY <1>1 DEF NextRev, Greatest

\* One watch is replaced.
LEMMA ReplacedKeeps ==
    ASSUME IInv, snap # None, NEW w \in Watches, NEW watch \in Watch,
           snap.watches[w] # None, watch.rev = NextRev(w),
           Edit({w}, Replaced(snap, w, watch)), UNCHANGED added
    PROVE  IInv'
<1> DEFINE watches == [snap.watches EXCEPT ![w] = watch]
<1>1. /\ snap \in Snapshot /\ now \in Int
      /\ snap.watches \in [Watches -> Watch \cup {None}]
  BY Editable
<1>2. watches \in [Watches -> Watch \cup {None}]
      /\ watches[w] = watch
      /\ \A v \in Watches \ {w} : watches[v] = snap.watches[v]
  BY <1>1
<1>3. watch # None /\ watch.rev # snap.watches[w].rev
  <2>1. NextRev(w) \in Int /\ NextRev(w) > snap.watches[w].rev
        /\ snap.watches[w].rev \in Int
    BY <1>1, NextRevIsLater DEF Watch
  <2>2. QED
    BY <2>1, NoneIsNoRecord
<1>4. Edit({w}, PruneForWatchRevision([snap EXCEPT !.watches = watches], {w}, now))
  BY DEF Replaced
<1> HIDE DEF watches
<1>5. QED
  BY <1>2, <1>3, <1>4, ReplacementKeeps

\* The user edits a watch.
LEMMA ReplaceWatchKeeps ==
    ASSUME IInv, NEW w \in Watches, NEW form \in WatchForms, ReplaceWatch(w, form)
    PROVE  IInv'
<1>1. snap # None /\ snap.watches[w] # None /\ UNCHANGED added
      /\ Edit({w}, Replaced(snap, w, WithRev(form, NextRev(w))))
  BY DEF ReplaceWatch
<1>2. NextRev(w) \in Int
  BY <1>1, Editable, NextRevIsLater
<1>3. WithRev(form, NextRev(w)) \in Watch
      /\ WithRev(form, NextRev(w)).rev = NextRev(w)
  BY <1>2, WithRevType DEF WithRev
<1>4. QED
  BY <1>1, <1>3, ReplacedKeeps

\* The user switches a watch on or off.
LEMMA SetWatchEnabledKeeps ==
    ASSUME IInv, NEW w \in Watches, NEW enabled \in BOOLEAN,
           SetWatchEnabled(w, enabled)
    PROVE  IInv'
<1> DEFINE watch == [snap.watches[w] EXCEPT !.enabled = enabled, !.rev = NextRev(w)]
<1>1. snap # None /\ snap.watches[w] # None /\ UNCHANGED added
      /\ Edit({w}, Replaced(snap, w, watch))
  BY DEF SetWatchEnabled
<1>2. NextRev(w) \in Int /\ snap.watches[w] \in Watch
  BY <1>1, Editable, NextRevIsLater
<1>3. watch \in Watch /\ watch.rev = NextRev(w)
  BY <1>2 DEF Watch
<1> HIDE DEF watch
<1>4. QED
  BY <1>1, <1>3, ReplacedKeeps

\* Personal Telegram is switched off for every watch that has it.
LEMMA DisablePersonalTelegramKeeps ==
    ASSUME IInv, DisablePersonalTelegramForAllWatches
    PROVE  IInv'
<1> DEFINE watches == [w \in Watches |->
                IF w \in TelegramWatches
                THEN [snap.watches[w] EXCEPT !.channels = @ \ {Telegram},
                                             !.rev = NextRev(w)]
                ELSE snap.watches[w]]
<1>1. /\ snap # None /\ UNCHANGED added
      /\ Edit(TelegramWatches,
              PruneForWatchRevision([snap EXCEPT !.watches = watches],
                                    TelegramWatches, now))
  BY DEF DisablePersonalTelegramForAllWatches
<1>2. /\ snap \in Snapshot /\ now \in Int
      /\ snap.watches \in [Watches -> Watch \cup {None}]
  BY <1>1, Editable
<1>3. TelegramWatches \in SUBSET Watches
      /\ \A w \in TelegramWatches : snap.watches[w] # None
  BY DEF TelegramWatches
<1>4. ASSUME NEW w \in TelegramWatches
      PROVE  /\ watches[w] \in Watch /\ watches[w] # None
             /\ watches[w].rev # snap.watches[w].rev
  <2>1. w \in Watches /\ snap.watches[w] \in Watch
    BY <1>2, <1>3
  <2>2. NextRev(w) \in Int /\ NextRev(w) > snap.watches[w].rev
        /\ snap.watches[w].rev \in Int
    BY <1>2, <1>3, <2>1, NextRevIsLater DEF Watch
  <2> DEFINE watch == [snap.watches[w] EXCEPT !.channels = @ \ {Telegram},
                                              !.rev = NextRev(w)]
  <2>3. watch \in Watch /\ watch.rev = NextRev(w)
    BY <2>1, <2>2 DEF Watch
  <2>4. watches[w] = watch
    BY <2>1
  <2> HIDE DEF watch, watches
  <2>5. QED
    BY <2>2, <2>3, <2>4, NoneIsNoRecord
<1>5. \A w \in Watches \ TelegramWatches : watches[w] = snap.watches[w]
  OBVIOUS
<1>6. watches \in [Watches -> Watch \cup {None}]
  <2>1. \A w \in Watches : watches[w] \in Watch \cup {None}
    BY <1>2, <1>4, <1>5
  <2>2. QED
    BY <2>1
<1> HIDE DEF watches
<1>7. QED
  BY <1>1, <1>3, <1>4, <1>5, <1>6, ReplacementKeeps

\* The user deletes a watch.
LEMMA DeleteWatchKeeps ==
    ASSUME IInv, NEW w \in Watches, DeleteWatch(w)
    PROVE  IInv'
<1> DEFINE new == WithoutWatch(snap, w)
<1>1. snap # None /\ UNCHANGED added /\ Edit({w}, new)
  BY DEF DeleteWatch
<1>2. /\ snap \in Snapshot /\ Sound(snap, added) /\ added \subseteq Watches
      /\ snap.watches \in [Watches -> Watch \cup {None}]
  BY <1>1, Editable
<1>3. /\ new \in Snapshot
      /\ new.watches = [snap.watches EXCEPT ![w] = None]
      /\ \A id \in EventIds :
            new.pending[id] = IF id[1][1] = w THEN None ELSE snap.pending[id]
  BY <1>2, WithoutWatchKeeps
<1> HIDE DEF new
<1>4. \A v \in Watches : IF v = w THEN new.watches[v] = None
                         ELSE new.watches[v] = snap.watches[v]
  BY <1>2, <1>3
<1>5. \A id \in EventIds, c \in Channels :
        id[1][1] # w /\ IsCurrentPendingChannel(snap, id, c)
        => IsCurrentPendingChannel(new, id, c)
  BY <1>3, <1>4, ScopeTypes DEF IsCurrentPendingChannel
<1>6. Authorised(new)
  <2> SUFFICES ASSUME NEW id \in EventIds, NEW c \in Channels,
                      IsPendingCopy(new, id, c)
               PROVE  IsCurrentPendingChannel(new, id, c)
    BY DEF Authorised, IsPendingCopy
  <2>1. id[1][1] # w /\ new.pending[id] = snap.pending[id]
    BY <1>3 DEF IsPendingCopy
  <2>2. IsCurrentPendingChannel(snap, id, c)
    BY <1>2, <2>1 DEF IsPendingCopy, Sound, Authorised
  <2>3. QED
    BY <1>5, <2>1, <2>2
<1>7. Sound(new, added')
  BY <1>1, <1>2, <1>4, <1>6 DEF Sound
<1>8. QED
  BY <1>1, <1>2, <1>3, <1>5, <1>7, EditKeeps

\* The user clears the monitor's data.
LEMMA ResetKeeps ==
    ASSUME IInv, Reset
    PROVE  IInv'
<1>1. /\ snap' = EmptySnapshot /\ Persist("reset", EmptySnapshot)
      /\ gen' = [w \in Watches |-> 0] /\ alarm' = NoAlarm
      /\ spent' = [spent EXCEPT !.edits = @ + 1]
      /\ UNCHANGED <<now, disk, loading, schedule, catalog, serial, added, sends>>
  BY DEF Reset
<1> DEFINE aborted == \/ cycle.aborted
                      \/ cycle.pc \in {"resolving", "sending", "answering"}
<1>2. cycle' = [cycle EXCEPT !.aborted = aborted]
  BY DEF Reset
<1>3. aborted \in BOOLEAN
  OBVIOUS
<1>4. /\ cycle \in Cycle /\ saves \in Seq(Save) /\ SavesSound /\ CycleSaves
      /\ spent \in [edits : Nat, crashes : Nat, faults : Nat, setBacks : Nat]
      /\ Sound(disk, added)
  BY DEF IInv, TypeOK, AllSound
<1>5. /\ cycle' \in Cycle /\ cycle'.pc = cycle.pc /\ cycle'.cur = cycle.cur
      /\ cycle'.aborted = aborted
  <2> HIDE DEF aborted
  <2>1. QED
    BY <1>2, <1>3, <1>4 DEF Cycle
<1>6. EmptySnapshot \in Snapshot /\ Sound(EmptySnapshot, added)
  BY EmptySnapshotType, EmptySnapshotIsSound
<1>7. TypeOK'
  <2>1. saves' \in Seq(Save)
    BY <1>1, <1>4, <1>6, PersistAppends
  <2>2. gen' \in [Watches -> Nat] /\ alarm' \in Alarm
    BY <1>1 DEF NoAlarm, Alarm, OptTime
  <2>3. spent' \in [edits : Nat, crashes : Nat, faults : Nat, setBacks : Nat]
    BY <1>1, <1>4
  <2>4. QED
    BY <1>1, <1>5, <1>6, <2>1, <2>2, <2>3 DEF IInv, TypeOK
<1>8. AllSound'
  <2>1. SavesSound'
    BY <1>1, <1>4, <1>6, PersistKeepsSound
  <2>2. QED
    BY <1>1, <1>4, <1>6, <2>1 DEF AllSound
<1>9. CycleSaves'
  BY <1>1, <1>4, <1>5, <1>6, PersistKeepsCycleSaves
<1>10. Coherent'
  BY <1>1, <1>5, <1>6, NoneIsNoRecord DEF IInv, Coherent
<1>11. InFlightDeliveryIsCurrent'
  BY <1>5 DEF InFlightDeliveryIsCurrent
<1>12. QED
  BY <1>7, <1>8, <1>9, <1>10, <1>11 DEF IInv


-------------------------------------------------------------------------------
(* The record: attempts and verdicts *)

(***************************************************************************)
(* ContactsAreOnRecord and TerminalIsFinal are not inductive either.  An   *)
(* attempt is on record because its save precedes the contact, so the      *)
(* invariant follows the attempt from memory through the queue to the      *)
(* disk; and a verdict stays because the queue is written in order, so     *)
(* that every snapshot keeps the verdicts of all that were taken before    *)
(* it: disk, then the queue, then memory.                                  *)
(***************************************************************************)

Attempts(s, p) == s.pending[p[1]].channels[p[2]].attempts

\* s knows no event that was never queued, and no fewer attempts than contacts.
Recorded(s, numbers, counts) ==
    /\ \A id \in EventIds : s.pending[id] # None => id[2] <= numbers[id[1]]
    /\ \A p \in Copies : Holds(s, p) =>
        /\ Rests(s.pending[p[1]].channels[p[2]])
        /\ counts[p] <= Attempts(s, p)

AllRecorded ==
    /\ Recorded(disk, serial, sends)
    /\ snap # None => Recorded(snap, serial, sends)
    /\ \A i \in 1..Len(saves) : Recorded(saves[i].snap, serial, sends)

\* Contacts are bounded, and concern events that were queued.
ContactsBounded ==
    \A p \in Copies :
        /\ sends[p] <= MaxAttempts
        /\ p[1][2] > serial[p[1][1]] => sends[p] = 0

\* s has room for one more contact of p.
Allows(s, p, counts) == Holds(s, p) => counts[p] + 1 <= Attempts(s, p)

\* From the save of an attempt on, the contact to come is on record.
AttemptIsSaved ==
    /\ cycle.pc = "attempting" =>
        /\ Allows(snap, cycle.cur, sends)
        /\ \A i, j \in 1..Len(saves) :
            saves[i].by = "cycle" /\ i <= j => Allows(saves[j].snap, cycle.cur, sends)
    /\ cycle.pc \in {"rechecking", "resolving", "sending"} =>
        /\ Allows(disk, cycle.cur, sends)
        /\ Allows(snap, cycle.cur, sends)
        /\ \A j \in 1..Len(saves) : Allows(saves[j].snap, cycle.cur, sends)

\* Each snapshot keeps the verdicts of those before it.
VerdictsInOrder ==
    /\ \A i \in 1..Len(saves) : KeepsFinal(disk, saves[i].snap)
    /\ \A i, j \in 1..Len(saves) : i < j => KeepsFinal(saves[i].snap, saves[j].snap)
    /\ snap # None =>
        /\ KeepsFinal(disk, snap)
        /\ \A i \in 1..Len(saves) : KeepsFinal(saves[i].snap, snap)

\* While a snapshot is loaded only resets are queued.
OnlyResetsWhileLoading ==
    loading => \A i \in 1..Len(saves), id \in EventIds : saves[i].snap.pending[id] = None

RInv ==
    /\ AllRecorded
    /\ ContactsBounded
    /\ AttemptIsSaved
    /\ VerdictsInOrder
    /\ OnlyResetsWhileLoading

\* The ledger in memory advances, and only events never queued before are new.
LedgerAdvances ==
    /\ \A x \in Scopes : serial[x] <= serial'[x]
    /\ Working => AdvancesWith(snap, snap', serial, serial')

\* What every step has to show: the record stays, and no verdict is lost.
KeepsRecord ==
    /\ RInv'
    /\ LedgerAdvances
    /\ KeepsFinal(disk, disk')
    /\ Working => KeepsFinal(snap, snap')

\* A snapshot keeps its own verdicts.
LEMMA KeepsOwnFinal ==
    ASSUME NEW s
    PROVE  KeepsFinal(s, s)
BY DEF KeepsFinal

\* The parts of a copy's name.
LEMMA CopyNames ==
    \A p \in Copies : /\ p[1] \in EventIds /\ p[2] \in Channels
                      /\ p[1][1] \in Scopes /\ p[1][2] \in Int
BY BoundsAssumption DEF Copies, EventIds

\* The attempts of a copy are counted.
LEMMA AttemptsType ==
    ASSUME NEW s \in Snapshot, NEW p \in Copies, Holds(s, p)
    PROVE  /\ s.pending[p[1]] \in Event
           /\ s.pending[p[1]].channels[p[2]] \in Copy
           /\ Attempts(s, p) \in Int /\ 0 <= Attempts(s, p)
           /\ Attempts(s, p) <= MaxAttempts
<1>1. p[1] \in EventIds /\ p[2] \in Channels
  BY CopyNames
<1>2. s.pending[p[1]] \in Event
  BY <1>1 DEF Holds, Snapshot
<1>3. s.pending[p[1]].channels[p[2]] \in Copy
  BY <1>1, <1>2 DEF Holds, Event
<1>4. QED
  BY <1>2, <1>3, BoundsAssumption DEF Copy, Attempts

\* What an advance keeps of each copy.
LEMMA CopyOfAdvance ==
    ASSUME NEW s \in Snapshot, NEW new \in Snapshot,
           NEW numbers, NEW later, AdvancesWith(s, new, numbers, later),
           NEW p \in Copies, Holds(new, p)
    PROVE  \/ /\ Holds(s, p)
              /\ CopyAdvances(s.pending[p[1]].channels[p[2]],
                              new.pending[p[1]].channels[p[2]])
           \/ /\ numbers[p[1][1]] < p[1][2] /\ p[1][2] <= later[p[1][1]]
              /\ Rests(new.pending[p[1]].channels[p[2]])
BY CopyNames DEF AdvancesWith, EventAdvances, EventRests, Holds

\* An advance of a recorded snapshot is recorded.
LEMMA RecordedAdvances ==
    ASSUME NEW s \in Snapshot, NEW new \in Snapshot,
           NEW numbers \in [Scopes -> Nat], NEW later \in [Scopes -> Nat],
           \A x \in Scopes : numbers[x] <= later[x],
           NEW counts \in [Copies -> Nat],
           \A p \in Copies : p[1][2] > numbers[p[1][1]] => counts[p] = 0,
           Recorded(s, numbers, counts), AdvancesWith(s, new, numbers, later)
    PROVE  Recorded(new, later, counts)
<1>1. ASSUME NEW id \in EventIds, new.pending[id] # None
      PROVE  id[2] <= later[id[1]]
  <2>1. /\ id[1] \in Scopes /\ id[2] \in Int
        /\ numbers[id[1]] \in Nat /\ later[id[1]] \in Nat
    BY BoundsAssumption DEF EventIds
  <2>2. s.pending[id] # None => id[2] <= numbers[id[1]]
    BY DEF Recorded
  <2>3. s.pending[id] # None \/ id[2] <= later[id[1]]
    BY <1>1 DEF AdvancesWith
  <2>4. QED
    BY <2>1, <2>2, <2>3
<1>2. ASSUME NEW p \in Copies, Holds(new, p)
      PROVE  /\ Rests(new.pending[p[1]].channels[p[2]])
             /\ counts[p] <= Attempts(new, p)
  <2>1. Attempts(new, p) \in Int /\ 0 <= Attempts(new, p) /\ counts[p] \in Nat
    BY <1>2, AttemptsType
  <2>2. CASE /\ Holds(s, p)
             /\ CopyAdvances(s.pending[p[1]].channels[p[2]],
                             new.pending[p[1]].channels[p[2]])
    <3>1. Rests(s.pending[p[1]].channels[p[2]]) /\ counts[p] <= Attempts(s, p)
      BY <2>2 DEF Recorded
    <3>2. Attempts(s, p) \in Int
      BY <2>2, AttemptsType
    <3>3. Attempts(new, p) >= Attempts(s, p)
          /\ Rests(new.pending[p[1]].channels[p[2]])
      BY <2>2, <3>1 DEF CopyAdvances, Attempts
    <3>4. QED
      BY <2>1, <3>1, <3>2, <3>3
  <2>3. CASE /\ numbers[p[1][1]] < p[1][2]
             /\ Rests(new.pending[p[1]].channels[p[2]])
    <3>1. p[1][2] > numbers[p[1][1]]
      BY <2>3, CopyNames
    <3>2. QED
      BY <2>1, <2>3, <3>1
  <2>4. QED
    BY <1>2, <2>2, <2>3, CopyOfAdvance
<1>3. QED
  BY <1>1, <1>2 DEF Recorded

\* A recorded snapshot stays so while events are queued elsewhere.
LEMMA RecordedLater ==
    ASSUME NEW s \in Snapshot,
           NEW numbers \in [Scopes -> Nat], NEW later \in [Scopes -> Nat],
           \A x \in Scopes : numbers[x] <= later[x],
           NEW counts, Recorded(s, numbers, counts)
    PROVE  Recorded(s, later, counts)
<1>1. ASSUME NEW id \in EventIds, s.pending[id] # None
      PROVE  id[2] <= later[id[1]]
  <2>1. /\ id[1] \in Scopes /\ id[2] \in Int
        /\ numbers[id[1]] \in Nat /\ later[id[1]] \in Nat
    BY BoundsAssumption DEF EventIds
  <2>2. id[2] <= numbers[id[1]] /\ numbers[id[1]] <= later[id[1]]
    BY <1>1, <2>1 DEF Recorded
  <2>3. QED
    BY <2>1, <2>2
<1>2. QED
  BY <1>1 DEF Recorded

\* An advance keeps the verdicts that its source kept of an earlier snapshot.
LEMMA FinalAdvances ==
    ASSUME NEW earlier \in Snapshot, NEW s \in Snapshot, NEW new \in Snapshot,
           NEW numbers \in [Scopes -> Nat], NEW later, NEW counts,
           Recorded(earlier, numbers, counts), Recorded(s, numbers, counts),
           KeepsFinal(earlier, s), AdvancesWith(s, new, numbers, later)
    PROVE  KeepsFinal(earlier, new)
<1> SUFFICES ASSUME NEW p \in Copies, IsFinal(earlier, p), new.pending[p[1]] # None
             PROVE  new.pending[p[1]].channels[p[2]].state
                        = earlier.pending[p[1]].channels[p[2]].state
  BY DEF KeepsFinal
<1>1. /\ p[1] \in EventIds /\ p[2] \in Channels
      /\ p[1][1] \in Scopes /\ p[1][2] \in Int /\ numbers[p[1][1]] \in Nat
  BY CopyNames
<1>2. p[1][2] <= numbers[p[1][1]]
  BY <1>1 DEF IsFinal, Recorded
<1>3. s.pending[p[1]] # None /\ EventAdvances(s.pending[p[1]], new.pending[p[1]])
  BY <1>1, <1>2 DEF AdvancesWith
<1>4. s.pending[p[1]].channels[p[2]].state
        = earlier.pending[p[1]].channels[p[2]].state
  BY <1>3 DEF KeepsFinal
<1>5. CASE s.pending[p[1]].channels[p[2]] # None
  <2>1. Rests(s.pending[p[1]].channels[p[2]])
    BY <1>3, <1>5 DEF Recorded, Holds
  <2>2. CopyAdvances(s.pending[p[1]].channels[p[2]], new.pending[p[1]].channels[p[2]])
    BY <1>1, <1>3, <1>5 DEF EventAdvances
  <2>3. s.pending[p[1]].channels[p[2]].state # "pending"
    BY <1>4 DEF IsFinal
  <2>4. QED
    BY <1>4, <2>1, <2>2, <2>3 DEF CopyAdvances
<1>6. CASE s.pending[p[1]].channels[p[2]] = None
  <2>1. new.pending[p[1]].channels[p[2]] = None
    BY <1>1, <1>3, <1>6 DEF EventAdvances
  <2>2. QED
    BY <1>4, <1>6, <2>1
<1>7. QED
  BY <1>5, <1>6

\* An advance that adds no event leaves room for the contact to come.
LEMMA AllowsAdvances ==
    ASSUME NEW s \in Snapshot, NEW new \in Snapshot, NEW numbers,
           NEW counts \in [Copies -> Nat], Recorded(s, numbers, counts),
           Advances(s, new), NEW p \in Copies, Allows(s, p, counts)
    PROVE  Allows(new, p, counts)
<1> SUFFICES ASSUME Holds(new, p) PROVE counts[p] + 1 <= Attempts(new, p)
  BY DEF Allows
<1>1. /\ Holds(s, p)
      /\ CopyAdvances(s.pending[p[1]].channels[p[2]], new.pending[p[1]].channels[p[2]])
  BY CopyNames DEF Advances, EventAdvances, Holds
<1>2. Rests(s.pending[p[1]].channels[p[2]]) /\ counts[p] + 1 <= Attempts(s, p)
  BY <1>1 DEF Recorded, Allows
<1>3. Attempts(new, p) >= Attempts(s, p)
  BY <1>1, <1>2 DEF CopyAdvances, Attempts
<1>4. Attempts(s, p) \in Int /\ Attempts(new, p) \in Int /\ counts[p] \in Nat
  BY <1>1, AttemptsType
<1>5. QED
  BY <1>2, <1>3, <1>4

\* What the types say of the snapshots.
LEMMA RecordTypes ==
    ASSUME IInv
    PROVE  /\ disk \in Snapshot
           /\ snap # None => snap \in Snapshot
           /\ saves \in Seq(Save) /\ Len(saves) \in Nat
           /\ \A i \in 1..Len(saves) : saves[i] \in Save /\ saves[i].snap \in Snapshot
           /\ serial \in [Scopes -> Nat] /\ sends \in [Copies -> Nat]
<1>1. saves \in Seq(Save)
  BY DEF IInv, TypeOK
<1>2. \A i \in 1..Len(saves) : saves[i] \in Save
  BY <1>1
<1>3. QED
  BY <1>1, <1>2 DEF IInv, TypeOK, Save

\* The ledger advances where memory and the numbers stay.
LEMMA SameLedgerAdvances ==
    ASSUME IInv, snap' = snap, serial' = serial
    PROVE  LedgerAdvances
<1>1. serial \in [Scopes -> Nat]
  BY RecordTypes
<1>2. Working => snap \in Snapshot /\ Advances(snap, snap')
  BY RecordTypes, SamePendingAdvances DEF Working, Ready
<1>3. QED
  BY <1>1, <1>2, AdvancesIsAdvancesWith DEF LedgerAdvances

\* Nothing is recorded before anything is queued.
LEMMA InitRInv == Init => RInv
<1> SUFFICES ASSUME Init PROVE RInv
  OBVIOUS
<1>1. /\ snap = None /\ saves = << >> /\ loading = FALSE /\ cycle = IdleCycle
      /\ serial = [x \in Scopes |-> 0] /\ sends = [p \in Copies |-> 0]
  BY DEF Init
<1>2. \A id \in EventIds : disk.pending[id] = None
  <2>1. PICK saved \in [Watches -> WatchForms \cup {None}] :
          disk = [EmptySnapshot EXCEPT !.watches =
                    [w \in Watches |-> IF saved[w] = None THEN None
                                       ELSE WithRev(saved[w], 0)]]
    BY DEF Init
  <2>2. DOMAIN EmptySnapshot = {"watches", "items", "delivery", "pending",
                                "nextEligibleAt", "failures"}
    BY DEF EmptySnapshot
  <2>3. disk.pending = EmptySnapshot.pending
    BY <2>1, <2>2
  <2>4. QED
    BY <2>3, EmptySnapshotType
<1>3. Recorded(disk, serial, sends)
  BY <1>2, CopyNames DEF Recorded, Holds
<1>4. AllRecorded /\ VerdictsInOrder /\ OnlyResetsWhileLoading
  BY <1>1, <1>3 DEF AllRecorded, VerdictsInOrder, OnlyResetsWhileLoading
<1>5. ContactsBounded
  BY <1>1, BoundsAssumption DEF ContactsBounded
<1>6. AttemptIsSaved
  BY <1>1 DEF AttemptIsSaved, IdleCycle
<1>7. QED
  BY <1>4, <1>5, <1>6 DEF RInv

\* A step that leaves snapshots, queue and counts alone.
LEMMA QuietStepKeepsRecord ==
    ASSUME IInv, RInv, UNCHANGED <<disk, snap, saves, serial, sends>>,
           loading' => loading \/ saves = << >>,
           AttemptIsSaved'
    PROVE  KeepsRecord
<1>1. AllRecorded' /\ ContactsBounded' /\ VerdictsInOrder'
  BY DEF RInv, AllRecorded, ContactsBounded, VerdictsInOrder
<1>2. OnlyResetsWhileLoading'
  BY DEF RInv, OnlyResetsWhileLoading
<1>3. KeepsFinal(disk, disk') /\ KeepsFinal(snap, snap') /\ LedgerAdvances
  BY KeepsOwnFinal, SameLedgerAdvances
<1>4. QED
  BY <1>1, <1>2, <1>3 DEF RInv, KeepsRecord

\* ... and the cycle too.
LEMMA IdleStepKeepsRecord ==
    ASSUME IInv, RInv, UNCHANGED <<disk, snap, saves, cycle, serial, sends>>,
           loading' => loading \/ saves = << >>
    PROVE  KeepsRecord
<1>1. AttemptIsSaved'
  BY DEF RInv, AttemptIsSaved
<1>2. QED
  BY <1>1, QuietStepKeepsRecord

\* A step that advances memory and may queue it for writing.
LEMMA MemoryStepKeepsRecord ==
    ASSUME IInv, RInv, IInv', snap # None, snap' # None, ~loading,
           UNCHANGED <<disk, loading, sends>>,
           \A x \in Scopes : serial[x] <= serial'[x],
           AdvancesWith(snap, snap', serial, serial'),
           \/ saves' = saves
           \/ \E by \in {"cycle", "edit", "reset"} : Persist(by, snap'),
           AttemptIsSaved'
    PROVE  KeepsRecord
<1>1. /\ disk \in Snapshot /\ snap \in Snapshot /\ snap' \in Snapshot
      /\ saves \in Seq(Save) /\ Len(saves) \in Nat
      /\ serial \in [Scopes -> Nat] /\ serial' \in [Scopes -> Nat]
      /\ sends \in [Copies -> Nat]
  BY RecordTypes DEF IInv, TypeOK
<1>2. \A i \in 1..Len(saves) : saves[i].snap \in Snapshot
  BY RecordTypes
<1>3. \A i \in 1..Len(saves') :
        \/ i \in 1..Len(saves) /\ saves'[i] = saves[i]
        \/ i = Len(saves) + 1 /\ Len(saves') = Len(saves) + 1
           /\ saves'[i].snap = snap'
  <2>1. CASE saves' = saves
    BY <2>1
  <2>2. CASE \E by \in {"cycle", "edit", "reset"} : Persist(by, snap')
    <3>1. PICK by \in {"cycle", "edit", "reset"} : Persist(by, snap')
      BY <2>2
    <3>2. /\ Len(saves') = Len(saves) + 1
          /\ \A i \in 1..Len(saves) : saves'[i] = saves[i]
          /\ saves'[Len(saves) + 1].snap = snap'
      BY <1>1, <3>1, PersistAppends
    <3>3. QED
      BY <1>1, <3>2
  <2>3. QED
    BY <2>1, <2>2
<1>4. \A p \in Copies : p[1][2] > serial[p[1][1]] => sends[p] = 0
  BY DEF RInv, ContactsBounded
<1>5. /\ Recorded(disk, serial, sends) /\ Recorded(snap, serial, sends)
      /\ \A i \in 1..Len(saves) : Recorded(saves[i].snap, serial, sends)
  BY DEF RInv, AllRecorded
<1>6. Recorded(snap', serial', sends)
  BY <1>1, <1>4, <1>5, RecordedAdvances
<1>7. /\ Recorded(disk, serial', sends)
      /\ \A i \in 1..Len(saves) : Recorded(saves[i].snap, serial', sends)
  BY <1>1, <1>2, <1>5, RecordedLater
<1>8. AllRecorded'
  BY <1>3, <1>6, <1>7 DEF AllRecorded
<1>9. ContactsBounded'
  <2>1. ASSUME NEW p \in Copies, p[1][2] > serial'[p[1][1]]
        PROVE  p[1][2] > serial[p[1][1]]
    <3>1. /\ p[1][1] \in Scopes /\ p[1][2] \in Int
          /\ serial[p[1][1]] \in Nat /\ serial'[p[1][1]] \in Nat
          /\ serial[p[1][1]] <= serial'[p[1][1]]
      BY <1>1, CopyNames
    <3>2. QED
      BY <2>1, <3>1
  <2>2. QED
    BY <2>1 DEF RInv, ContactsBounded
<1>10. /\ KeepsFinal(disk, snap')
       /\ KeepsFinal(snap, snap')
       /\ \A i \in 1..Len(saves) : KeepsFinal(saves[i].snap, snap')
  BY <1>1, <1>2, <1>5, FinalAdvances, KeepsOwnFinal DEF RInv, VerdictsInOrder
<1>11. VerdictsInOrder'
  <2>1. ASSUME NEW i \in 1..Len(saves')
        PROVE  KeepsFinal(disk, saves'[i].snap)
    BY <1>3, <1>10 DEF RInv, VerdictsInOrder
  <2>2. ASSUME NEW i \in 1..Len(saves'), NEW j \in 1..Len(saves'), i < j
        PROVE  KeepsFinal(saves'[i].snap, saves'[j].snap)
    <3>1. i \in 1..Len(saves) /\ saves'[i] = saves[i]
      BY <1>1, <1>3, <2>2
    <3>2. QED
      BY <1>3, <1>10, <2>2, <3>1 DEF RInv, VerdictsInOrder
  <2>3. ASSUME NEW i \in 1..Len(saves')
        PROVE  KeepsFinal(saves'[i].snap, snap')
    BY <1>3, <1>10, KeepsOwnFinal
  <2>4. QED
    BY <1>10, <2>1, <2>2, <2>3 DEF VerdictsInOrder
<1>12. OnlyResetsWhileLoading'
  BY DEF OnlyResetsWhileLoading
<1>13. KeepsFinal(disk, disk')
  BY KeepsOwnFinal
<1>14. QED
  BY <1>8, <1>9, <1>10, <1>11, <1>12, <1>13 DEF RInv, KeepsRecord, LedgerAdvances

\* A snapshot is loaded.
LEMMA FinishLoadKeepsRecord ==
    ASSUME IInv, RInv, IInv', FinishLoad
    PROVE  KeepsRecord
<1> DEFINE loaded == NormalizePersistedClockSkew(disk, now)
<1>1. /\ disk \in Snapshot /\ now \in Int /\ loaded \in Snapshot
      /\ saves \in Seq(Save) /\ serial \in [Scopes -> Nat]
      /\ sends \in [Copies -> Nat]
  BY RecordTypes, NormalizePersistedClockSkewKeeps DEF IInv, TypeOK
<1>2. Advances(disk, loaded)
  BY <1>1, NormalizePersistedClockSkewAdvances
<1> HIDE DEF loaded
<1>3. AdvancesWith(disk, loaded, serial, serial)
  BY <1>1, <1>2, AdvancesIsAdvancesWith
<1>4. snap' = loaded /\ loading /\ ~loading'
      /\ UNCHANGED <<disk, saves, cycle, serial, sends>>
  BY DEF FinishLoad, loaded
<1>5. Recorded(disk, serial, sends)
      /\ \A p \in Copies : p[1][2] > serial[p[1][1]] => sends[p] = 0
  BY DEF RInv, AllRecorded, ContactsBounded
<1>6. \A x \in Scopes : serial[x] <= serial[x]
  BY <1>1
<1>7. Recorded(loaded, serial, sends)
  BY <1>1, <1>3, <1>5, <1>6, RecordedAdvances
<1>8. KeepsFinal(disk, loaded)
  BY <1>1, <1>3, <1>5, FinalAdvances, KeepsOwnFinal
<1>9. \A i \in 1..Len(saves) : KeepsFinal(saves[i].snap, loaded)
  BY <1>4, CopyNames DEF RInv, OnlyResetsWhileLoading, KeepsFinal, IsFinal
<1>10. AllRecorded' /\ ContactsBounded' /\ VerdictsInOrder'
  BY <1>4, <1>7, <1>8, <1>9
     DEF RInv, AllRecorded, ContactsBounded, VerdictsInOrder
<1>11. AttemptIsSaved'
  <2>1. cycle.pc = "idle"
    BY <1>4 DEF IInv, Coherent
  <2>2. QED
    BY <1>4, <2>1 DEF AttemptIsSaved
<1>12. OnlyResetsWhileLoading'
  BY <1>4 DEF OnlyResetsWhileLoading
<1>13. KeepsFinal(disk, disk') /\ ~Working
  BY <1>4, KeepsOwnFinal DEF Working, Ready
<1>14. QED
  BY <1>1, <1>4, <1>10, <1>11, <1>12, <1>13 DEF RInv, KeepsRecord, LedgerAdvances

\* The worker dies.
LEMMA CrashKeepsRecord ==
    ASSUME IInv, RInv, Crash
    PROVE  KeepsRecord
<1>1. /\ snap' = None /\ loading' = FALSE /\ saves' = << >> /\ cycle' = IdleCycle
      /\ UNCHANGED <<serial, sends>>
      /\ \/ disk' = disk
         \/ saves # << >> /\ disk' = Head(saves).snap
  BY DEF Crash
<1>2. Recorded(disk', serial, sends) /\ KeepsFinal(disk, disk')
  BY <1>1, HeadOfSaves, KeepsOwnFinal DEF RInv, AllRecorded, VerdictsInOrder
<1>3. AllRecorded' /\ ContactsBounded' /\ VerdictsInOrder' /\ OnlyResetsWhileLoading'
  BY <1>1, <1>2 DEF RInv, AllRecorded, ContactsBounded, VerdictsInOrder,
                    OnlyResetsWhileLoading
<1>4. AttemptIsSaved'
  BY <1>1 DEF AttemptIsSaved, IdleCycle
<1>5. LedgerAdvances
  BY <1>1, RecordTypes DEF LedgerAdvances, Working
<1>6. QED
  BY <1>1, <1>2, <1>3, <1>4, <1>5 DEF RInv, KeepsRecord, Working

\* What both outcomes of a write share.
LEMMA WriteKeepsRecord ==
    ASSUME IInv, RInv, saves # << >>, saves' = Tail(saves),
           UNCHANGED <<snap, loading, serial, sends>>, ~loading,
           disk' = disk \/ disk' = Head(saves).snap,
           AttemptIsSaved'
    PROVE  KeepsRecord
<1>1. /\ Len(saves') = Len(saves) - 1 /\ Len(saves) \in Nat
      /\ Head(saves) = saves[1] /\ 1 \in 1..Len(saves)
      /\ \A i \in 1..Len(saves') :
            i + 1 \in 1..Len(saves) /\ saves'[i] = saves[i + 1]
  BY HeadOfSaves, RecordTypes
<1>2. Recorded(disk', serial, sends) /\ KeepsFinal(disk, disk')
  BY <1>1, KeepsOwnFinal DEF RInv, AllRecorded, VerdictsInOrder
<1>3. AllRecorded' /\ ContactsBounded'
  BY <1>1, <1>2 DEF RInv, AllRecorded, ContactsBounded
<1>4. VerdictsInOrder'
  <2>1. ASSUME NEW i \in 1..Len(saves')
        PROVE  KeepsFinal(disk', saves'[i].snap)
    <3>1. i + 1 \in 1..Len(saves) /\ saves'[i] = saves[i + 1] /\ 1 < i + 1
      BY <1>1
    <3>2. QED
      BY <1>1, <3>1 DEF RInv, VerdictsInOrder
  <2>2. ASSUME NEW i \in 1..Len(saves'), NEW j \in 1..Len(saves'), i < j
        PROVE  KeepsFinal(saves'[i].snap, saves'[j].snap)
    <3>1. i + 1 < j + 1
      BY <1>1, <2>2
    <3>2. QED
      BY <1>1, <3>1 DEF RInv, VerdictsInOrder
  <2>3. snap' # None => KeepsFinal(disk', snap')
    BY <1>1 DEF RInv, VerdictsInOrder
  <2>4. snap' # None => \A i \in 1..Len(saves') : KeepsFinal(saves'[i].snap, snap')
    BY <1>1 DEF RInv, VerdictsInOrder
  <2>5. QED
    BY <2>1, <2>2, <2>3, <2>4 DEF VerdictsInOrder
<1>5. OnlyResetsWhileLoading'
  BY DEF OnlyResetsWhileLoading
<1>6. KeepsFinal(snap, snap') /\ LedgerAdvances
  BY KeepsOwnFinal, SameLedgerAdvances
<1>7. QED
  BY <1>2, <1>3, <1>4, <1>5, <1>6 DEF RInv, KeepsRecord

\* A write succeeds: an attempt that was queued is on disk before the cycle goes on.
LEMMA WriteSucceedsKeepsRecord ==
    ASSUME IInv, RInv, WriteSucceeds
    PROVE  KeepsRecord
<1> DEFINE by == Head(saves).by
           ends == by = "cycle" /\ cycle.pc = "closing"
<1>1. /\ saves # << >> /\ ~loading /\ saves' = Tail(saves)
      /\ disk' = Head(saves).snap
      /\ UNCHANGED <<snap, loading, serial, sends>>
  BY DEF WriteSucceeds
<1>2. cycle' = IF ends THEN IdleCycle
               ELSE IF by = "cycle" THEN [cycle EXCEPT !.pc = AfterSave[cycle.pc]]
               ELSE cycle
  BY DEF WriteSucceeds
<1>3. /\ Head(saves) = saves[1] /\ 1 \in 1..Len(saves) /\ Len(saves) \in Nat
      /\ Len(saves') = Len(saves) - 1
      /\ \A i \in 1..Len(saves') :
            i + 1 \in 1..Len(saves) /\ saves'[i] = saves[i + 1]
  BY <1>1, HeadOfSaves, RecordTypes
<1>4. cycle \in Cycle /\ (by = "cycle" => cycle.pc \in Waiting)
  BY <1>3 DEF IInv, TypeOK, CycleSaves
<1>5. AttemptIsSaved'
  <2>1. CASE by # "cycle"
    <3>1. cycle' = cycle
      BY <1>2, <2>1
    <3>2. CASE cycle.pc = "attempting"
      <4>1. ASSUME NEW i \in 1..Len(saves'), NEW j \in 1..Len(saves'),
                   saves'[i].by = "cycle", i <= j
            PROVE  Allows(saves'[j].snap, cycle.cur, sends)
        <5>1. i + 1 <= j + 1
          BY <1>3, <4>1
        <5>2. QED
          BY <1>3, <3>2, <4>1, <5>1 DEF RInv, AttemptIsSaved
      <4>2. QED
        BY <1>1, <3>1, <3>2, <4>1 DEF RInv, AttemptIsSaved
    <3>3. CASE cycle.pc \in {"rechecking", "resolving", "sending"}
      BY <1>1, <1>3, <3>1, <3>3 DEF RInv, AttemptIsSaved
    <3>4. CASE cycle.pc \notin {"attempting", "rechecking", "resolving", "sending"}
      BY <3>1, <3>4 DEF AttemptIsSaved
    <3>5. QED
      BY <3>2, <3>3, <3>4
  <2>2. CASE ends
    BY <1>2, <2>2 DEF AttemptIsSaved, IdleCycle
  <2>3. CASE by = "cycle" /\ cycle.pc # "closing"
    <3>1. cycle.pc \in {"recording", "attempting", "settling"}
      BY <1>4, <2>3 DEF Waiting
    <3>2. cycle' = [cycle EXCEPT !.pc = AfterSave[cycle.pc]]
      BY <1>2, <2>3
    <3>3. cycle'.pc = AfterSave[cycle.pc] /\ cycle'.cur = cycle.cur
      BY <1>4, <3>2 DEF Cycle
    <3>4. CASE cycle.pc = "attempting"
      <4>1. cycle'.pc = "rechecking"
        BY <3>3, <3>4 DEF AfterSave
      <4>2. Allows(snap, cycle.cur, sends)
            /\ \A j \in 1..Len(saves) : Allows(saves[j].snap, cycle.cur, sends)
        <5>1. \A j \in 1..Len(saves) : 1 <= j
          BY <1>3
        <5>2. QED
          BY <1>3, <2>3, <3>4, <5>1 DEF RInv, AttemptIsSaved
      <4>3. QED
        BY <1>1, <1>3, <3>3, <4>1, <4>2 DEF AttemptIsSaved
    <3>5. CASE cycle.pc \in {"recording", "settling"}
      <4>1. cycle'.pc \in {"starting", "dispatching"}
        BY <3>3, <3>5 DEF AfterSave
      <4>2. QED
        BY <4>1 DEF AttemptIsSaved
    <3>6. QED
      BY <3>1, <3>4, <3>5
  <2>4. QED
    BY <2>1, <2>2, <2>3
<1>6. QED
  BY <1>1, <1>5, WriteKeepsRecord

\* A write fails: a cycle whose attempt was not saved ends before any contact.
LEMMA WriteFailsKeepsRecord ==
    ASSUME IInv, RInv, WriteFails
    PROVE  KeepsRecord
<1>1. /\ saves # << >> /\ ~loading /\ saves' = Tail(saves)
      /\ cycle' = IF Head(saves).by = "cycle" THEN IdleCycle ELSE cycle
      /\ UNCHANGED <<disk, snap, loading, serial, sends>>
  BY DEF WriteFails
<1>2. /\ Len(saves') = Len(saves) - 1 /\ Len(saves) \in Nat
      /\ \A i \in 1..Len(saves') :
            i + 1 \in 1..Len(saves) /\ saves'[i] = saves[i + 1]
  BY <1>1, HeadOfSaves, RecordTypes
<1>3. AttemptIsSaved'
  <2>1. CASE Head(saves).by = "cycle"
    BY <1>1, <2>1 DEF AttemptIsSaved, IdleCycle
  <2>2. CASE Head(saves).by # "cycle"
    <3>1. cycle' = cycle
      BY <1>1, <2>2
    <3>2. CASE cycle.pc = "attempting"
      <4>1. ASSUME NEW i \in 1..Len(saves'), NEW j \in 1..Len(saves'),
                   saves'[i].by = "cycle", i <= j
            PROVE  Allows(saves'[j].snap, cycle.cur, sends)
        <5>1. i + 1 <= j + 1
          BY <1>2, <4>1
        <5>2. QED
          BY <1>2, <3>2, <4>1, <5>1 DEF RInv, AttemptIsSaved
      <4>2. QED
        BY <1>1, <3>1, <3>2, <4>1 DEF RInv, AttemptIsSaved
    <3>3. CASE cycle.pc # "attempting"
      BY <1>1, <1>2, <3>1, <3>3 DEF RInv, AttemptIsSaved
    <3>4. QED
      BY <3>2, <3>3
  <2>3. QED
    BY <2>1, <2>2
<1>4. QED
  BY <1>1, <1>3, WriteKeepsRecord

\* A copy is replaced by one that advances it.
LEMMA WithCopyAdvances ==
    ASSUME NEW s \in Snapshot, NEW p \in Copies, NEW copy \in Copy, Holds(s, p),
           CopyAdvances(s.pending[p[1]].channels[p[2]], copy)
    PROVE  /\ Advances(s, WithCopy(s, p, copy))
           /\ WithCopy(s, p, copy).pending[p[1]].channels[p[2]] = copy
<1> DEFINE id == p[1]
           c == p[2]
           event == s.pending[id]
           changed == [event EXCEPT !.channels[c] = copy]
           new == WithCopy(s, p, copy)
<1>1. id \in EventIds /\ c \in Channels /\ event \in Event
  BY CopyNames, AttemptsType
<1>2. DOMAIN s = {"watches", "items", "delivery", "pending", "nextEligibleAt",
                  "failures"}
      /\ s.pending \in [EventIds -> Event \cup {None}]
  BY DEF Snapshot
<1>3. \A i \in EventIds : new.pending[i] = IF i = id THEN changed ELSE s.pending[i]
  BY <1>1, <1>2 DEF WithCopy
<1>4. \A d \in Channels :
        changed.channels[d] = IF d = c THEN copy ELSE event.channels[d]
  <2> HIDE DEF event
  <2> QED BY <1>1 DEF Event
<1>5. EventAdvances(event, changed)
  <2>1. EventAdvances(event, event)
    BY <1>1, SameEventAdvances
  <2>2. event.channels[c] # None /\ CopyAdvances(event.channels[c], copy)
    BY DEF Holds
  <2> HIDE DEF event, changed
  <2>3. QED
    BY <1>4, <2>1, <2>2, NoneIsNoRecord DEF EventAdvances
<1> HIDE DEF changed, new
<1>6. Advances(s, new)
  <2>1. event # None
    BY DEF Holds
  <2>2. QED
    BY <1>2, <1>3, <1>5, <2>1, SameEventAdvances DEF Advances
<1>7. new.pending[id].channels[c] = copy
  BY <1>1, <1>3, <1>4
<1>8. QED
  BY <1>6, <1>7 DEF new

\* Serial numbers never fall.
LEMMA NextSerialGrows ==
    ASSUME NEW numbers \in [Scopes -> Nat], NEW a
    PROVE  \A x \in Scopes : numbers[x] <= NextSerial(numbers, a)[x]
BY DEF NextSerial

\* Promoting deferred alerts advances the ledger.
LEMMA PromotionsAdvance ==
    ASSUME NEW s \in Snapshot, now \in Int, NEW numbers \in [Scopes -> Nat],
           NEW atStart, NEW p \in Promotions(s, numbers, atStart)
    PROVE  /\ AdvancesWith(s, p.snap, numbers, p.serial)
           /\ \A x \in Scopes : numbers[x] <= p.serial[x]
<1>1. PICK a \in Admissions(s, Promotable(s, now, atStart, catalog)) :
        p = [snap   |-> PromoteDeferredAvailability(s, a, numbers, now, atStart),
             serial |-> NextSerial(numbers, a)]
  BY DEF Promotions
<1> DEFINE new == PromoteDeferredAvailability(s, a, numbers, now, atStart)
<1>2. AdvancesWith(s, new, numbers, NextSerial(numbers, a))
  BY PromoteDeferredAvailabilityAdvances
<1>3. p.snap = new /\ p.serial = NextSerial(numbers, a)
  BY <1>1
<1> HIDE DEF new
<1>4. QED
  BY <1>2, <1>3, NextSerialGrows

\* ... and so does recording observations.
LEMMA RecordingsAdvance ==
    ASSUME NEW s \in Snapshot, now \in Int, NEW numbers \in [Scopes -> Nat],
           NEW obs, DOMAIN obs \subseteq Scopes,
           \A x \in DOMAIN obs : obs[x] \in Status,
           NEW r \in Recordings(s, obs, numbers)
    PROVE  /\ AdvancesWith(s, r.snap, numbers, r.serial)
           /\ \A x \in Scopes : numbers[x] <= r.serial[x]
<1>1. PICK a \in Admissions(s, Alerting(s, obs, now, catalog)) :
        r = [snap   |-> RecordObservation(s, obs, a, numbers, now, catalog),
             serial |-> NextSerial(numbers, a)]
  BY DEF Recordings
<1> DEFINE new == RecordObservation(s, obs, a, numbers, now, catalog)
<1>2. AdvancesWith(s, new, numbers, NextSerial(numbers, a))
  BY RecordObservationAdvances
<1>3. r.snap = new /\ r.serial = NextSerial(numbers, a)
  BY <1>1
<1> HIDE DEF new
<1>4. QED
  BY <1>2, <1>3, NextSerialGrows

\* An advance that is followed by one that adds no event, or the other way round.
LEMMA AdvancesThenAdvancesWith ==
    ASSUME NEW s \in Snapshot, NEW t \in Snapshot, NEW u \in Snapshot,
           NEW numbers \in [Scopes -> Nat], NEW later \in [Scopes -> Nat],
           \A x \in Scopes : numbers[x] <= later[x]
    PROVE  /\ Advances(s, t) /\ AdvancesWith(t, u, numbers, later)
              => AdvancesWith(s, u, numbers, later)
           /\ AdvancesWith(s, t, numbers, later) /\ Advances(t, u)
              => AdvancesWith(s, u, numbers, later)
<1>1. (\A x \in Scopes : numbers[x] <= numbers[x])
      /\ (\A x \in Scopes : later[x] <= later[x])
  OBVIOUS
<1>2. ASSUME Advances(s, t), AdvancesWith(t, u, numbers, later)
      PROVE  AdvancesWith(s, u, numbers, later)
  <2>1. AdvancesWith(s, t, numbers, numbers)
    BY <1>2, AdvancesIsAdvancesWith
  <2>2. QED
    BY <1>1, <1>2, <2>1, AdvancesWithIsTransitive
<1>3. ASSUME AdvancesWith(s, t, numbers, later), Advances(t, u)
      PROVE  AdvancesWith(s, u, numbers, later)
  <2>1. AdvancesWith(t, u, later, later)
    BY <1>3, AdvancesIsAdvancesWith
  <2>2. QED
    BY <1>1, <1>3, <2>1, AdvancesWithIsTransitive
<1>4. QED
  BY <1>2, <1>3

\* Reconciling as a cycle begins advances the ledger.
LEMMA ReconciledAdvances ==
    ASSUME snap \in Snapshot, now \in Int
    PROVE  Advances(snap, Reconciled)
<1> DEFINE s == ReconcileDurableDelivery(snap, now)
<1>1. s \in Snapshot /\ Advances(snap, s)
  BY ReconcileDurableDeliveryKeeps, ReconcileDurableDeliveryAdvances
<1>2. CASE catalog = None
  BY <1>1, <1>2 DEF Reconciled
<1>3. CASE catalog # None
  <2> DEFINE r == ReconcileRetiredCatalogState(s, catalog, now)
  <2>1. Reconciled = r
    BY <1>3 DEF Reconciled
  <2>2. r \in Snapshot /\ Advances(s, r)
    BY <1>1, ReconcileRetiredCatalogStateKeeps, ReconcileRetiredCatalogStateAdvances
  <2> HIDE DEF s, r
  <2>3. QED
    BY <1>1, <2>1, <2>2, AdvancesIsTransitive
<1>4. QED
  BY <1>2, <1>3

\* Where no attempt is under way there is nothing to show for one.
LEMMA NoAttempt ==
    ASSUME cycle'.pc \notin {"attempting", "rechecking", "resolving", "sending"}
    PROVE  AttemptIsSaved'
BY DEF AttemptIsSaved

\* A cycle begins.
LEMMA BeginCycleKeepsRecord ==
    ASSUME IInv, RInv, IInv', NEW force \in SUBSET Watches, NEW rung,
           BeginCycle(force, rung)
    PROVE  KeepsRecord
<1>1. /\ snap \in Snapshot /\ snap # None /\ ~loading /\ now \in Int
      /\ serial \in [Scopes -> Nat] /\ catalog \in Catalogs \cup {None}
      /\ UNCHANGED <<disk, loading, sends>>
  BY DEF BeginCycle, Ready, IInv, TypeOK
<1>2. /\ Reconciled \in Snapshot /\ Advances(snap, Reconciled)
      /\ \A x \in Scopes : serial[x] <= serial[x]
  BY <1>1, ReconciledKeeps, ReconciledAdvances
<1>3. Recording.pc = "recording"
  BY <1>1, RecordingType
<1>4. ASSUME NEW new \in Snapshot, snap' = new, Advances(Reconciled, new),
             Persist("cycle", new), cycle' = Recording, serial' = serial
      PROVE  KeepsRecord
  <2>1. AttemptIsSaved'
    BY <1>3, <1>4, NoAttempt
  <2>2. AdvancesWith(snap, new, serial, serial)
    BY <1>1, <1>2, <1>4, AdvancesIsTransitive, AdvancesIsAdvancesWith
  <2>3. snap' # None
    BY <1>4, NoneIsNoRecord
  <2>4. QED
    BY <1>1, <1>2, <1>4, <2>1, <2>2, <2>3, MemoryStepKeepsRecord
<1>5. ASSUME NEW p \in Promotions(Reconciled, serial, catalog), NEW new \in Snapshot,
             snap' = new, new.pending = p.snap.pending, serial' = p.serial,
             Persist("cycle", new) \/ saves' = saves,
             cycle'.pc \in {"recording", "fetching"}
      PROVE  KeepsRecord
  <2>1. AttemptIsSaved'
    BY <1>5, NoAttempt
  <2>2. /\ AdvancesWith(Reconciled, p.snap, serial, serial')
        /\ \A x \in Scopes : serial[x] <= serial'[x]
    BY <1>1, <1>2, <1>5, PromotionsAdvance
  <2>3. AdvancesWith(Reconciled, new, serial, serial')
    BY <1>5, <2>2, AdvancesToSamePending
  <2>4. serial' \in [Scopes -> Nat]
    BY DEF IInv, TypeOK
  <2>5. AdvancesWith(snap, new, serial, serial')
    BY <1>1, <1>2, <1>5, <2>2, <2>3, <2>4, AdvancesThenAdvancesWith
  <2>6. snap' # None
    BY <1>5, NoneIsNoRecord
  <2>7. QED
    BY <1>1, <1>5, <2>1, <2>2, <2>5, <2>6, MemoryStepKeepsRecord
<1>6. ASSUME NEW p \in Promotions(Reconciled, serial, catalog)
      PROVE  p.snap \in Snapshot
  <2>1. PICK a \in Admissions(Reconciled, Promotable(Reconciled, now, catalog, catalog)) :
          p.snap = PromoteDeferredAvailability(Reconciled, a, serial, now, catalog)
    BY <1>6 DEF Promotions
  <2>2. QED
    BY <1>1, <1>2, <2>1, PromoteDeferredAvailabilityKeeps
<1>7. CASE BeginBackedOff(rung)
  BY <1>2, <1>4, <1>7, SamePendingAdvances DEF BeginBackedOff
<1>8. CASE BeginWithoutCatalog(force, rung)
  <2> DEFINE xs  == UNION {ScopesOf(Reconciled, w) : w \in Selected(Reconciled, force)}
             obs == [x \in xs |-> "unknown"]
             new == RecordItems(Reconciled, obs, now)
  <2>1. \A x \in DOMAIN obs : obs[x] \in Status
    BY DEF Status
  <2>2. snap' = new /\ Persist("cycle", new) /\ cycle' = Recording /\ serial' = serial
    BY <1>8 DEF BeginWithoutCatalog
  <2> HIDE DEF obs
  <2>3. new \in Snapshot /\ new.pending = Reconciled.pending
    BY <1>1, <1>2, <2>1, RecordItemsKeeps
  <2> HIDE DEF new
  <2>4. Advances(Reconciled, new)
    BY <1>2, <2>3, SamePendingAdvances
  <2>5. QED
    BY <1>4, <2>2, <2>3, <2>4
<1>9. CASE BeginIdle(force, rung)
  <2>1. PICK p \in Promotions(Reconciled, serial, catalog) :
            snap' = p.snap /\ serial' = p.serial /\ Persist("cycle", p.snap)
    BY <1>9 DEF BeginIdle
  <2>2. cycle'.pc = "recording"
    BY <1>3, <1>9 DEF BeginIdle
  <2>3. QED
    BY <1>5, <1>6, <2>1, <2>2
<1>10. CASE BeginUnsupported(force, rung)
  <2>1. PICK p \in Promotions(Reconciled, serial, catalog) :
            /\ snap' = UpdateBackoff(p.snap, FALSE, 0, now)
            /\ serial' = p.serial
            /\ Persist("cycle", UpdateBackoff(p.snap, FALSE, 0, now))
    BY <1>10 DEF BeginUnsupported
  <2> DEFINE new == UpdateBackoff(p.snap, FALSE, 0, now)
  <2>2. new \in Snapshot /\ new.pending = p.snap.pending
    <3>1. p.snap \in Snapshot /\ FALSE \in BOOLEAN /\ 0 \in Int
      BY <1>6
    <3>2. QED
      BY <1>1, <3>1, UpdateBackoffKeeps, Zenon
  <2>3. cycle'.pc = "recording"
    BY <1>3, <1>10 DEF BeginUnsupported
  <2> HIDE DEF new
  <2>4. snap' = new /\ Persist("cycle", new)
    BY <2>1 DEF new
  <2>5. QED
    BY <1>5, <2>1, <2>2, <2>3, <2>4
<1>11. CASE BeginPolling(force, rung)
  <2>1. PICK p \in Promotions(Reconciled, serial, catalog) :
            snap' = p.snap /\ serial' = p.serial
    BY <1>11 DEF BeginPolling
  <2>2. cycle'.pc = "fetching" /\ saves' = saves
    BY <1>11 DEF BeginPolling, IdleCycle
  <2>3. QED
    BY <1>5, <1>6, <2>1, <2>2
<1>12. QED
  BY <1>7, <1>8, <1>9, <1>10, <1>11 DEF BeginCycle

\* An answer is recorded; after the last one alerts are promoted and saved.
LEMMA FetchSettlesKeepsRecord ==
    ASSUME IInv, RInv, IInv', FetchSettles
    PROVE  KeepsRecord
<1>1. /\ snap \in Snapshot /\ snap # None /\ ~loading /\ now \in Int
      /\ cycle \in Cycle /\ cycle.pc = "fetching"
      /\ serial \in [Scopes -> Nat] /\ serial' \in [Scopes -> Nat]
      /\ cycle.failed \in BOOLEAN /\ cycle.retry \in Nat
      /\ UNCHANGED <<disk, loading, sends>>
  BY WorkingCycle DEF FetchSettles, IInv, TypeOK, Cycle
<1>2. PICK anchor \in Stores :
        \E skus \in SUBSET cycle.work[anchor] : \E ans \in Answers(skus) :
            RequestSettles(anchor, skus, ans)
  BY DEF FetchSettles
<1>3. PICK skus \in SUBSET cycle.work[anchor] :
        \E ans \in Answers(skus) : RequestSettles(anchor, skus, ans)
  BY <1>2
<1>4. PICK answer \in Answers(skus) : RequestSettles(anchor, skus, answer)
  BY <1>3
<1> DEFINE obs    == [x \in Answered(anchor, skus) |-> answer.status[<<x[2], x[3]>>]]
           work   == [cycle.work EXCEPT ![anchor] = @ \ skus]
           failed == cycle.failed \/ answer.failed
           retry  == Greatest(cycle.retry, answer.retry)
           polled == [cycle EXCEPT !.t = now, !.work = work,
                                   !.failed = failed, !.retry = retry]
<1>5. answer.status \in [skus \X Stores -> Status] /\ answer.retry \in Nat
  BY AnswerType
<1>6. DOMAIN obs \subseteq Scopes /\ \A x \in DOMAIN obs : obs[x] \in Status
  <2>1. ASSUME NEW x \in Answered(anchor, skus)
        PROVE  x \in Scopes /\ <<x[2], x[3]>> \in skus \X Stores
    BY DEF Answered, Scopes
  <2>2. QED
    BY <1>5, <2>1
<1>7. failed \in BOOLEAN /\ retry \in Int
  BY <1>1, <1>5 DEF Greatest
<1>8. polled.pc = "fetching" /\ DOMAIN polled = DOMAIN cycle
  <2> HIDE DEF work, failed, retry
  <2>1. QED
    BY <1>1 DEF Cycle
<1> HIDE DEF obs, work, failed, retry, polled
<1>9. PICK r \in Recordings(snap, obs, serial) :
            \/ /\ snap' = r.snap
               /\ serial' = r.serial
               /\ cycle' = polled
               /\ saves' = saves
            \/ /\ \E p \in Promotions(r.snap, r.serial, cycle.catalog) :
                    LET new == UpdateBackoff(p.snap, failed, retry, now) IN
                    /\ snap' = new
                    /\ serial' = p.serial
                    /\ Persist("cycle", new)
               /\ cycle' = [polled EXCEPT !.pc = "recording",
                                !.revs = [w \in Watches |-> None],
                                !.failed = FALSE, !.retry = 0]
  BY <1>4 DEF RequestSettles, obs, work, failed, retry, polled
<1>10. /\ AdvancesWith(snap, r.snap, serial, r.serial)
       /\ \A x \in Scopes : serial[x] <= r.serial[x]
  BY <1>1, <1>6, RecordingsAdvance
<1>11. r.snap \in Snapshot /\ r.serial \in [Scopes -> Nat]
  <2>1. PICK a \in Admissions(snap, Alerting(snap, obs, now, catalog)) :
          r = [snap   |-> RecordObservation(snap, obs, a, serial, now, catalog),
               serial |-> NextSerial(serial, a)]
    BY DEF Recordings
  <2>2. RecordObservation(snap, obs, a, serial, now, catalog) \in Snapshot
    BY <1>1, <1>6, RecordObservationKeeps
  <2>3. NextSerial(serial, a) \in [Scopes -> Nat]
    BY <1>1, NextSerialType
  <2>4. QED
    BY <2>1, <2>2, <2>3
<1>12. CASE /\ snap' = r.snap
            /\ serial' = r.serial
            /\ cycle' = polled
            /\ saves' = saves
  <2>1. AttemptIsSaved'
    BY <1>8, <1>12, NoAttempt
  <2>2. snap' # None
    BY <1>11, <1>12, NoneIsNoRecord
  <2>3. QED
    BY <1>1, <1>10, <1>12, <2>1, <2>2, MemoryStepKeepsRecord
<1>13. CASE /\ \E p \in Promotions(r.snap, r.serial, cycle.catalog) :
                    LET new == UpdateBackoff(p.snap, failed, retry, now) IN
                    /\ snap' = new
                    /\ serial' = p.serial
                    /\ Persist("cycle", new)
            /\ cycle' = [polled EXCEPT !.pc = "recording",
                                !.revs = [w \in Watches |-> None],
                                !.failed = FALSE, !.retry = 0]
  <2>1. PICK p \in Promotions(r.snap, r.serial, cycle.catalog) :
                    /\ snap' = UpdateBackoff(p.snap, failed, retry, now)
                    /\ serial' = p.serial
                    /\ Persist("cycle", UpdateBackoff(p.snap, failed, retry, now))
    BY <1>13
  <2>2. /\ AdvancesWith(r.snap, p.snap, r.serial, p.serial)
        /\ \A x \in Scopes : r.serial[x] <= p.serial[x]
    BY <1>1, <1>11, PromotionsAdvance
  <2>3. p.snap \in Snapshot
    <3>1. PICK a \in Admissions(r.snap, Promotable(r.snap, now, cycle.catalog, catalog)) :
            p = [snap   |-> PromoteDeferredAvailability(r.snap, a, r.serial, now,
                                                        cycle.catalog),
                 serial |-> NextSerial(r.serial, a)]
      BY DEF Promotions
    <3>2. PromoteDeferredAvailability(r.snap, a, r.serial, now, cycle.catalog)
            \in Snapshot
      BY <1>1, <1>11, PromoteDeferredAvailabilityKeeps
    <3>3. QED
      BY <3>1, <3>2
  <2> DEFINE new == UpdateBackoff(p.snap, failed, retry, now)
  <2>4. new \in Snapshot /\ new.pending = p.snap.pending
    BY <1>1, <1>7, <2>3, UpdateBackoffKeeps
  <2> HIDE DEF new
  <2>5. AdvancesWith(snap, p.snap, serial, p.serial)
    <3>1. p.serial \in [Scopes -> Nat]
      BY <1>1, <2>1
    <3>2. QED
      BY <1>1, <1>10, <1>11, <2>2, <2>3, <3>1, AdvancesWithIsTransitive
  <2>6. AdvancesWith(snap, snap', serial, serial')
    BY <2>1, <2>4, <2>5, AdvancesToSamePending DEF new
  <2>7. \A x \in Scopes : serial[x] <= serial'[x]
    <3>1. ASSUME NEW x \in Scopes PROVE serial[x] <= serial'[x]
      <4>1. /\ serial[x] \in Nat /\ r.serial[x] \in Nat /\ serial'[x] \in Nat
            /\ serial[x] <= r.serial[x] /\ r.serial[x] <= serial'[x]
        BY <1>1, <1>10, <1>11, <2>1, <2>2
      <4>2. QED
        BY <4>1
    <3>2. QED
      BY <3>1
  <2>8. snap' # None /\ Persist("cycle", snap')
    BY <2>1, <2>4, NoneIsNoRecord DEF new
  <2>9. AttemptIsSaved'
    <3>1. cycle'.pc = "recording"
      BY <1>1, <1>8, <1>13 DEF Cycle
    <3>2. QED
      BY <3>1, NoAttempt
  <2>10. QED
    BY <1>1, <2>6, <2>7, <2>8, <2>9, MemoryStepKeepsRecord
<1>14. QED
  BY <1>9, <1>12, <1>13

\* A step that only closes, forgets or retries copies.
LEMMA ClosingStepKeepsRecord ==
    ASSUME IInv, RInv, IInv', snap # None, snap' # None, ~loading,
           UNCHANGED <<disk, loading, serial, sends>>,
           Advances(snap, snap'),
           \/ saves' = saves
           \/ \E by \in {"cycle", "edit", "reset"} : Persist(by, snap'),
           AttemptIsSaved'
    PROVE  KeepsRecord
<1>1. snap \in Snapshot /\ snap' \in Snapshot /\ serial \in [Scopes -> Nat]
  BY RecordTypes DEF IInv, TypeOK
<1>2. AdvancesWith(snap, snap', serial, serial')
  BY <1>1, AdvancesIsAdvancesWith
<1>3. \A x \in Scopes : serial[x] <= serial'[x]
  BY <1>1
<1>4. QED
  BY <1>2, <1>3, MemoryStepKeepsRecord

\* Delivery starts.
LEMMA StartDispatchKeepsRecord ==
    ASSUME IInv, RInv, IInv', StartDispatch
    PROVE  KeepsRecord
<1>1. /\ snap \in Snapshot /\ snap # None /\ ~loading /\ cycle \in Cycle
      /\ cycle.t \in Int
  BY WorkingCycle DEF StartDispatch, Cycle
<1>2. /\ snap' = ReconcileDurableDelivery(snap, cycle.t)
      /\ UNCHANGED <<disk, loading, saves, serial, sends>>
  BY DEF StartDispatch
<1>3. Advances(snap, snap') /\ snap' # None
  BY <1>1, <1>2, ReconcileDurableDeliveryAdvances, ReconcileDurableDeliveryKeeps,
     NoneIsNoRecord
<1>4. cycle'.pc = "dispatching"
  BY <1>1 DEF StartDispatch, Cycle
<1>5. AttemptIsSaved'
  BY <1>4, NoAttempt
<1>6. QED
  BY <1>1, <1>2, <1>3, <1>5, ClosingStepKeepsRecord

\* Delivery ends.
LEMMA EndDispatchKeepsRecord ==
    ASSUME IInv, RInv, IInv', EndDispatch
    PROVE  KeepsRecord
<1>1. snap \in Snapshot /\ snap # None /\ ~loading /\ cycle \in Cycle
  BY WorkingCycle DEF EndDispatch
<1>2. /\ snap' = snap /\ Persist("cycle", snap')
      /\ UNCHANGED <<disk, loading, serial, sends>>
      /\ cycle'.pc = "closing"
  BY <1>1 DEF EndDispatch, Cycle, Persist
<1>3. AttemptIsSaved'
  BY <1>2, NoAttempt
<1>4. Advances(snap, snap')
  BY <1>1, <1>2, SamePendingAdvances
<1>5. QED
  BY <1>1, <1>2, <1>3, <1>4, ClosingStepKeepsRecord

\* An attempt is recorded in memory and queued for writing.
LEMMA AttemptKeepsRecord ==
    ASSUME IInv, RInv, IInv', Attempt
    PROVE  KeepsRecord
<1>1. /\ snap \in Snapshot /\ snap # None /\ ~loading /\ cycle \in Cycle
      /\ cycle.pc = "dispatching" /\ cycle.t \in Int
      /\ cycle.todo \in SUBSET Copies
      /\ saves \in Seq(Save) /\ sends \in [Copies -> Nat]
      /\ UNCHANGED <<disk, loading, serial, sends>>
  BY WorkingCycle DEF Attempt, Cycle, IInv, TypeOK
<1>2. PICK p \in Dispatchable :
        LET copy  == CopyAt(p)
            out   == copy.attempts >= MaxAttempts
            tried == [copy EXCEPT !.attempts = @ + 1,
                                  !.next = cycle.t + RetryDelay(copy.attempts + 1)]
            new   == WithCopy(snap, p, IF out THEN Closed(copy, "failed", cycle.t)
                                       ELSE tried)
        IN  /\ snap' = new
            /\ Persist("cycle", new)
            /\ cycle' = [cycle EXCEPT
                    !.pc   = IF out THEN "settling" ELSE "attempting",
                    !.todo = @ \ {p},
                    !.cur  = IF out THEN None ELSE p]
  BY DEF Attempt
<1> DEFINE copy  == CopyAt(p)
           out   == copy.attempts >= MaxAttempts
           tried == [copy EXCEPT !.attempts = @ + 1,
                                 !.next = cycle.t + RetryDelay(copy.attempts + 1)]
           after == IF out THEN Closed(copy, "failed", cycle.t) ELSE tried
<1>3. p \in Copies /\ IsCurrentPendingChannel(snap, p[1], p[2])
  BY <1>1 DEF Dispatchable, IsDispatchable
<1>4. Holds(snap, p) /\ copy.state = "pending"
  BY <1>3 DEF Holds, CopyAt, IsCurrentPendingChannel
<1>5. copy \in Copy /\ copy.attempts \in Int /\ copy.attempts = Attempts(snap, p)
      /\ copy.attempts <= MaxAttempts /\ 0 <= copy.attempts
      /\ DOMAIN copy = {"state", "attempts", "next", "doneAt"}
  BY <1>1, <1>3, <1>4, AttemptsType DEF CopyAt, Attempts, Copy
<1> HIDE DEF copy
<1>6. ~out => tried \in Copy /\ tried.state = "pending"
              /\ tried.attempts = copy.attempts + 1
  <2> SUFFICES ASSUME ~out
               PROVE  tried \in Copy /\ tried.state = "pending"
                      /\ tried.attempts = copy.attempts + 1
    OBVIOUS
  <2>1. copy.attempts + 1 \in 0..MaxAttempts
    BY <1>5, BoundsAssumption
  <2>2. cycle.t + RetryDelay(copy.attempts + 1) \in Int
    <3>1. copy.attempts + 1 \in Int
      BY <2>1
    <3>2. QED
      BY <1>1, <3>1, RetryDelayType
  <2>3. QED
    BY <1>4, <1>5, <2>1, <2>2 DEF Copy, OptTime
<1>7. after \in Copy /\ CopyAdvances(copy, after)
  <2>1. CASE out
    BY <1>1, <1>4, <1>5, <2>1, ClosedType, ClosedAdvances DEF CopyState
  <2>2. CASE ~out
    <3>1. after = tried
      BY <2>2
    <3>2. CopyAdvances(copy, tried)
      <4> HIDE DEF tried, out
      <4> QED BY <1>4, <1>5, <1>6, <2>2 DEF CopyAdvances, Rests
    <3>3. QED
      BY <1>6, <2>2, <3>1, <3>2
  <2>3. QED
    BY <2>1, <2>2
<1>8. /\ snap' = WithCopy(snap, p, after)
      /\ Persist("cycle", snap')
      /\ cycle'.pc = IF out THEN "settling" ELSE "attempting"
      /\ cycle'.cur = IF out THEN None ELSE p
  BY <1>1, <1>2 DEF Persist, Cycle, copy
<1> HIDE DEF after
<1>9. /\ Advances(snap, snap')
      /\ snap'.pending[p[1]].channels[p[2]] = after
  BY <1>1, <1>3, <1>4, <1>7, <1>8, WithCopyAdvances DEF copy, CopyAt
<1>10. snap' \in Snapshot /\ snap' # None
  BY <1>1, <1>3, <1>7, <1>8, WithCopyKeeps, NoneIsNoRecord
<1>11. AttemptIsSaved'
  <2>1. CASE out
    BY <1>8, <2>1, NoAttempt
  <2>2. CASE ~out
    <3>1. Allows(snap', p, sends)
      <4>1. sends[p] <= copy.attempts /\ sends[p] \in Nat
        BY <1>1, <1>3, <1>4, <1>5 DEF RInv, AllRecorded, Recorded
      <4>2. after.attempts = copy.attempts + 1
        BY <1>6, <2>2 DEF after
      <4>3. QED
        BY <1>5, <1>9, <4>1, <4>2 DEF Allows, Attempts
    <3>2. /\ Len(saves) \in Nat
          /\ Len(saves') = Len(saves) + 1
          /\ \A i \in 1..Len(saves) : saves'[i] = saves[i]
          /\ saves'[Len(saves) + 1].snap = snap'
      BY <1>1, <1>8, <1>10, PersistAppends
    <3>3. \A i \in 1..Len(saves) : saves[i].by # "cycle"
      BY <1>1 DEF IInv, CycleSaves, Waiting
    <3>4. ASSUME NEW i \in 1..Len(saves'), NEW j \in 1..Len(saves'),
                 saves'[i].by = "cycle", i <= j
          PROVE  Allows(saves'[j].snap, p, sends)
      <4>1. i = Len(saves) + 1
        BY <3>2, <3>3, <3>4
      <4>2. j = Len(saves) + 1
        BY <3>2, <3>4, <4>1
      <4>3. QED
        BY <3>1, <3>2, <4>2
    <3>5. cycle'.pc = "attempting" /\ cycle'.cur = p
      BY <1>8, <2>2
    <3>6. QED
      BY <1>1, <3>1, <3>4, <3>5 DEF AttemptIsSaved
  <2>3. QED
    BY <2>1, <2>2
<1>12. QED
  BY <1>1, <1>8, <1>9, <1>10, <1>11, ClosingStepKeepsRecord

\* The candidate is looked at again.
LEMMA RecheckKeepsRecord ==
    ASSUME IInv, RInv, Recheck
    PROVE  KeepsRecord
<1>1. /\ cycle \in Cycle /\ cycle.pc = "rechecking"
      /\ UNCHANGED <<disk, snap, loading, saves, serial, sends>>
      /\ cycle' = IF IsCurrent(cycle.cur) THEN [cycle EXCEPT !.pc = "resolving"]
                  ELSE NextCandidate
  BY DEF Recheck, IInv, TypeOK
<1>2. AttemptIsSaved'
  <2>1. CASE IsCurrent(cycle.cur)
    <3>1. cycle'.pc = "resolving" /\ cycle'.cur = cycle.cur
      BY <1>1, <2>1 DEF Cycle
    <3>2. QED
      BY <1>1, <3>1 DEF RInv, AttemptIsSaved
  <2>2. CASE ~IsCurrent(cycle.cur)
    BY <1>1, <2>2, NextCandidateType, NoAttempt
  <2>3. QED
    BY <2>1, <2>2
<1>3. QED
  BY <1>1, <1>2, QuietStepKeepsRecord

\* The outcome of an attempt advances its copy.
LEMMA SettledAdvances ==
    ASSUME snap \in Snapshot, NEW p \in Copies, IsCurrent(p), NEW outcome
    PROVE  CopyAdvances(CopyAt(p), Settled(p, outcome))
<1> DEFINE copy == CopyAt(p)
<1>1. Holds(snap, p) /\ copy.state = "pending"
  BY DEF IsCurrent, IsCurrentPendingChannel, Holds, CopyAt
<1>2. copy \in Copy
  BY <1>1, AttemptsType DEF CopyAt
<1> HIDE DEF copy
<1>3. \A verdict : CopyAdvances(copy, Closed(copy, verdict, now))
  BY <1>1, <1>2, ClosedAdvances
<1>4. \A next : CopyAdvances(copy, [copy EXCEPT !.next = next])
  <2>1. DOMAIN copy = {"state", "attempts", "next", "doneAt"}
        /\ copy.attempts \in Int
    BY <1>2, BoundsAssumption DEF Copy
  <2>2. QED
    BY <1>1, <2>1 DEF CopyAdvances, Rests
<1>5. QED
  BY <1>3, <1>4 DEF Settled, copy

\* An outcome is recorded, or dropped if the copy is no longer current.
LEMMA SettleKeepsRecord ==
    ASSUME IInv, RInv, IInv', cycle.pc \in {"resolving", "sending", "answering"},
           NEW outcome, outcome.at \in Int, Settle(outcome),
           UNCHANGED <<disk, loading, serial, sends>>
    PROVE  KeepsRecord
<1>1. /\ snap \in Snapshot /\ snap # None /\ ~loading /\ now \in Int
      /\ cycle \in Cycle /\ cycle.cur \in Copies
  BY WorkingCycle DEF IInv, Coherent, InHand
<1>2. CASE ~IsCurrent(cycle.cur)
  <2>1. cycle' = NextCandidate /\ snap' = snap /\ saves' = saves
    BY <1>2 DEF Settle
  <2>2. AttemptIsSaved'
    BY <1>1, <2>1, NextCandidateType, NoAttempt
  <2>3. QED
    BY <2>1, <2>2, QuietStepKeepsRecord
<1>3. CASE IsCurrent(cycle.cur)
  <2> DEFINE after == Settled(cycle.cur, outcome)
  <2>1. snap' = WithCopy(snap, cycle.cur, after) /\ Persist("cycle", snap')
        /\ cycle' = [NextCandidate EXCEPT !.pc = "settling"]
    BY <1>3 DEF Settle, Persist
  <2>2. after \in Copy /\ CopyAdvances(CopyAt(cycle.cur), after)
    BY <1>1, <1>3, SettledType, SettledAdvances
  <2>3. Holds(snap, cycle.cur)
    BY <1>3 DEF IsCurrent, IsCurrentPendingChannel, Holds
  <2> HIDE DEF after
  <2>4. Advances(snap, snap')
    BY <1>1, <2>1, <2>2, <2>3, WithCopyAdvances DEF CopyAt
  <2>5. snap' # None
    BY <1>1, <1>3, <2>1, <2>2, WithCopyKeeps, NoneIsNoRecord DEF IsCurrent
  <2>6. cycle'.pc = "settling"
    BY <1>1, <2>1, NextCandidateType DEF Cycle
  <2>7. AttemptIsSaved'
    BY <2>6, NoAttempt
  <2>8. QED
    BY <1>1, <2>1, <2>4, <2>5, <2>7, ClosingStepKeepsRecord
<1>4. QED
  BY <1>2, <1>3

\* The provider is contacted: the contact is already on record everywhere.
LEMMA ContactProviderKeepsRecord ==
    ASSUME IInv, RInv, ContactProvider
    PROVE  KeepsRecord
<1> DEFINE p == cycle.cur
<1>1. /\ cycle.pc = "sending" /\ ~cycle.aborted
      /\ sends' = [sends EXCEPT ![p] = @ + 1]
      /\ cycle' = [cycle EXCEPT !.pc = "answering"]
      /\ UNCHANGED <<disk, snap, loading, saves, serial>>
  BY DEF ContactProvider
<1>2. /\ snap \in Snapshot /\ snap # None /\ cycle \in Cycle /\ p \in Copies
      /\ sends \in [Copies -> Nat] /\ serial \in [Scopes -> Nat]
      /\ disk \in Snapshot
      /\ \A i \in 1..Len(saves) : saves[i].snap \in Snapshot
  BY <1>1, WorkingCycle, RecordTypes DEF IInv, Coherent, InHand
<1>3. Holds(snap, p)
  BY <1>1 DEF IInv, InFlightDeliveryIsCurrent, IsCurrent, IsCurrentPendingChannel, Holds
<1>4. /\ Allows(disk, p, sends) /\ Allows(snap, p, sends)
      /\ \A i \in 1..Len(saves) : Allows(saves[i].snap, p, sends)
  BY <1>1 DEF RInv, AttemptIsSaved
<1> HIDE DEF p
<1>5. sends'[p] = sends[p] + 1
      /\ \A q \in Copies : q # p => sends'[q] = sends[q]
  BY <1>1, <1>2
<1>6. ASSUME NEW s \in Snapshot, Recorded(s, serial, sends), Allows(s, p, sends)
      PROVE  Recorded(s, serial, sends')
  <2>1. ASSUME NEW q \in Copies, Holds(s, q)
        PROVE  sends'[q] <= Attempts(s, q)
    BY <1>5, <1>6, <2>1 DEF Recorded, Allows
  <2>2. QED
    BY <1>6, <2>1 DEF Recorded
<1>7. AllRecorded'
  BY <1>1, <1>2, <1>4, <1>6 DEF RInv, AllRecorded
<1>8. ContactsBounded'
  <2>1. sends'[p] <= MaxAttempts
    <3>1. /\ sends[p] + 1 <= Attempts(snap, p)
          /\ Attempts(snap, p) \in Int /\ Attempts(snap, p) <= MaxAttempts
      BY <1>2, <1>3, <1>4, AttemptsType DEF Allows
    <3>2. QED
      BY <1>2, <1>5, <3>1, BoundsAssumption
  <2>2. ~(p[1][2] > serial[p[1][1]])
    <3>1. p[1][2] <= serial[p[1][1]]
      BY <1>2, <1>3, CopyNames DEF RInv, AllRecorded, Recorded, Holds
    <3>2. p[1][2] \in Int /\ serial[p[1][1]] \in Nat
      BY <1>2, CopyNames
    <3>3. QED
      BY <3>1, <3>2
  <2>3. ASSUME NEW q \in Copies
        PROVE  /\ sends'[q] <= MaxAttempts
               /\ q[1][2] > serial[q[1][1]] => sends'[q] = 0
    <3>1. CASE q = p
      BY <2>1, <2>2, <3>1
    <3>2. CASE q # p
      BY <1>5, <3>2 DEF RInv, ContactsBounded
    <3>3. QED
      BY <3>1, <3>2
  <2>4. QED
    BY <1>1, <2>3 DEF ContactsBounded
<1>9. VerdictsInOrder' /\ OnlyResetsWhileLoading'
  BY <1>1 DEF RInv, VerdictsInOrder, OnlyResetsWhileLoading
<1>10. AttemptIsSaved'
  <2>1. cycle'.pc = "answering"
    BY <1>1, <1>2 DEF Cycle
  <2>2. QED
    BY <2>1, NoAttempt
<1>11. KeepsFinal(disk, disk') /\ KeepsFinal(snap, snap') /\ LedgerAdvances
  BY <1>1, KeepsOwnFinal, SameLedgerAdvances
<1>12. QED
  BY <1>7, <1>8, <1>9, <1>10, <1>11 DEF RInv, KeepsRecord

\* The adapter resolves, contacts, declines, hears from the provider or is aborted.
LEMMA DeliveryKeepsRecord ==
    ASSUME IInv, RInv, IInv',
           \/ Resolve \/ ContactProvider \/ DeclineDelivery
           \/ ProviderAnswers \/ DeliveryAborted
    PROVE  KeepsRecord
<1>1. now \in Int /\ \A kind : Outcome(kind).at \in Int
  BY DEF IInv, TypeOK, Outcome
<1>2. CASE Resolve
  <2>1. CASE ~cycle.aborted /\ Resolvable(cycle.cur)
    <3>1. /\ cycle' = [cycle EXCEPT !.pc = "sending"] /\ cycle.pc = "resolving"
          /\ UNCHANGED <<disk, snap, loading, saves, serial, sends>>
      BY <1>2, <2>1 DEF Resolve
    <3>2. cycle'.pc = "sending" /\ cycle'.cur = cycle.cur
      BY <3>1 DEF IInv, TypeOK, Cycle
    <3>3. AttemptIsSaved'
      BY <3>1, <3>2 DEF RInv, AttemptIsSaved
    <3>4. QED
      BY <3>1, <3>3, QuietStepKeepsRecord
  <2>2. CASE ~(~cycle.aborted /\ Resolvable(cycle.cur))
    BY <1>1, <1>2, <2>2, SettleKeepsRecord DEF Resolve
  <2>3. QED
    BY <2>1, <2>2
<1>3. CASE ContactProvider
  BY <1>3, ContactProviderKeepsRecord
<1>4. CASE DeclineDelivery
  BY <1>1, <1>4, SettleKeepsRecord DEF DeclineDelivery
<1>5. CASE ProviderAnswers
  <2>1. PICK outcome \in ProviderOutcomes(cycle.cur[2]) : Settle(outcome)
    BY <1>5 DEF ProviderAnswers
  <2>2. outcome.at \in Int
    BY <1>1, <2>1, EnvironmentAssumption DEF ProviderOutcomes
  <2>3. QED
    BY <1>5, <2>1, <2>2, SettleKeepsRecord DEF ProviderAnswers
<1>6. CASE DeliveryAborted
  BY <1>1, <1>6, SettleKeepsRecord DEF DeliveryAborted
<1>7. QED
  BY <1>2, <1>3, <1>4, <1>5, <1>6

\* A new save that allows the contact to come is queued behind the attempt's.
LEMMA AttemptStaysSaved ==
    ASSUME IInv, RInv, NEW new \in Snapshot, NEW by \in {"edit", "reset"},
           Persist(by, new), snap' = new, UNCHANGED <<disk, sends>>,
           cycle'.pc = cycle.pc, cycle'.cur = cycle.cur,
           cycle.pc \in {"attempting", "rechecking", "resolving", "sending"}
                => Allows(new, cycle.cur, sends)
    PROVE  AttemptIsSaved'
<1>1. /\ saves \in Seq(Save) /\ Len(saves) \in Nat
  BY RecordTypes
<1>2. \A i \in 1..Len(saves') :
        \/ i \in 1..Len(saves) /\ saves'[i] = saves[i]
        \/ i = Len(saves) + 1 /\ saves'[i].snap = new /\ saves'[i].by = by
  <2>1. /\ Len(saves') = Len(saves) + 1
        /\ \A i \in 1..Len(saves) : saves'[i] = saves[i]
        /\ saves'[Len(saves) + 1].snap = new
        /\ saves'[Len(saves) + 1].by = by
    BY <1>1, PersistAppends
  <2>2. QED
    BY <1>1, <2>1
<1>3. CASE cycle.pc = "attempting"
  <2>1. ASSUME NEW i \in 1..Len(saves'), NEW j \in 1..Len(saves'),
               saves'[i].by = "cycle", i <= j
        PROVE  Allows(saves'[j].snap, cycle.cur, sends)
    <3>1. i \in 1..Len(saves) /\ saves[i].by = "cycle"
      BY <1>2, <2>1
    <3>2. CASE j \in 1..Len(saves) /\ saves'[j] = saves[j]
      BY <1>3, <2>1, <3>1, <3>2 DEF RInv, AttemptIsSaved
    <3>3. CASE saves'[j].snap = new
      BY <1>3, <3>3
    <3>4. QED
      BY <1>2, <3>2, <3>3
  <2>2. QED
    BY <1>3, <2>1 DEF AttemptIsSaved
<1>4. CASE cycle.pc \in {"rechecking", "resolving", "sending"}
  <2>1. \A j \in 1..Len(saves') : Allows(saves'[j].snap, cycle.cur, sends)
    BY <1>2, <1>4 DEF RInv, AttemptIsSaved
  <2>2. QED
    BY <1>4, <2>1 DEF RInv, AttemptIsSaved
<1>5. CASE cycle.pc \notin {"attempting", "rechecking", "resolving", "sending"}
  BY <1>5, NoAttempt
<1>6. QED
  BY <1>3, <1>4, <1>5

\* An edit that advances the ledger.
LEMMA EditKeepsRecord ==
    ASSUME IInv, RInv, IInv', NEW ws, NEW new \in Snapshot, Edit(ws, new),
           Advances(snap, new)
    PROVE  KeepsRecord
<1>1. /\ snap' = new /\ snap # None /\ ~loading /\ Persist("edit", new)
      /\ UNCHANGED <<disk, loading, serial, sends>>
  BY DEF Edit, Ready
<1>2. cycle'.pc = cycle.pc /\ cycle'.cur = cycle.cur
  <2>1. cycle \in Cycle
    BY DEF IInv, TypeOK
  <2> DEFINE aborted == \/ cycle.aborted
                        \/ /\ cycle.pc \in {"resolving", "sending", "answering"}
                           /\ cycle.cur[1][1][1] \in ws
  <2>2. cycle' = [cycle EXCEPT !.aborted = aborted]
    BY DEF Edit
  <2> HIDE DEF aborted
  <2>3. QED
    BY <2>1, <2>2 DEF Cycle
<1>3. /\ snap \in Snapshot /\ sends \in [Copies -> Nat]
      /\ Recorded(snap, serial, sends)
  BY <1>1, RecordTypes DEF RInv, AllRecorded
<1>4. cycle.pc \in {"attempting", "rechecking", "resolving", "sending"}
        => Allows(new, cycle.cur, sends)
  <2> SUFFICES ASSUME cycle.pc \in {"attempting", "rechecking", "resolving", "sending"}
               PROVE  Allows(new, cycle.cur, sends)
    OBVIOUS
  <2>1. cycle.cur \in Copies /\ Allows(snap, cycle.cur, sends)
    BY DEF IInv, Coherent, InHand, RInv, AttemptIsSaved
  <2>2. QED
    BY <1>3, <2>1, AllowsAdvances
<1>5. AttemptIsSaved'
  BY <1>1, <1>2, <1>4, AttemptStaysSaved
<1>6. snap' # None /\ Advances(snap, snap')
  BY <1>1, NoneIsNoRecord
<1>7. QED
  BY <1>1, <1>5, <1>6, ClosingStepKeepsRecord

\* The user adds, edits, switches or deletes a watch, or disconnects Telegram.
LEMMA WatchEditKeepsRecord ==
    ASSUME IInv, RInv, IInv',
           \/ \E w \in Watches, form \in WatchForms : AddWatch(w, form)
           \/ \E w \in Watches, form \in WatchForms : ReplaceWatch(w, form)
           \/ \E w \in Watches, enabled \in BOOLEAN : SetWatchEnabled(w, enabled)
           \/ \E w \in Watches : DeleteWatch(w)
           \/ DisablePersonalTelegramForAllWatches
    PROVE  KeepsRecord
<1>1. snap # None
  BY DEF AddWatch, ReplaceWatch, SetWatchEnabled, DeleteWatch,
         DisablePersonalTelegramForAllWatches, Edit, Ready
<1>2. /\ snap \in Snapshot /\ now \in Int /\ snap' \in Snapshot \cup {None}
      /\ DOMAIN snap = {"watches", "items", "delivery", "pending",
                        "nextEligibleAt", "failures"}
      /\ snap.watches \in [Watches -> Watch \cup {None}]
  BY <1>1, RecordTypes DEF IInv, TypeOK, Snapshot
<1>3. \A ws, new : Edit(ws, new) => snap' = new
  BY DEF Edit
<1>4. ASSUME NEW ws, NEW new, Edit(ws, new), Advances(snap, new), new # None
      PROVE  KeepsRecord
  <2>1. new \in Snapshot
    BY <1>2, <1>3, <1>4
  <2>2. QED
    BY <1>4, <2>1, EditKeepsRecord
<1>5. ASSUME NEW ws, NEW watches,
             Edit(ws, PruneForWatchRevision([snap EXCEPT !.watches = watches], ws, now)),
             watches \in [Watches -> Watch \cup {None}],
             ws \in SUBSET Watches, \A w \in ws : watches[w] # None
      PROVE  KeepsRecord
  <2> DEFINE mid == [snap EXCEPT !.watches = watches]
             new == PruneForWatchRevision(mid, ws, now)
  <2>1. mid \in Snapshot /\ mid.pending = snap.pending /\ mid.watches = watches
    BY <1>2, <1>5 DEF Snapshot
  <2> HIDE DEF mid
  <2>2. new \in Snapshot /\ Advances(mid, new)
    BY <1>2, <1>5, <2>1, PruneForWatchRevisionKeeps, PruneForWatchRevisionAdvances
  <2> HIDE DEF new
  <2>3. Advances(snap, new)
    BY <2>1, <2>2 DEF Advances
  <2>4. Edit(ws, new)
    BY <1>5 DEF new, mid
  <2>5. QED
    BY <2>2, <2>3, <2>4, EditKeepsRecord
<1>6. ASSUME NEW w \in Watches, NEW watch \in Watch, Edit({w}, Replaced(snap, w, watch))
      PROVE  KeepsRecord
  <2> DEFINE watches == [snap.watches EXCEPT ![w] = watch]
  <2>1. watches \in [Watches -> Watch \cup {None}] /\ watches[w] = watch
    BY <1>2
  <2>2. Edit({w}, PruneForWatchRevision([snap EXCEPT !.watches = watches], {w}, now))
    BY <1>6 DEF Replaced
  <2> HIDE DEF watches
  <2>3. watches[w] # None
    BY <2>1, NoneIsNoRecord
  <2>4. QED
    BY <1>5, <2>1, <2>2, <2>3
<1>7. CASE \E w \in Watches, form \in WatchForms : AddWatch(w, form)
  <2>1. PICK w \in Watches, form \in WatchForms : AddWatch(w, form)
    BY <1>7
  <2> DEFINE new == [snap EXCEPT !.watches[w] = WithRev(form, now)]
  <2>2. Edit({w}, new)
    BY <2>1 DEF AddWatch
  <2>3. new.pending = snap.pending
    BY <1>2
  <2>4. new \in Snapshot
    <3> DEFINE watches == [snap.watches EXCEPT ![w] = WithRev(form, now)]
    <3>1. watches \in [Watches -> Watch \cup {None}]
      BY <1>2, WithRevType
    <3>2. new = [snap EXCEPT !.watches = watches]
      OBVIOUS
    <3> HIDE DEF watches, new
    <3>3. QED
      BY <1>2, <3>1, <3>2 DEF Snapshot
  <2> HIDE DEF new
  <2>5. QED
    BY <1>2, <2>2, <2>3, <2>4, SamePendingAdvances, EditKeepsRecord
<1>8. CASE \E w \in Watches, form \in WatchForms : ReplaceWatch(w, form)
  <2>1. PICK w \in Watches, form \in WatchForms : ReplaceWatch(w, form)
    BY <1>8
  <2>2. NextRev(w) \in Int
    BY <1>2, <2>1, NextRevIsLater DEF ReplaceWatch
  <2>3. QED
    BY <1>6, <2>1, <2>2, WithRevType DEF ReplaceWatch
<1>9. CASE \E w \in Watches, enabled \in BOOLEAN : SetWatchEnabled(w, enabled)
  <2>1. PICK w \in Watches, enabled \in BOOLEAN : SetWatchEnabled(w, enabled)
    BY <1>9
  <2>2. NextRev(w) \in Int /\ snap.watches[w] \in Watch
    BY <1>2, <2>1, NextRevIsLater DEF SetWatchEnabled
  <2>3. [snap.watches[w] EXCEPT !.enabled = enabled, !.rev = NextRev(w)] \in Watch
    BY <2>2 DEF Watch
  <2>4. QED
    BY <1>6, <2>1, <2>3 DEF SetWatchEnabled
<1>10. CASE \E w \in Watches : DeleteWatch(w)
  <2>1. PICK w \in Watches : DeleteWatch(w)
    BY <1>10
  <2>2. Edit({w}, WithoutWatch(snap, w))
    BY <2>1 DEF DeleteWatch
  <2>3. WithoutWatch(snap, w) \in Snapshot /\ Advances(snap, WithoutWatch(snap, w))
    BY <1>2, WithoutWatchKeeps, WithoutWatchAdvances
  <2>4. QED
    BY <2>2, <2>3, EditKeepsRecord
<1>11. CASE DisablePersonalTelegramForAllWatches
  <2> DEFINE watches == [w \in Watches |->
                IF w \in TelegramWatches
                THEN [snap.watches[w] EXCEPT !.channels = @ \ {Telegram},
                                             !.rev = NextRev(w)]
                ELSE snap.watches[w]]
  <2>1. Edit(TelegramWatches,
             PruneForWatchRevision([snap EXCEPT !.watches = watches],
                                   TelegramWatches, now))
    BY <1>11 DEF DisablePersonalTelegramForAllWatches
  <2>2. TelegramWatches \in SUBSET Watches
        /\ \A w \in TelegramWatches : snap.watches[w] # None
    BY DEF TelegramWatches
  <2>3. ASSUME NEW w \in TelegramWatches
        PROVE  watches[w] \in Watch
    <3>1. w \in Watches /\ snap.watches[w] \in Watch
      BY <1>2, <2>2
    <3>2. NextRev(w) \in Int
      BY <1>2, <2>2, <3>1, NextRevIsLater
    <3> DEFINE watch == [snap.watches[w] EXCEPT !.channels = @ \ {Telegram},
                                                !.rev = NextRev(w)]
    <3>3. watch \in Watch
      BY <3>1, <3>2 DEF Watch
    <3>4. watches[w] = watch
      BY <3>1
    <3>5. QED
      BY <3>3, <3>4
  <2>4. watches \in [Watches -> Watch \cup {None}]
    <3>1. \A w \in Watches : watches[w] \in Watch \cup {None}
      BY <1>2, <2>3
    <3>2. QED
      BY <3>1
  <2> HIDE DEF watches
  <2>5. \A w \in TelegramWatches : watches[w] # None
    BY <2>3, NoneIsNoRecord
  <2>6. QED
    BY <1>5, <2>1, <2>2, <2>4, <2>5
<1>12. QED
  BY <1>7, <1>8, <1>9, <1>10, <1>11

\* The user resets: the empty snapshot holds no verdict and no attempt.
LEMMA ResetKeepsRecord ==
    ASSUME IInv, RInv, Reset
    PROVE  KeepsRecord
<1>1. /\ snap' = EmptySnapshot /\ Persist("reset", EmptySnapshot)
      /\ UNCHANGED <<disk, loading, serial, sends>>
      /\ saves \in Seq(Save) /\ Len(saves) \in Nat
  BY RecordTypes DEF Reset
<1> DEFINE aborted == \/ cycle.aborted
                      \/ cycle.pc \in {"resolving", "sending", "answering"}
<1>2. cycle'.pc = cycle.pc /\ cycle'.cur = cycle.cur
  <2>1. cycle' = [cycle EXCEPT !.aborted = aborted] /\ cycle \in Cycle
    BY DEF Reset, IInv, TypeOK
  <2> HIDE DEF aborted
  <2>2. QED
    BY <2>1 DEF Cycle
<1>3. /\ EmptySnapshot \in Snapshot
      /\ \A id \in EventIds : EmptySnapshot.pending[id] = None
  BY EmptySnapshotType
<1>4. /\ Recorded(EmptySnapshot, serial, sends)
      /\ \A p \in Copies : Allows(EmptySnapshot, p, sends)
      /\ \A s : KeepsFinal(s, EmptySnapshot) /\ KeepsFinal(EmptySnapshot, s)
  BY <1>3, CopyNames DEF Recorded, Allows, Holds, KeepsFinal, IsFinal
<1>5. \A i \in 1..Len(saves') :
        \/ i \in 1..Len(saves) /\ saves'[i] = saves[i]
        \/ i = Len(saves) + 1 /\ saves'[i].snap = EmptySnapshot
  <2>1. /\ Len(saves') = Len(saves) + 1
        /\ \A i \in 1..Len(saves) : saves'[i] = saves[i]
        /\ saves'[Len(saves) + 1].snap = EmptySnapshot
    BY <1>1, <1>3, PersistAppends
  <2>2. QED
    BY <1>1, <2>1
<1>6. AllRecorded' /\ ContactsBounded'
  BY <1>1, <1>4, <1>5 DEF RInv, AllRecorded, ContactsBounded
<1>7. VerdictsInOrder'
  <2>1. ASSUME NEW i \in 1..Len(saves')
        PROVE  KeepsFinal(disk, saves'[i].snap)
    BY <1>4, <1>5 DEF RInv, VerdictsInOrder
  <2>2. ASSUME NEW i \in 1..Len(saves'), NEW j \in 1..Len(saves'), i < j
        PROVE  KeepsFinal(saves'[i].snap, saves'[j].snap)
    BY <1>4, <1>5, <2>2 DEF RInv, VerdictsInOrder
  <2>3. QED
    BY <1>1, <1>4, <2>1, <2>2 DEF VerdictsInOrder
<1>8. OnlyResetsWhileLoading'
  BY <1>1, <1>3, <1>5 DEF RInv, OnlyResetsWhileLoading
<1>9. AttemptIsSaved'
  <2>1. cycle.pc \in {"attempting", "rechecking", "resolving", "sending"}
          => Allows(EmptySnapshot, cycle.cur, sends)
    BY <1>4 DEF IInv, Coherent, InHand
  <2>2. QED
    BY <1>1, <1>2, <1>3, <2>1, AttemptStaysSaved
<1>10. KeepsFinal(disk, disk') /\ KeepsFinal(snap, snap')
  BY <1>1, <1>4, KeepsOwnFinal
<1>11. LedgerAdvances
  BY <1>1, <1>3, RecordTypes DEF LedgerAdvances, AdvancesWith
<1>12. QED
  BY <1>6, <1>7, <1>8, <1>9, <1>10, <1>11 DEF RInv, KeepsRecord

-------------------------------------------------------------------------------
(* The theorems *)

\* Every step keeps the inductive invariant.
LEMMA NextKeepsIInv == IInv /\ [Next]_vars => IInv'
<1> SUFFICES ASSUME IInv, [Next]_vars PROVE IInv'
  OBVIOUS
<1>1. CASE UNCHANGED vars
  BY <1>1, StutteringKeeps
<1>2. CASE Tick
  BY <1>2, TickKeeps
<1>3. CASE SetClockBack
  BY <1>3, SetClockBackKeeps
<1>4. CASE WakeWhileBusy
  BY <1>4, WakeWhileBusyKeeps
<1>5. alarm \in Alarm /\ RungAlarm \in Alarm
  BY RungAlarmType DEF IInv, TypeOK
<1>6. CASE Open \/ WakeCold
  BY <1>5, <1>6, BootWithKeeps DEF Open, WakeCold
<1>7. CASE FinishLoad
  BY <1>7, FinishLoadKeeps
<1>8. CASE Crash
  BY <1>8, CrashKeeps
<1>9. CASE LearnStores \/ LoadFails \/ ReadAgain \/ StartMonitor
  BY <1>9, LearnStoresKeeps, LoadFailsKeeps, ReadAgainKeeps, StartMonitorKeeps
<1>10. CASE WriteSucceeds
  BY <1>10, WriteSucceedsKeeps
<1>11. CASE WriteFails
  BY <1>11, WriteFailsKeeps
<1>12. CASE Wake \/ CheckNow
  <2>1. {} \in SUBSET Watches
    OBVIOUS
  <2>2. QED
    BY <1>5, <1>12, <2>1, BeginCycleKeeps DEF Wake, CheckNow
<1>13. CASE CycleStep
  BY <1>13, FetchSettlesKeeps, StartDispatchKeeps, AttemptKeeps, EndDispatchKeeps,
     RecheckKeeps, DeliveryKeeps DEF CycleStep
<1>14. CASE UserEdit
  BY <1>14, AddWatchKeeps, ReplaceWatchKeeps, SetWatchEnabledKeeps,
     DeleteWatchKeeps, DisablePersonalTelegramKeeps, ResetKeeps DEF UserEdit
<1>15. QED
  BY <1>1, <1>2, <1>3, <1>4, <1>6, <1>7, <1>8, <1>9, <1>10, <1>11, <1>12,
     <1>13, <1>14 DEF Next

\* Every step keeps the record of attempts and verdicts.
LEMMA NextKeepsRecord == IInv /\ RInv /\ [Next]_vars => KeepsRecord
<1> SUFFICES ASSUME IInv, RInv, [Next]_vars PROVE KeepsRecord
  OBVIOUS
<1>1. IInv'
  BY NextKeepsIInv
<1>2. CASE UNCHANGED vars
  BY <1>2, IdleStepKeepsRecord DEF vars
<1>3. CASE Tick \/ SetClockBack \/ WakeWhileBusy \/ LearnStores
  BY <1>3, IdleStepKeepsRecord DEF Tick, SetClockBack, WakeWhileBusy, LearnStores
<1>4. CASE Open \/ WakeCold \/ LoadFails \/ ReadAgain \/ StartMonitor
  <2>1. /\ UNCHANGED <<disk, snap, saves, cycle, serial, sends>>
        /\ loading' => loading \/ saves = << >>
    BY <1>4 DEF Open, WakeCold, BootWith, Alive, LoadFails, ReadAgain, StartMonitor,
                IInv, Coherent
  <2>2. QED
    BY <2>1, IdleStepKeepsRecord
<1>5. CASE FinishLoad
  BY <1>1, <1>5, FinishLoadKeepsRecord
<1>6. CASE Crash
  BY <1>6, CrashKeepsRecord
<1>7. CASE WriteSucceeds
  BY <1>7, WriteSucceedsKeepsRecord
<1>8. CASE WriteFails
  BY <1>8, WriteFailsKeepsRecord
<1>9. CASE Wake \/ CheckNow
  <2>1. {} \in SUBSET Watches
    OBVIOUS
  <2>2. QED
    BY <1>1, <1>9, <2>1, BeginCycleKeepsRecord DEF Wake, CheckNow
<1>10. CASE CycleStep
  BY <1>1, <1>10, FetchSettlesKeepsRecord, StartDispatchKeepsRecord,
     AttemptKeepsRecord, EndDispatchKeepsRecord, RecheckKeepsRecord,
     DeliveryKeepsRecord DEF CycleStep
<1>11. CASE UserEdit
  BY <1>1, <1>11, WatchEditKeepsRecord, ResetKeepsRecord DEF UserEdit
<1>12. QED
  BY <1>2, <1>3, <1>4, <1>5, <1>6, <1>7, <1>8, <1>9, <1>10, <1>11 DEF Next

\* The inductive invariant holds in every reachable state.
THEOREM IInvAlways == Spec => []IInv
<1>1. QED
  BY InitIInv, NextKeepsIInv, PTL DEF Spec

\* Every variable keeps its type, for any watches, stock, channels and bounds.
THEOREM TypeCorrect == Spec => []TypeOK
<1>1. IInv => TypeOK
  BY DEF IInv
<1>2. QED
  BY <1>1, IInvAlways, PTL

\* No interleaving of edits, polls, saves, crashes and restarts leaves work to be
\* delivered, in memory, in a queued write or on disk, that the user's present
\* watches do not ask for.
THEOREM PendingWorkIsAlwaysAuthorised == Spec => []PendingWorkIsAuthorised
<1>1. IInv => PendingWorkIsAuthorised
  BY DEF IInv, AllSound, SavesSound, Sound, PendingWorkIsAuthorised, Snapshots
<1>2. QED
  BY <1>1, IInvAlways, PTL

\* An adapter never works on a delivery that an edit has revoked without having been
\* told to abort it.
THEOREM InFlightDeliveryIsAlwaysCurrent == Spec => []InFlightDeliveryIsCurrent
<1>1. IInv => InFlightDeliveryIsCurrent
  BY DEF IInv
<1>2. QED
  BY <1>1, IInvAlways, PTL

\* Every reachable state keeps the record of attempts and verdicts.
THEOREM RInvAlways == Spec => []RInv
<1>1. IInv /\ RInv /\ [Next]_vars => RInv'
  BY NextKeepsRecord DEF KeepsRecord
<1>2. QED
  BY <1>1, InitRInv, IInvAlways, PTL DEF Spec

\* However often the worker dies or a write fails, a provider is contacted at most
\* MaxAttempts times for a copy, and the disk never records fewer attempts than that.
THEOREM ContactsAreAlwaysOnRecord == Spec => []ContactsAreOnRecord
<1>1. RInv => ContactsAreOnRecord
  BY DEF RInv, AllRecorded, Recorded, Holds, Attempts, ContactsBounded,
         ContactsAreOnRecord
<1>2. QED
  BY <1>1, RInvAlways, PTL

\* A copy that has been delivered, failed, revoked, expired or superseded keeps that
\* verdict on disk across every write, crash and reset, and in memory while the
\* engine works.
THEOREM VerdictsAreFinal == Spec => TerminalIsFinal
<1>1. IInv /\ RInv /\ [Next]_vars
        => [/\ KeepsFinal(disk, disk')
            /\ Working => KeepsFinal(snap, snap')]_vars
  BY NextKeepsRecord DEF KeepsRecord
<1>2. QED
  BY <1>1, IInvAlways, RInvAlways, PTL DEF Spec, TerminalIsFinal

-------------------------------------------------------------------------------
(***************************************************************************)
(* What storage accepts.  FInv says that every snapshot fits (see          *)
(* MonitorSnapshotProofs): what storage refuses, and a deferred alert no   *)
(* watch asks for, are never there.                                        *)
(***************************************************************************)

\* The disk, memory and every queued write fit.
FInv ==
    /\ Fits(disk)
    /\ snap # None => Fits(snap)
    /\ \A i \in 1..Len(saves) : Fits(saves[i].snap)

\* What storage holds at first fits.
LEMMA InitFInv == Init => FInv
<1> SUFFICES ASSUME Init PROVE FInv
  OBVIOUS
<1>1. PICK watches : disk = [EmptySnapshot EXCEPT !.watches = watches]
  BY DEF Init
<1>2. /\ disk.items = EmptySnapshot.items /\ disk.delivery = EmptySnapshot.delivery
      /\ disk.pending = EmptySnapshot.pending
  BY <1>1 DEF EmptySnapshot
<1>3. Fits(disk)
  BY <1>2, WatchesAloneFit
<1>4. snap = None /\ Len(saves) = 0
  BY DEF Init
<1>5. QED
  BY <1>3, <1>4 DEF FInv

\* What every step that changes memory has to show.
LEMMA MemoryStepFits ==
    ASSUME IInv, FInv, disk' = disk, snap' # None => Fits(snap'),
           \/ saves' = saves
           \/ /\ snap' \in Snapshot
              /\ \E by \in {"cycle", "edit", "reset"} : Persist(by, snap')
    PROVE  FInv'
<1>1. saves \in Seq(Save)
  BY DEF IInv, TypeOK
<1>2. CASE saves' = saves
  BY <1>2 DEF FInv
<1>3. CASE /\ snap' \in Snapshot
           /\ \E by \in {"cycle", "edit", "reset"} : Persist(by, snap')
  <2>1. /\ Len(saves') = Len(saves) + 1
        /\ \A i \in 1..Len(saves) : saves'[i] = saves[i]
        /\ saves'[Len(saves) + 1].snap = snap'
    BY <1>1, <1>3, PersistAppends
  <2>2. snap' # None
    BY <1>3, NoneIsNoRecord
  <2>3. ASSUME NEW i \in 1..Len(saves') PROVE Fits(saves'[i].snap)
    <3>1. i \in 1..Len(saves) \/ i = Len(saves) + 1
      BY <1>1, <2>1
    <3>2. QED
      BY <2>1, <2>2, <3>1 DEF FInv
  <2>4. QED
    BY <2>2, <2>3 DEF FInv
<1>4. QED
  BY <1>2, <1>3

\* Steps that leave disk, memory and queue alone, or lose memory.
LEMMA QuietStepFits ==
    ASSUME FInv, disk' = disk, snap' = snap, saves' = saves
    PROVE  FInv'
BY DEF FInv

\* What is loaded fits.
LEMMA FinishLoadFits ==
    ASSUME IInv, FInv, FinishLoad
    PROVE  FInv'
<1>1. snap' = NormalizePersistedClockSkew(disk, now) /\ disk' = disk /\ saves' = saves
  BY DEF FinishLoad
<1>2. disk \in Snapshot /\ now \in Int /\ Fits(disk)
  BY DEF IInv, TypeOK, FInv
<1>3. Fits(snap')
  BY <1>1, <1>2, NormalizePersistedClockSkewFits
<1>4. QED
  BY <1>1, <1>3, MemoryStepFits

\* A crash leaves on disk what was there, or the write under way.
LEMMA CrashFits ==
    ASSUME IInv, FInv, Crash
    PROVE  FInv'
<1>1. /\ snap' = None /\ Len(saves') = 0
      /\ \/ disk' = disk
         \/ saves # << >> /\ disk' = Head(saves).snap
  BY DEF Crash
<1>2. Fits(disk')
  BY <1>1, HeadOfSaves DEF FInv
<1>3. QED
  BY <1>1, <1>2 DEF FInv

\* A write, whatever its outcome.
LEMMA WriteFits ==
    ASSUME IInv, FInv, WriteSucceeds \/ WriteFails
    PROVE  FInv'
<1>1. /\ saves # << >> /\ saves' = Tail(saves) /\ snap' = snap
      /\ disk' \in {disk, Head(saves).snap}
  BY DEF WriteSucceeds, WriteFails
<1>2. Fits(disk')
  BY <1>1, HeadOfSaves DEF FInv
<1>3. \A i \in 1..Len(saves') : Fits(saves'[i].snap)
  BY <1>1, HeadOfSaves DEF FInv
<1>4. QED
  BY <1>1, <1>2, <1>3 DEF FInv

\* Reconciling as a cycle begins leaves memory fit.
LEMMA ReconciledFits ==
    ASSUME snap \in Snapshot, Fits(snap), now \in Int
    PROVE  Fits(Reconciled)
<1> DEFINE s == ReconcileDurableDelivery(snap, now)
<1>1. s \in Snapshot /\ Fits(s)
  BY ReconcileDurableDeliveryKeeps, ReconcileDurableDeliveryFits
<1> HIDE DEF s
<1>2. Fits(ReconcileRetiredCatalogState(s, catalog, now))
  BY <1>1, ReconcileRetiredCatalogStateFits
<1>3. QED
  BY <1>1, <1>2 DEF Reconciled, s

\* Every way of promoting deferred alerts leaves the snapshot fit.
LEMMA PromotionsFit ==
    ASSUME NEW s \in Snapshot, Fits(s), now \in Int, NEW numbers, NEW atStart,
           NEW p \in Promotions(s, numbers, atStart)
    PROVE  Fits(p.snap)
<1>1. PICK a \in Admissions(s, Promotable(s, now, atStart, catalog)) :
        p = [snap   |-> PromoteDeferredAvailability(s, a, numbers, now, atStart),
             serial |-> NextSerial(numbers, a)]
  BY DEF Promotions
<1>2. p.snap = PromoteDeferredAvailability(s, a, numbers, now, atStart)
  BY <1>1
<1>3. QED
  BY <1>2, PromoteDeferredAvailabilityFits

\* Every way of recording observations in scope leaves the snapshot fit.
LEMMA RecordingsFit ==
    ASSUME NEW s \in Snapshot, Fits(s), now \in Int, NEW numbers, NEW obs,
           DOMAIN obs \subseteq Scopes,
           \A x \in DOMAIN obs : obs[x] \in Status /\ InScope(s, x),
           NEW r \in Recordings(s, obs, numbers)
    PROVE  Fits(r.snap)
<1>1. PICK a \in Admissions(s, Alerting(s, obs, now, catalog)) :
        r = [snap   |-> RecordObservation(s, obs, a, numbers, now, catalog),
             serial |-> NextSerial(numbers, a)]
  BY DEF Recordings
<1>2. r.snap = RecordObservation(s, obs, a, numbers, now, catalog)
  BY <1>1
<1>3. QED
  BY <1>2, RecordObservationFits

\* A cycle begins, in each of its five ways.
LEMMA BeginCycleFits ==
    ASSUME IInv, FInv, NEW force \in SUBSET Watches, NEW rung, BeginCycle(force, rung)
    PROVE  FInv'
<1>1. /\ snap \in Snapshot /\ Fits(snap) /\ Sound(snap, added)
      /\ now \in Int /\ serial \in [Scopes -> Nat] /\ disk' = disk
  BY DEF BeginCycle, Ready, IInv, TypeOK, AllSound, FInv
<1>2. Reconciled \in Snapshot /\ Sound(Reconciled, added) /\ Fits(Reconciled)
  BY <1>1, ReconciledKeeps, SoundKept, ReconciledFits
<1>3. ASSUME NEW new \in Snapshot, Fits(new), snap' = new, Persist("cycle", new)
      PROVE  FInv'
  BY <1>1, <1>3, MemoryStepFits
<1>4. CASE BeginBackedOff(rung)
  BY <1>2, <1>3, <1>4 DEF BeginBackedOff
<1>5. CASE BeginWithoutCatalog(force, rung)
  <2> DEFINE xs  == UNION {ScopesOf(Reconciled, w) : w \in Selected(Reconciled, force)}
             obs == [x \in xs |-> "unknown"]
             new == RecordItems(Reconciled, obs, now)
  <2>1. \A x \in DOMAIN obs : obs[x] \in Status /\ InScope(Reconciled, x)
    BY DEF Status, ScopesOf
  <2>2. snap' = new /\ Persist("cycle", new)
    BY <1>5 DEF BeginWithoutCatalog
  <2> HIDE DEF obs
  <2>3. new \in Snapshot /\ Fits(new)
    BY <1>1, <1>2, <2>1, RecordItemsKeeps, RecordItemsFits
  <2> HIDE DEF new
  <2>4. QED
    BY <1>3, <2>2, <2>3
<1>6. ASSUME NEW p \in Promotions(Reconciled, serial, catalog)
      PROVE  p.snap \in Snapshot /\ Fits(p.snap)
  <2>1. p.snap \in Snapshot
    BY <1>1, <1>2, PromotionsKeep
  <2>2. Fits(p.snap)
    BY <1>1, <1>2, PromotionsFit
  <2>3. QED
    BY <2>1, <2>2
<1>7. CASE BeginIdle(force, rung)
  BY <1>3, <1>6, <1>7 DEF BeginIdle
<1>8. CASE BeginUnsupported(force, rung)
  <2>1. PICK p \in Promotions(Reconciled, serial, catalog) :
            /\ snap' = UpdateBackoff(p.snap, FALSE, 0, now)
            /\ Persist("cycle", UpdateBackoff(p.snap, FALSE, 0, now))
    BY <1>8 DEF BeginUnsupported
  <2>2. \A failed \in BOOLEAN :
            /\ UpdateBackoff(p.snap, failed, 0, now) \in Snapshot
            /\ Fits(UpdateBackoff(p.snap, failed, 0, now))
    <3>1. 0 \in Int /\ now \in Int
      BY <1>1
    <3>2. QED
      BY <1>6, <3>1, UpdateBackoffKeeps, UpdateBackoffFits, Zenon
  <2>3. QED
    BY <1>3, <2>1, <2>2
<1>9. CASE BeginPolling(force, rung)
  <2>1. PICK p \in Promotions(Reconciled, serial, catalog) : snap' = p.snap
    BY <1>9 DEF BeginPolling
  <2>2. saves' = saves
    BY <1>9 DEF BeginPolling
  <2>3. QED
    BY <1>1, <1>6, <2>1, <2>2, MemoryStepFits
<1>10. QED
  BY <1>4, <1>5, <1>7, <1>8, <1>9 DEF BeginCycle

\* An answer speaks only of what is in the scope of its watches.
LEMMA FetchSettlesFits ==
    ASSUME IInv, FInv, FetchSettles
    PROVE  FInv'
<1>1. /\ snap \in Snapshot /\ snap # None /\ Sound(snap, added) /\ Fits(snap)
      /\ now \in Int /\ cycle \in Cycle /\ disk' = disk
      /\ cycle.failed \in BOOLEAN /\ cycle.retry \in Nat
      /\ serial \in [Scopes -> Nat]
  BY WorkingCycle DEF FetchSettles, FInv, IInv, TypeOK, Cycle
<1>2. PICK anchor \in Stores :
        \E skus \in SUBSET cycle.work[anchor] : \E ans \in Answers(skus) :
            RequestSettles(anchor, skus, ans)
  BY DEF FetchSettles
<1>3. PICK skus \in SUBSET cycle.work[anchor] :
        \E ans \in Answers(skus) : RequestSettles(anchor, skus, ans)
  BY <1>2
<1>4. PICK answer \in Answers(skus) : RequestSettles(anchor, skus, answer)
  BY <1>3
<1> DEFINE obs    == [x \in Answered(anchor, skus) |-> answer.status[<<x[2], x[3]>>]]
           failed == cycle.failed \/ answer.failed
           retry  == Greatest(cycle.retry, answer.retry)
<1>5. /\ answer.status \in [skus \X Stores -> Status]
      /\ answer.failed \in BOOLEAN /\ answer.retry \in Nat
  BY AnswerType
<1>6. /\ DOMAIN obs \subseteq Scopes
      /\ \A x \in DOMAIN obs : obs[x] \in Status
      /\ \A x \in DOMAIN obs : InScope(snap, x)
  <2>1. ASSUME NEW x \in Answered(anchor, skus)
        PROVE  x \in Scopes /\ <<x[2], x[3]>> \in skus \X Stores /\ InScope(snap, x)
    BY DEF Answered, Scopes
  <2>2. QED
    BY <1>5, <2>1
<1>7. failed \in BOOLEAN
  OBVIOUS
<1>8. retry \in Int
  BY <1>1, <1>5 DEF Greatest
<1>9. PICK r \in Recordings(snap, obs, serial) :
            \/ snap' = r.snap /\ saves' = saves
            \/ \E p \in Promotions(r.snap, r.serial, cycle.catalog) :
                    LET new == UpdateBackoff(p.snap, failed, retry, now) IN
                    snap' = new /\ Persist("cycle", new)
  BY <1>4 DEF RequestSettles
<1> HIDE DEF obs, failed, retry
<1>10. /\ r.snap \in Snapshot /\ Sound(r.snap, added)
       /\ r.serial \in [Scopes -> Nat] /\ Fits(r.snap)
  BY <1>1, <1>6, RecordingsKeep, RecordingsFit
<1>11. CASE snap' = r.snap /\ saves' = saves
  BY <1>1, <1>10, <1>11, MemoryStepFits
<1>12. CASE \E p \in Promotions(r.snap, r.serial, cycle.catalog) :
                    LET new == UpdateBackoff(p.snap, failed, retry, now) IN
                    snap' = new /\ Persist("cycle", new)
  <2>1. PICK p \in Promotions(r.snap, r.serial, cycle.catalog) :
            /\ snap' = UpdateBackoff(p.snap, failed, retry, now)
            /\ Persist("cycle", UpdateBackoff(p.snap, failed, retry, now))
    BY <1>12
  <2>2. p.snap \in Snapshot
    BY <1>1, <1>10, PromotionsKeep
  <2>3. Fits(p.snap)
    BY <1>1, <1>10, PromotionsFit
  <2>4. /\ UpdateBackoff(p.snap, failed, retry, now) \in Snapshot
        /\ Fits(UpdateBackoff(p.snap, failed, retry, now))
    BY <1>1, <1>7, <1>8, <2>2, <2>3, UpdateBackoffKeeps, UpdateBackoffFits
  <2>5. QED
    BY <1>1, <2>1, <2>4, MemoryStepFits
<1>13. QED
  BY <1>9, <1>11, <1>12

\* Replacing a copy leaves the snapshot fit, if the new copy waits for something only
\* while it is pending.
LEMMA WithCopyFits ==
    ASSUME NEW s \in Snapshot, Fits(s), NEW p \in Copies, NEW copy \in Copy,
           IsCurrentPendingChannel(s, p[1], p[2]),
           copy.state = "pending" <=> copy.doneAt = None, Rests(copy)
    PROVE  Fits(WithCopy(s, p, copy))
<1> DEFINE id == p[1]
           c == p[2]
           event == s.pending[id]
           changed == [event EXCEPT !.channels[c] = copy]
           new == WithCopy(s, p, copy)
<1>1. id \in EventIds /\ c \in Channels
  BY CopiesTypes
<1>2. event \in Event /\ event # None /\ event.channels[c] # None
      /\ event.channels \in [Channels -> Copy \cup {None}]
      /\ DOMAIN event = {"rev", "observedAt", "createdAt", "channels"}
  BY <1>1 DEF IsCurrentPendingChannel, Snapshot, Event
<1>3. /\ changed.createdAt = event.createdAt /\ changed.observedAt = event.observedAt
      /\ changed.channels = [event.channels EXCEPT ![c] = copy]
  <2> HIDE DEF event
  <2>1. QED
    BY <1>2
<1> HIDE DEF changed
<1>4. /\ new.watches = s.watches /\ new.items = s.items /\ new.delivery = s.delivery
      /\ new.pending = [s.pending EXCEPT ![id] = changed]
      /\ s.pending \in [EventIds -> Event \cup {None}]
  BY DEF WithCopy, Snapshot, changed
<1> HIDE DEF new
<1>5. EventFits(s, id, event)
  BY <1>1 DEF Fits, LedgerFits
<1>6. \A d \in Channels :
        /\ d = c => changed.channels[d] = copy
        /\ d # c => changed.channels[d] = event.channels[d]
  BY <1>1, <1>2, <1>3
<1> HIDE DEF event
<1>7. EventFits(s, id, changed)
  <2>1. copy # None
    BY NoneIsNoRecord
  <2>2. /\ InScope(s, id[1]) /\ event.createdAt >= event.observedAt
        /\ \A d \in Channels : event.channels[d] # None =>
            /\ event.channels[d].state = "pending" <=> event.channels[d].doneAt = None
            /\ Rests(event.channels[d])
    BY <1>2, <1>5 DEF EventFits, EventConsistent, EventRests
  <2>3. \A d \in Channels : changed.channels[d] # None =>
            /\ changed.channels[d].state = "pending" <=> changed.channels[d].doneAt = None
            /\ Rests(changed.channels[d])
    BY <1>6, <2>2
  <2>4. QED
    BY <1>1, <1>3, <1>6, <2>1, <2>2, <2>3 DEF EventFits, EventConsistent, EventRests
<1>8. ASSUME NEW i \in EventIds, new.pending[i] # None
      PROVE  s.pending[i] # None /\ EventFits(new, i, new.pending[i])
  <2>1. CASE i = id
    <3>1. new.pending[i] = changed
      BY <1>1, <1>4, <2>1
    <3>2. QED
      BY <1>2, <1>4, <1>7, <2>1, <3>1, SameWatchesFit DEF event
  <2>2. CASE i # id
    <3>1. new.pending[i] = s.pending[i]
      BY <1>1, <1>4, <2>2
    <3>2. EventFits(s, i, s.pending[i])
      BY DEF Fits, LedgerFits
    <3>3. QED
      BY <1>4, <1>8, <3>1, <3>2, SameWatchesFit
  <2>3. QED
    BY <2>1, <2>2
<1>9. LedgerFits(new)
  BY <1>8, LedgerStillFits DEF Fits
<1>10. ScopesFit(new)
  BY <1>4, SameScopesFit DEF Fits
<1>11. QED
  BY <1>9, <1>10 DEF Fits, new

\* A copy that may be delivered has no verdict yet.
LEMMA CurrentCopy ==
    ASSUME NEW s \in Snapshot, Fits(s), NEW p \in Copies,
           IsCurrentPendingChannel(s, p[1], p[2])
    PROVE  LET copy == s.pending[p[1]].channels[p[2]] IN
           copy \in Copy /\ copy.state = "pending" /\ copy.doneAt = None
<1>1. p[1] \in EventIds /\ p[2] \in Channels
  BY CopiesTypes
<1>2. EventFits(s, p[1], s.pending[p[1]])
  BY <1>1 DEF Fits, LedgerFits
<1>3. s.pending[p[1]] \in Event
  BY <1>1 DEF IsCurrentPendingChannel, Snapshot
<1>4. QED
  BY <1>1, <1>2, <1>3 DEF IsCurrentPendingChannel, EventFits, EventConsistent, Event

\* A verdict closes a copy for good.
LEMMA ClosedCopyFits ==
    ASSUME NEW copy \in Copy, NEW state \in CopyState \ {"pending"}, NEW t \in Int
    PROVE  LET new == Closed(copy, state, t) IN
           (new.state = "pending" <=> new.doneAt = None) /\ Rests(new)
<1>1. DOMAIN copy = {"state", "attempts", "next", "doneAt"}
  BY DEF Copy
<1>2. /\ Closed(copy, state, t).state = state /\ Closed(copy, state, t).doneAt = t
      /\ Closed(copy, state, t).next = None
  BY <1>1 DEF Closed
<1>3. QED
  BY <1>2, NoneAssumption DEF Rests

\* Delivery starts.
LEMMA StartDispatchFits ==
    ASSUME IInv, FInv, StartDispatch
    PROVE  FInv'
<1>1. snap \in Snapshot /\ Fits(snap) /\ cycle.t \in Int
  BY WorkingCycle DEF StartDispatch, FInv, Cycle
<1>2. snap' = ReconcileDurableDelivery(snap, cycle.t) /\ disk' = disk /\ saves' = saves
  BY DEF StartDispatch
<1>3. Fits(snap')
  BY <1>1, <1>2, ReconcileDurableDeliveryFits
<1>4. QED
  BY <1>2, <1>3, MemoryStepFits

\* An attempt is recorded on a copy that still waits, or closes it.
LEMMA AttemptFits ==
    ASSUME IInv, FInv, IInv', Attempt
    PROVE  FInv'
<1>1. /\ snap \in Snapshot /\ Fits(snap) /\ cycle.t \in Int /\ disk' = disk
      /\ cycle.todo \in SUBSET Copies /\ cycle.pc # "idle"
  BY WorkingCycle DEF Attempt, FInv, Cycle
<1>2. PICK p \in Dispatchable :
        LET copy  == CopyAt(p)
            out   == copy.attempts >= MaxAttempts
            tried == [copy EXCEPT !.attempts = @ + 1,
                                  !.next = cycle.t + RetryDelay(copy.attempts + 1)]
            new   == WithCopy(snap, p, IF out THEN Closed(copy, "failed", cycle.t)
                                       ELSE tried)
        IN  snap' = new /\ Persist("cycle", new)
  BY DEF Attempt
<1> DEFINE copy  == CopyAt(p)
           out   == copy.attempts >= MaxAttempts
           tried == [copy EXCEPT !.attempts = @ + 1,
                                 !.next = cycle.t + RetryDelay(copy.attempts + 1)]
           after == IF out THEN Closed(copy, "failed", cycle.t) ELSE tried
           new   == WithCopy(snap, p, after)
<1>3. p \in Copies /\ IsCurrentPendingChannel(snap, p[1], p[2])
  BY <1>1 DEF Dispatchable, IsDispatchable
<1>4. copy \in Copy /\ copy.state = "pending" /\ copy.doneAt = None
  BY <1>1, <1>3, CurrentCopy DEF CopyAt
<1> HIDE DEF copy
<1>5. after \in Copy /\ (after.state = "pending" <=> after.doneAt = None)
      /\ Rests(after)
  <2>1. CASE out
    BY <1>1, <1>4, <2>1, ClosedType, ClosedCopyFits DEF CopyState
  <2>2. CASE ~out
    <3>1. copy.attempts \in Int /\ copy.attempts + 1 \in 0..MaxAttempts
      BY <1>4, <2>2, BoundsAssumption DEF Copy
    <3>2. cycle.t + RetryDelay(copy.attempts + 1) \in Int
      <4>1. RetryDelay(copy.attempts + 1) \in Int
        BY <3>1, RetryDelayType
      <4>2. QED
        BY <1>1, <4>1
    <3>3. tried \in Copy /\ tried.state = "pending" /\ tried.doneAt = None
      BY <1>4, <3>1, <3>2 DEF Copy, OptTime
    <3>4. QED
      BY <2>2, <3>3 DEF Rests
  <2>3. QED
    BY <2>1, <2>2
<1> HIDE DEF after
<1>6. new \in Snapshot /\ Fits(new)
  BY <1>1, <1>3, <1>5, WithCopyKeeps, WithCopyFits
<1> HIDE DEF new
<1>7. snap' = new /\ Persist("cycle", new)
  BY <1>2 DEF new, after, copy
<1>8. QED
  BY <1>1, <1>6, <1>7, MemoryStepFits

\* What an outcome makes of a copy that waits.
LEMMA SettledFits ==
    ASSUME snap \in Snapshot, Fits(snap), now \in Int, NEW p \in Copies, IsCurrent(p),
           NEW outcome, outcome.at \in Int
    PROVE  LET after == Settled(p, outcome) IN
           (after.state = "pending" <=> after.doneAt = None) /\ Rests(after)
<1> DEFINE copy == CopyAt(p)
<1>1. copy \in Copy /\ copy.state = "pending" /\ copy.doneAt = None
      /\ DOMAIN copy = {"state", "attempts", "next", "doneAt"}
  <2>1. copy \in Copy /\ copy.state = "pending" /\ copy.doneAt = None
    BY CurrentCopy DEF CopyAt, IsCurrent
  <2>2. QED
    BY <2>1 DEF Copy
<1> HIDE DEF copy
<1>2. {"delivered", "failed", "expired"} \subseteq CopyState \ {"pending"}
  BY DEF CopyState
<1>3. ASSUME NEW at
      PROVE  /\ [copy EXCEPT !.next = at].state = "pending"
             /\ [copy EXCEPT !.next = at].doneAt = None
  BY <1>1
<1>4. \/ \E state \in {"delivered", "failed", "expired"} :
            Settled(p, outcome) = Closed(copy, state, now)
      \/ \E at : Settled(p, outcome) = [copy EXCEPT !.next = at]
  BY DEF Settled, copy
<1>5. QED
  BY <1>1, <1>2, <1>3, <1>4, ClosedCopyFits DEF Rests

\* An outcome is recorded, or dropped if the copy is no longer current.
LEMMA SettleFits ==
    ASSUME IInv, FInv, cycle.pc \in {"resolving", "sending", "answering"},
           NEW outcome, outcome.at \in Int, Settle(outcome), disk' = disk
    PROVE  FInv'
<1>1. snap \in Snapshot /\ Fits(snap) /\ now \in Int /\ cycle.cur \in Copies
  BY WorkingCycle DEF FInv, IInv, Coherent, InHand
<1>2. CASE ~IsCurrent(cycle.cur)
  BY <1>2, QuietStepFits DEF Settle
<1>3. CASE IsCurrent(cycle.cur)
  <2> DEFINE after == Settled(cycle.cur, outcome)
             new == WithCopy(snap, cycle.cur, after)
  <2>1. snap' = new /\ Persist("cycle", new)
    BY <1>3 DEF Settle
  <2>2. after \in Copy /\ (after.state = "pending" <=> after.doneAt = None)
        /\ Rests(after)
    BY <1>1, <1>3, SettledType, SettledFits
  <2> HIDE DEF after
  <2>3. new \in Snapshot /\ Fits(new)
    BY <1>1, <1>3, <2>2, WithCopyKeeps, WithCopyFits DEF IsCurrent
  <2> HIDE DEF new
  <2>4. QED
    BY <2>1, <2>3, MemoryStepFits
<1>4. QED
  BY <1>2, <1>3

\* The adapter resolves, declines, hears from the provider or is aborted.
LEMMA DeliveryFits ==
    ASSUME IInv, FInv,
           \/ Resolve \/ ContactProvider \/ DeclineDelivery
           \/ ProviderAnswers \/ DeliveryAborted
    PROVE  FInv'
<1>1. now \in Int /\ \A kind : Outcome(kind).at \in Int
  BY DEF IInv, TypeOK, Outcome
<1>2. CASE Resolve
  BY <1>1, <1>2, QuietStepFits, SettleFits DEF Resolve
<1>3. CASE ContactProvider
  BY <1>3, QuietStepFits DEF ContactProvider
<1>4. CASE DeclineDelivery
  BY <1>1, <1>4, SettleFits DEF DeclineDelivery
<1>5. CASE ProviderAnswers
  <2>1. PICK outcome \in ProviderOutcomes(cycle.cur[2]) : Settle(outcome)
    BY <1>5 DEF ProviderAnswers
  <2>2. outcome.at \in Int
    BY <1>1, <2>1, EnvironmentAssumption DEF ProviderOutcomes
  <2>3. QED
    BY <1>5, <2>1, <2>2, SettleFits DEF ProviderAnswers
<1>6. CASE DeliveryAborted
  BY <1>1, <1>6, SettleFits DEF DeliveryAborted
<1>7. QED
  BY <1>2, <1>3, <1>4, <1>5, <1>6

\* A new watch finds nothing kept for it, as its id was never used.
LEMMA AddWatchFits ==
    ASSUME IInv, FInv, NEW w \in Watches, NEW form \in WatchForms, AddWatch(w, form)
    PROVE  FInv'
<1> DEFINE watch == WithRev(form, now)
           new == [snap EXCEPT !.watches[w] = watch]
<1>1. /\ snap # None /\ w \notin added /\ snap' = new /\ Persist("edit", new)
      /\ disk' = disk
  BY DEF AddWatch, Edit, Ready
<1>2. snap \in Snapshot /\ Sound(snap, added) /\ Fits(snap) /\ now \in Int
  BY <1>1, Editable DEF FInv
<1>3. watch \in Watch
  BY <1>2, WithRevType
<1> HIDE DEF watch
<1>4. new \in Snapshot
  BY <1>2, <1>3 DEF Snapshot
<1>5. snap.watches[w] = None
  BY <1>1, <1>2 DEF Sound
<1>6. Fits(new)
  BY <1>2, <1>5, NewWatchFits
<1> HIDE DEF new
<1>7. QED
  BY <1>1, <1>4, <1>6, MemoryStepFits

\* The watches of ws are replaced by other revisions, then pruned.
LEMMA ReplacementFits ==
    ASSUME IInv, FInv, snap # None, NEW ws \in SUBSET Watches,
           NEW watches \in [Watches -> Watch \cup {None}],
           \A w \in ws : /\ snap.watches[w] # None /\ watches[w] # None
                         /\ watches[w].rev # snap.watches[w].rev,
           \A w \in Watches \ ws : watches[w] = snap.watches[w],
           Edit(ws, PruneForWatchRevision([snap EXCEPT !.watches = watches], ws, now))
    PROVE  FInv'
<1> DEFINE mid == [snap EXCEPT !.watches = watches]
           new == PruneForWatchRevision(mid, ws, now)
<1>1. snap \in Snapshot /\ Fits(snap) /\ now \in Int
  BY Editable DEF FInv
<1>2. /\ mid \in Snapshot /\ mid.watches = watches /\ mid.pending = snap.pending
      /\ mid.items = snap.items /\ mid.delivery = snap.delivery
  BY <1>1 DEF Snapshot
<1>3. snap' = new /\ Persist("edit", new) /\ disk' = disk
  BY DEF Edit
<1> HIDE DEF mid
<1>4. Revises(snap, mid, ws)
  BY <1>2 DEF Revises
<1>5. new \in Snapshot /\ Fits(new)
  BY <1>1, <1>2, <1>4, PruneForWatchRevisionKeeps, PruneForWatchRevisionFits
<1> HIDE DEF new
<1>6. QED
  BY <1>3, <1>5, MemoryStepFits

\* One watch is replaced.
LEMMA ReplacedFits ==
    ASSUME IInv, FInv, snap # None, NEW w \in Watches, NEW watch \in Watch,
           snap.watches[w] # None, watch.rev = NextRev(w),
           Edit({w}, Replaced(snap, w, watch))
    PROVE  FInv'
<1> DEFINE watches == [snap.watches EXCEPT ![w] = watch]
<1>1. /\ snap \in Snapshot /\ now \in Int
      /\ snap.watches \in [Watches -> Watch \cup {None}]
  BY Editable
<1>2. watches \in [Watches -> Watch \cup {None}]
      /\ watches[w] = watch
      /\ \A v \in Watches \ {w} : watches[v] = snap.watches[v]
  BY <1>1
<1>3. watch # None /\ watch.rev # snap.watches[w].rev
  <2>1. NextRev(w) \in Int /\ NextRev(w) > snap.watches[w].rev
        /\ snap.watches[w].rev \in Int
    BY <1>1, NextRevIsLater DEF Watch
  <2>2. QED
    BY <2>1, NoneIsNoRecord
<1>4. Edit({w}, PruneForWatchRevision([snap EXCEPT !.watches = watches], {w}, now))
  BY DEF Replaced
<1> HIDE DEF watches
<1>5. QED
  BY <1>2, <1>3, <1>4, ReplacementFits

\* The user edits a watch, switches it on or off.
LEMMA WatchEditFits ==
    ASSUME IInv, FInv, NEW w \in Watches,
           \/ \E form \in WatchForms : ReplaceWatch(w, form)
           \/ \E enabled \in BOOLEAN : SetWatchEnabled(w, enabled)
    PROVE  FInv'
<1>1. snap # None /\ snap.watches[w] # None
  BY DEF ReplaceWatch, SetWatchEnabled
<1>2. NextRev(w) \in Int /\ snap.watches[w] \in Watch
  BY <1>1, Editable, NextRevIsLater
<1>3. ASSUME NEW form \in WatchForms, ReplaceWatch(w, form)
      PROVE  FInv'
  <2>1. Edit({w}, Replaced(snap, w, WithRev(form, NextRev(w))))
    BY <1>3 DEF ReplaceWatch
  <2>2. WithRev(form, NextRev(w)) \in Watch
        /\ WithRev(form, NextRev(w)).rev = NextRev(w)
    BY <1>2, WithRevType DEF WithRev
  <2>3. QED
    BY <1>1, <2>1, <2>2, ReplacedFits
<1>4. ASSUME NEW enabled \in BOOLEAN, SetWatchEnabled(w, enabled)
      PROVE  FInv'
  <2> DEFINE watch == [snap.watches[w] EXCEPT !.enabled = enabled, !.rev = NextRev(w)]
  <2>1. Edit({w}, Replaced(snap, w, watch))
    BY <1>4 DEF SetWatchEnabled
  <2>2. watch \in Watch /\ watch.rev = NextRev(w)
    BY <1>2 DEF Watch
  <2> HIDE DEF watch
  <2>3. QED
    BY <1>1, <2>1, <2>2, ReplacedFits
<1>5. QED
  BY <1>3, <1>4

\* Personal Telegram is switched off for every watch that has it.
LEMMA DisablePersonalTelegramFits ==
    ASSUME IInv, FInv, DisablePersonalTelegramForAllWatches
    PROVE  FInv'
<1> DEFINE watches == [w \in Watches |->
                IF w \in TelegramWatches
                THEN [snap.watches[w] EXCEPT !.channels = @ \ {Telegram},
                                             !.rev = NextRev(w)]
                ELSE snap.watches[w]]
<1>1. /\ snap # None
      /\ Edit(TelegramWatches,
              PruneForWatchRevision([snap EXCEPT !.watches = watches],
                                    TelegramWatches, now))
  BY DEF DisablePersonalTelegramForAllWatches
<1>2. /\ snap \in Snapshot /\ now \in Int
      /\ snap.watches \in [Watches -> Watch \cup {None}]
  BY <1>1, Editable
<1>3. TelegramWatches \in SUBSET Watches
      /\ \A w \in TelegramWatches : snap.watches[w] # None
  BY DEF TelegramWatches
<1>4. ASSUME NEW w \in TelegramWatches
      PROVE  /\ watches[w] \in Watch /\ watches[w] # None
             /\ watches[w].rev # snap.watches[w].rev
  <2>1. w \in Watches /\ snap.watches[w] \in Watch
    BY <1>2, <1>3
  <2>2. NextRev(w) \in Int /\ NextRev(w) > snap.watches[w].rev
        /\ snap.watches[w].rev \in Int
    BY <1>2, <1>3, <2>1, NextRevIsLater DEF Watch
  <2> DEFINE watch == [snap.watches[w] EXCEPT !.channels = @ \ {Telegram},
                                              !.rev = NextRev(w)]
  <2>3. watch \in Watch /\ watch.rev = NextRev(w)
    BY <2>1, <2>2 DEF Watch
  <2>4. watches[w] = watch
    BY <2>1
  <2> HIDE DEF watch, watches
  <2>5. QED
    BY <2>2, <2>3, <2>4, NoneIsNoRecord
<1>5. \A w \in Watches \ TelegramWatches : watches[w] = snap.watches[w]
  OBVIOUS
<1>6. watches \in [Watches -> Watch \cup {None}]
  <2>1. \A w \in Watches : watches[w] \in Watch \cup {None}
    BY <1>2, <1>4, <1>5
  <2>2. QED
    BY <2>1
<1> HIDE DEF watches
<1>7. QED
  BY <1>1, <1>3, <1>4, <1>5, <1>6, ReplacementFits

\* The user deletes a watch, or everything.
LEMMA RemovalFits ==
    ASSUME IInv, FInv, Reset \/ \E w \in Watches : DeleteWatch(w)
    PROVE  FInv'
<1>1. CASE Reset
  <2>1. snap' = EmptySnapshot /\ Persist("reset", EmptySnapshot) /\ disk' = disk
    BY <1>1 DEF Reset
  <2>2. EmptySnapshot \in Snapshot /\ Fits(EmptySnapshot)
    BY EmptySnapshotType, WatchesAloneFit
  <2>3. QED
    BY <2>1, <2>2, MemoryStepFits
<1>2. ASSUME NEW w \in Watches, DeleteWatch(w)
      PROVE  FInv'
  <2> DEFINE new == WithoutWatch(snap, w)
  <2>1. snap # None /\ snap' = new /\ Persist("edit", new) /\ disk' = disk
    BY <1>2 DEF DeleteWatch, Edit
  <2>2. snap \in Snapshot /\ Fits(snap)
    BY <2>1, Editable DEF FInv
  <2>3. new \in Snapshot /\ Fits(new)
    BY <2>2, WithoutWatchKeeps, WithoutWatchFits
  <2> HIDE DEF new
  <2>4. QED
    BY <2>1, <2>3, MemoryStepFits
<1>3. QED
  BY <1>1, <1>2

\* Every step leaves every snapshot fit.
LEMMA NextKeepsFInv == IInv /\ FInv /\ IInv' /\ [Next]_vars => FInv'
<1> SUFFICES ASSUME IInv, FInv, IInv', [Next]_vars PROVE FInv'
  OBVIOUS
<1>1. CASE UNCHANGED vars
  BY <1>1, QuietStepFits DEF vars
<1>2. CASE \/ Tick \/ SetClockBack \/ WakeWhileBusy \/ Open \/ WakeCold \/ LearnStores
         \/ LoadFails \/ ReadAgain \/ StartMonitor
  BY <1>2, QuietStepFits
     DEF Tick, SetClockBack, WakeWhileBusy, Open, WakeCold, BootWith, LearnStores,
         LoadFails, ReadAgain, StartMonitor
<1>3. CASE FinishLoad
  BY <1>3, FinishLoadFits
<1>4. CASE Crash
  BY <1>4, CrashFits
<1>5. CASE WriteSucceeds \/ WriteFails
  BY <1>5, WriteFits
<1>6. CASE Wake
  BY <1>6, BeginCycleFits DEF Wake
<1>7. CASE CheckNow
  BY <1>7, BeginCycleFits DEF CheckNow
<1>8. CASE CycleStep
  <2>1. CASE FetchSettles
    BY <2>1, FetchSettlesFits
  <2>2. CASE StartDispatch
    BY <2>2, StartDispatchFits
  <2>3. CASE Attempt
    BY <2>3, AttemptFits
  <2>4. CASE EndDispatch
    <3>1. snap \in Snapshot /\ Fits(snap)
      BY <2>4, WorkingCycle DEF EndDispatch, FInv
    <3>2. snap' = snap /\ disk' = disk /\ Persist("cycle", snap')
      BY <2>4 DEF EndDispatch
    <3>3. QED
      BY <3>1, <3>2, MemoryStepFits
  <2>5. CASE Recheck
    BY <2>5, QuietStepFits DEF Recheck
  <2>6. CASE \/ Resolve \/ ContactProvider \/ DeclineDelivery
             \/ ProviderAnswers \/ DeliveryAborted
    BY <2>6, DeliveryFits
  <2>7. QED
    BY <1>8, <2>1, <2>2, <2>3, <2>4, <2>5, <2>6 DEF CycleStep
<1>9. CASE UserEdit
  BY <1>9, AddWatchFits, WatchEditFits, DisablePersonalTelegramFits, RemovalFits
     DEF UserEdit
<1>10. QED
  BY <1>1, <1>2, <1>3, <1>4, <1>5, <1>6, <1>7, <1>8, <1>9 DEF Next

\* Every snapshot the engine holds, has queued or has written always fits.
THEOREM FInvAlways == Spec => []FInv
<1>1. IInv /\ FInv /\ IInv' /\ [Next]_vars => FInv'
  BY NextKeepsFInv
<1>2. QED
  BY <1>1, InitFInv, IInvAlways, PTL DEF Spec

\* What the invariant says of the snapshots.
LEMMA AllSnapshotsFit ==
    ASSUME FInv
    PROVE  \A s \in Snapshots : Fits(s)
BY DEF FInv, Snapshots

\* Whatever the cycle, edits, crashes and clock do to memory, storage never refuses
\* it: ValidatedLocalMonitorStorage.save throws for none of the snapshots the engine
\* gives it, so no save ends a cycle with "storage_error" for what it contains.
THEOREM SnapshotsAreAlwaysSaveable == Spec => []SnapshotAlwaysSaveable
<1>1. FInv => SnapshotAlwaysSaveable
  BY AllSnapshotsFit, FittingIsSaveable DEF SnapshotAlwaysSaveable
<1>2. QED
  BY <1>1, FInvAlways, PTL

\* A deferred alert is always for the present revision of an enabled watch with a
\* channel, whose scope was available when last known: no edit, answer or restart
\* leaves a marker behind that promoteDeferredAvailability could turn into an alert
\* nobody asks for.
THEOREM DeferredAlertsAreAlwaysAuthorised == Spec => []DeferredAlertIsAuthorised
<1>1. FInv => DeferredAlertIsAuthorised
  BY AllSnapshotsFit DEF DeferredAlertIsAuthorised, Fits, ScopesFit, MarkerFits
<1>2. QED
  BY <1>1, FInvAlways, PTL

-------------------------------------------------------------------------------
(***************************************************************************)
(* The schedule.  A loaded engine with an enabled watch has its periodic   *)
(* alarm, or the save of an edit still waits, whose end sets it, or        *)
(* storage failed where the engine would have set it.  That no save is     *)
(* refused (FInv) is needed: a refused save ends an edit before it gets to *)
(* the alarms.                                                             *)
(***************************************************************************)

\* There is an enabled watch.
Watching(s) == \E w \in Watches : s.watches[w] # None /\ s.watches[w].enabled

\* The save of an edit is queued.
EditWaits == \E i \in 1..Len(saves) : saves[i].by = "edit"

\* A loaded engine with an enabled watch has, or is about to set, its alarm, unless
\* storage has failed it.
SInv ==
    Ready /\ Watching(snap) =>
        alarm.periodic # None \/ EditWaits \/ schedule = "lapsed"

\* What a step has to show that keeps the watches and the periodic alarm.
LEMMA ScheduledStep ==
    ASSUME IInv, SInv, Ready' => Ready, snap' # None => snap'.watches = snap.watches,
           alarm.periodic # None => alarm'.periodic # None,
           \/ saves' = saves
           \/ /\ snap' \in Snapshot
              /\ \E by \in {"cycle", "edit", "reset"} : Persist(by, snap'),
           schedule' = schedule
    PROVE  SInv'
<1>1. saves \in Seq(Save)
  BY DEF IInv, TypeOK
<1>2. EditWaits => EditWaits'
  <2>1. CASE saves' = saves
    BY <2>1 DEF EditWaits
  <2>2. CASE /\ snap' \in Snapshot
             /\ \E by \in {"cycle", "edit", "reset"} : Persist(by, snap')
    <3>1. /\ Len(saves') = Len(saves) + 1
          /\ \A i \in 1..Len(saves) : saves'[i] = saves[i]
      BY <1>1, <2>2, PersistAppends
    <3>2. \A i \in 1..Len(saves) : i \in 1..Len(saves')
      BY <1>1, <3>1
    <3>3. QED
      BY <3>1, <3>2 DEF EditWaits
  <2>3. QED
    BY <2>1, <2>2
<1>3. Ready' /\ Watching(snap') => Ready /\ Watching(snap)
  BY DEF Ready, Watching
<1>4. QED
  BY <1>2, <1>3 DEF SInv

\* The periodic alarm is set whenever the alarms are, and a watch is enabled.
LEMMA RefreshSetsPeriodic ==
    ASSUME NEW s, Watching(s), NEW t \in Int
    PROVE  RefreshSchedule(s, t).periodic # None
<1>1. RefreshSchedule(s, t).periodic = t + PollInterval
  BY DEF RefreshSchedule, Watching
<1>2. QED
  BY <1>1, DelaysAssumption, NoneAssumption

\* A write of anything else leaves a queued edit waiting.
LEMMA EditWaitsOn ==
    ASSUME IInv, EditWaits, saves # << >>, saves' = Tail(saves),
           Head(saves).by # "edit"
    PROVE  EditWaits'
<1>1. saves \in Seq(Save)
  BY DEF IInv, TypeOK
<1>2. PICK i \in 1..Len(saves) : saves[i].by = "edit"
  BY DEF EditWaits
<1>3. i # 1
  BY <1>2, HeadOfSaves
<1>4. i - 1 \in 1..Len(saves') /\ saves'[i - 1] = saves[i]
  BY <1>1, <1>3
<1>5. QED
  BY <1>2, <1>4 DEF EditWaits

\* A load that start() waits for sets the alarms; any other follows on a failure.
LEMMA FinishLoadSchedules ==
    ASSUME IInv, FinishLoad
    PROVE  SInv'
<1> DEFINE loaded == NormalizePersistedClockSkew(disk, now)
<1>1. now \in Int /\ disk \in Snapshot
  BY DEF IInv, TypeOK
<1>2. loaded \in Snapshot
  BY <1>1, NormalizePersistedClockSkewKeeps
<1>3. Watching(loaded) => StartSchedule(loaded).periodic # None
  BY <1>1, <1>2, RefreshSetsPeriodic, StartScheduleType
<1>4. /\ snap' = loaded
      /\ alarm' = StartSchedule(loaded) \/ schedule' = "lapsed"
  BY DEF FinishLoad
<1> HIDE DEF loaded
<1>5. QED
  BY <1>3, <1>4 DEF SInv

\* "Start monitor" sets the alarms, or after a load that failed reads again first.
LEMMA StartMonitorSchedules ==
    ASSUME IInv, StartMonitor
    PROVE  SInv'
<1>1. CASE Ready /\ alarm' = StartSchedule(snap)
  <2>1. now \in Int /\ snap \in Snapshot /\ snap' = snap
    BY <1>1 DEF StartMonitor, Ready, IInv, TypeOK
  <2>2. Watching(snap) => StartSchedule(snap).periodic # None
    BY <2>1, RefreshSetsPeriodic, StartScheduleType
  <2>3. QED
    BY <1>1, <2>1, <2>2 DEF SInv
<1>2. CASE loading'
  BY <1>2 DEF SInv, Ready
<1>3. QED
  BY <1>1, <1>2 DEF StartMonitor

\* A write that succeeds sets the alarms if it ends an edit; any other leaves them, and
\* the queued edits.
LEMMA WriteSucceedsSchedules ==
    ASSUME IInv, SInv, WriteSucceeds
    PROVE  SInv'
<1> SUFFICES ASSUME Ready', Watching(snap')
             PROVE  alarm'.periodic # None \/ EditWaits' \/ schedule' = "lapsed"
  BY DEF SInv
<1>1. /\ saves # << >> /\ saves' = Tail(saves)
      /\ snap' = snap /\ loading' = loading
      /\ \/ alarm' = RefreshSchedule(snap, now)
         \/ alarm' = alarm /\ schedule' = schedule /\ Head(saves).by # "edit"
  BY DEF WriteSucceeds
<1>2. now \in Int
  BY DEF IInv, TypeOK
<1>3. CASE alarm' = RefreshSchedule(snap, now)
  BY <1>1, <1>2, <1>3, RefreshSetsPeriodic
<1>4. CASE alarm' = alarm /\ schedule' = schedule /\ Head(saves).by # "edit"
  BY <1>1, <1>4, EditWaitsOn DEF SInv, Ready
<1>5. QED
  BY <1>1, <1>3, <1>4

\* No save is refused, and an edit whose write fails lapses the schedule; a failed
\* write of the cycle or of a reset leaves the queued edits and the alarms.
LEMMA WriteFailsSchedules ==
    ASSUME IInv, FInv, SInv, WriteFails
    PROVE  SInv'
<1>1. Saveable(Head(saves).snap)
  <2>1. Fits(Head(saves).snap)
    BY HeadOfSaves DEF WriteFails, FInv
  <2>2. QED
    BY <2>1, FittingIsSaveable
<1>2. /\ saves # << >> /\ saves' = Tail(saves) /\ alarm' = alarm
      /\ snap' = snap /\ loading' = loading
      /\ schedule' = IF Head(saves).by = "edit" THEN "lapsed" ELSE schedule
  BY <1>1 DEF WriteFails
<1>3. CASE Head(saves).by = "edit"
  BY <1>2, <1>3 DEF SInv
<1>4. CASE Head(saves).by # "edit"
  BY <1>2, <1>4, EditWaitsOn DEF SInv, Ready
<1>5. QED
  BY <1>3, <1>4

\* A cycle begins with the watches and the periodic alarm it finds.
LEMMA BeginCycleSchedules ==
    ASSUME IInv, IInv', SInv, NEW force \in SUBSET Watches, NEW rung \in Alarm,
           alarm.periodic # None => rung.periodic # None, BeginCycle(force, rung)
    PROVE  SInv'
<1>1. /\ snap \in Snapshot /\ Sound(snap, added) /\ Ready
      /\ now \in Int /\ serial \in [Scopes -> Nat]
      /\ loading' = loading /\ schedule' = schedule
  BY DEF BeginCycle, Ready, IInv, TypeOK, AllSound
<1>2. /\ Reconciled \in Snapshot /\ Reconciled.watches = snap.watches
      /\ Sound(Reconciled, added)
  BY <1>1, ReconciledKeeps, SoundKept
<1>3. ASSUME NEW new \in Snapshot, new.watches = snap.watches, snap' = new,
             saves' = saves \/ Persist("cycle", new), alarm'.periodic = rung.periodic
      PROVE  SInv'
  BY <1>1, <1>3, ScheduledStep DEF Ready
<1>4. CASE BeginBackedOff(rung)
  <2>1. /\ snap' = Reconciled /\ Persist("cycle", Reconciled)
        /\ alarm' = [rung EXCEPT !.oneShot = Reconciled.nextEligibleAt]
    BY <1>4 DEF BeginBackedOff
  <2>2. alarm'.periodic = rung.periodic
    BY <2>1 DEF Alarm
  <2>3. QED
    BY <1>2, <1>3, <2>1, <2>2
<1>5. CASE BeginWithoutCatalog(force, rung)
  <2> DEFINE xs  == UNION {ScopesOf(Reconciled, w) : w \in Selected(Reconciled, force)}
             obs == [x \in xs |-> "unknown"]
             new == RecordItems(Reconciled, obs, now)
  <2>1. \A x \in DOMAIN obs : obs[x] \in Status
    BY DEF Status
  <2>2. snap' = new /\ Persist("cycle", new) /\ alarm' = rung
    BY <1>5 DEF BeginWithoutCatalog
  <2> HIDE DEF obs
  <2>3. new \in Snapshot /\ new.watches = Reconciled.watches
    BY <1>1, <1>2, <2>1, RecordItemsKeeps
  <2> HIDE DEF new
  <2>4. QED
    BY <1>2, <1>3, <2>2, <2>3
<1>6. ASSUME NEW p \in Promotions(Reconciled, serial, catalog)
      PROVE  p.snap \in Snapshot /\ p.snap.watches = snap.watches
  BY <1>1, <1>2, PromotionsKeep
<1>7. CASE BeginIdle(force, rung)
  BY <1>3, <1>6, <1>7 DEF BeginIdle
<1>8. CASE BeginUnsupported(force, rung)
  <2>1. PICK p \in Promotions(Reconciled, serial, catalog) :
            /\ snap' = UpdateBackoff(p.snap, FALSE, 0, now)
            /\ Persist("cycle", UpdateBackoff(p.snap, FALSE, 0, now))
    BY <1>8 DEF BeginUnsupported
  <2>2. \A failed \in BOOLEAN :
            /\ UpdateBackoff(p.snap, failed, 0, now) \in Snapshot
            /\ UpdateBackoff(p.snap, failed, 0, now).watches = p.snap.watches
    <3>1. 0 \in Int /\ now \in Int
      BY <1>1
    <3>2. QED
      BY <1>6, <3>1, UpdateBackoffKeeps, Zenon
  <2>3. alarm' = rung
    BY <1>8 DEF BeginUnsupported
  <2>4. QED
    BY <1>3, <1>6, <2>1, <2>2, <2>3
<1>9. CASE BeginPolling(force, rung)
  <2>1. PICK p \in Promotions(Reconciled, serial, catalog) : snap' = p.snap
    BY <1>9 DEF BeginPolling
  <2>2. saves' = saves /\ alarm' = rung
    BY <1>9 DEF BeginPolling
  <2>3. QED
    BY <1>3, <1>6, <2>1, <2>2
<1>10. QED
  BY <1>4, <1>5, <1>7, <1>8, <1>9 DEF BeginCycle

\* An answer leaves the watches and the periodic alarm.
LEMMA FetchSettlesSchedules ==
    ASSUME IInv, SInv, FetchSettles
    PROVE  SInv'
<1>1. /\ snap \in Snapshot /\ snap # None /\ Sound(snap, added)
      /\ now \in Int /\ cycle \in Cycle /\ alarm \in Alarm
      /\ cycle.failed \in BOOLEAN /\ cycle.retry \in Nat
      /\ serial \in [Scopes -> Nat]
      /\ loading' = loading /\ schedule' = schedule
  BY WorkingCycle DEF FetchSettles, IInv, TypeOK, Cycle
<1>2. PICK anchor \in Stores :
        \E skus \in SUBSET cycle.work[anchor] : \E ans \in Answers(skus) :
            RequestSettles(anchor, skus, ans)
  BY DEF FetchSettles
<1>3. PICK skus \in SUBSET cycle.work[anchor] :
        \E ans \in Answers(skus) : RequestSettles(anchor, skus, ans)
  BY <1>2
<1>4. PICK answer \in Answers(skus) : RequestSettles(anchor, skus, answer)
  BY <1>3
<1> DEFINE obs    == [x \in Answered(anchor, skus) |-> answer.status[<<x[2], x[3]>>]]
           failed == cycle.failed \/ answer.failed
           retry  == Greatest(cycle.retry, answer.retry)
<1>5. /\ answer.status \in [skus \X Stores -> Status]
      /\ answer.failed \in BOOLEAN /\ answer.retry \in Nat
  BY AnswerType
<1>6. DOMAIN obs \subseteq Scopes /\ \A x \in DOMAIN obs : obs[x] \in Status
  <2>1. ASSUME NEW x \in Answered(anchor, skus)
        PROVE  x \in Scopes /\ <<x[2], x[3]>> \in skus \X Stores
    BY DEF Answered, Scopes
  <2>2. QED
    BY <1>5, <2>1
<1>7. failed \in BOOLEAN
  OBVIOUS
<1>8. retry \in Int
  BY <1>1, <1>5 DEF Greatest
<1>9. PICK r \in Recordings(snap, obs, serial) :
            \/ snap' = r.snap /\ saves' = saves /\ alarm' = alarm
            \/ \E p \in Promotions(r.snap, r.serial, cycle.catalog) :
                    LET new == UpdateBackoff(p.snap, failed, retry, now) IN
                    /\ snap' = new /\ Persist("cycle", new)
                    /\ \/ alarm' = alarm
                       \/ alarm' = [alarm EXCEPT !.oneShot = new.nextEligibleAt]
  BY <1>4 DEF RequestSettles
<1> HIDE DEF obs, failed, retry
<1>10. /\ r.snap \in Snapshot /\ Sound(r.snap, added) /\ r.snap.watches = snap.watches
       /\ r.serial \in [Scopes -> Nat]
  BY <1>1, <1>6, RecordingsKeep
<1>11. CASE snap' = r.snap /\ saves' = saves /\ alarm' = alarm
  BY <1>1, <1>10, <1>11, ScheduledStep DEF Ready
<1>12. CASE \E p \in Promotions(r.snap, r.serial, cycle.catalog) :
                    LET new == UpdateBackoff(p.snap, failed, retry, now) IN
                    /\ snap' = new /\ Persist("cycle", new)
                    /\ \/ alarm' = alarm
                       \/ alarm' = [alarm EXCEPT !.oneShot = new.nextEligibleAt]
  <2>1. PICK p \in Promotions(r.snap, r.serial, cycle.catalog) :
            /\ snap' = UpdateBackoff(p.snap, failed, retry, now)
            /\ Persist("cycle", UpdateBackoff(p.snap, failed, retry, now))
            /\ \/ alarm' = alarm
               \/ alarm' = [alarm EXCEPT !.oneShot =
                                UpdateBackoff(p.snap, failed, retry, now).nextEligibleAt]
    BY <1>12
  <2>2. p.snap \in Snapshot /\ p.snap.watches = snap.watches
    BY <1>1, <1>10, PromotionsKeep
  <2>3. /\ UpdateBackoff(p.snap, failed, retry, now) \in Snapshot
        /\ UpdateBackoff(p.snap, failed, retry, now).watches = snap.watches
    BY <1>1, <1>7, <1>8, <2>2, UpdateBackoffKeeps
  <2>4. alarm'.periodic = alarm.periodic
    BY <1>1, <2>1 DEF Alarm
  <2>5. QED
    BY <1>1, <2>1, <2>3, <2>4, ScheduledStep DEF Ready
<1>13. QED
  BY <1>9, <1>11, <1>12

\* What a step has queued from memory is a snapshot.
LEMMA QueuedSnapshot ==
    ASSUME IInv, IInv', NEW by, Persist(by, snap')
    PROVE  snap' \in Snapshot
<1>1. saves' = Append(saves, [by |-> by, snap |-> snap']) /\ saves \in Seq(Save)
  BY DEF Persist, IInv, TypeOK
<1>2. saves' # << >>
  <2> DEFINE e == [by |-> by, snap |-> snap']
  <2>1. saves' = Append(saves, e)
    BY <1>1
  <2> HIDE DEF e
  <2>2. QED
    BY <1>1, <2>1
<1>3. QED
  BY <1>2 DEF IInv, Coherent, TypeOK

\* A step of the dispatcher leaves the watches and the alarms.
LEMMA DispatchSchedules ==
    ASSUME IInv, IInv', SInv,
           \/ StartDispatch \/ Attempt \/ EndDispatch \/ Recheck
           \/ Resolve \/ ContactProvider \/ DeclineDelivery
           \/ ProviderAnswers \/ DeliveryAborted
    PROVE  SInv'
<1>1. /\ snap \in Snapshot /\ snap # None /\ cycle \in Cycle /\ cycle.t \in Int
      /\ alarm' = alarm /\ loading' = loading /\ schedule' = schedule
  <2>1. cycle.pc # "idle" /\ alarm' = alarm /\ loading' = loading /\ schedule' = schedule
    BY DEF StartDispatch, Attempt, EndDispatch, Recheck, Resolve, ContactProvider,
           DeclineDelivery, ProviderAnswers, DeliveryAborted
  <2>2. QED
    BY <2>1, WorkingCycle DEF Cycle
<1>2. \A p, copy : WithCopy(snap, p, copy).watches = snap.watches
  BY <1>1 DEF WithCopy, Snapshot
<1>3. ASSUME NEW outcome, Settle(outcome)
      PROVE  /\ snap'.watches = snap.watches
             /\ saves' = saves \/ Persist("cycle", snap')
  BY <1>2, <1>3 DEF Settle
<1>4. /\ snap'.watches = snap.watches
      /\ saves' = saves \/ Persist("cycle", snap')
  <2>1. CASE StartDispatch
    BY <1>1, <2>1, ReconcileDurableDeliveryKeeps DEF StartDispatch
  <2>2. CASE Attempt
    <3>1. PICK p, copy : snap' = WithCopy(snap, p, copy) /\ Persist("cycle", snap')
      <4>1. PICK p \in Dispatchable :
                LET out   == CopyAt(p).attempts >= MaxAttempts
                    tried == [CopyAt(p) EXCEPT
                                !.attempts = @ + 1,
                                !.next = cycle.t + RetryDelay(CopyAt(p).attempts + 1)]
                    new   == WithCopy(snap, p,
                                 IF out THEN Closed(CopyAt(p), "failed", cycle.t)
                                 ELSE tried)
                IN  snap' = new /\ Persist("cycle", new)
        BY <2>2, Zenon DEF Attempt
      <4> DEFINE out   == CopyAt(p).attempts >= MaxAttempts
                 tried == [CopyAt(p) EXCEPT
                             !.attempts = @ + 1,
                             !.next = cycle.t + RetryDelay(CopyAt(p).attempts + 1)]
                 copy  == IF out THEN Closed(CopyAt(p), "failed", cycle.t) ELSE tried
      <4>2. snap' = WithCopy(snap, p, copy) /\ Persist("cycle", WithCopy(snap, p, copy))
        BY <4>1, Zenon
      <4> HIDE DEF copy
      <4>3. QED
        BY <4>2
    <3>2. QED
      BY <1>2, <3>1
  <2>3. CASE EndDispatch \/ Recheck \/ ContactProvider
    BY <2>3 DEF EndDispatch, Recheck, ContactProvider
  <2>4. CASE Resolve
    BY <1>3, <2>4 DEF Resolve
  <2>5. CASE DeclineDelivery
    BY <1>3, <2>5 DEF DeclineDelivery
  <2>6. CASE ProviderAnswers
    BY <1>3, <2>6 DEF ProviderAnswers
  <2>7. CASE DeliveryAborted
    BY <1>3, <2>7 DEF DeliveryAborted
  <2>8. QED
    BY <2>1, <2>2, <2>3, <2>4, <2>5, <2>6, <2>7
<1>5. \/ saves' = saves
      \/ /\ snap' \in Snapshot
         /\ \E by \in {"cycle", "edit", "reset"} : Persist(by, snap')
  BY <1>4, QueuedSnapshot
<1>6. QED
  BY <1>1, <1>4, <1>5, ScheduledStep DEF Ready

\* An edit waits for its save, which ends by setting the alarms; a reset leaves no watch.
LEMMA UserEditSchedules ==
    ASSUME IInv, IInv', UserEdit
    PROVE  SInv'
<1>1. CASE Reset
  BY <1>1 DEF Reset, SInv, Watching, EmptySnapshot
<1>2. ASSUME NEW ws, NEW new, Edit(ws, new)
      PROVE  SInv'
  <2>1. Persist("edit", new)
    BY <1>2 DEF Edit
  <2> DEFINE e == [by |-> "edit", snap |-> new]
  <2>2. saves' = Append(saves, e) /\ saves \in Seq(Save)
    BY <2>1 DEF Persist, IInv, TypeOK
  <2>3. e.by = "edit"
    OBVIOUS
  <2> HIDE DEF e
  <2>4. saves'[Len(saves) + 1] = e /\ Len(saves) + 1 \in 1..Len(saves')
    BY <2>2
  <2>5. EditWaits'
    BY <2>3, <2>4 DEF EditWaits
  <2>6. QED
    BY <2>5 DEF SInv
<1>3. QED
  BY <1>1, <1>2 DEF UserEdit, AddWatch, ReplaceWatch, SetWatchEnabled, DeleteWatch,
                    DisablePersonalTelegramForAllWatches

\* Every step keeps the schedule.
LEMMA NextKeepsSInv == IInv /\ FInv /\ IInv' /\ SInv /\ [Next]_vars => SInv'
<1> SUFFICES ASSUME IInv, FInv, IInv', SInv, [Next]_vars PROVE SInv'
  OBVIOUS
<1>1. alarm \in Alarm /\ now \in Int /\ RungAlarm \in Alarm
      /\ (alarm.periodic # None => RungAlarm.periodic # None)
  <2>1. alarm \in Alarm /\ now \in Int
    BY DEF IInv, TypeOK
  <2>2. RungAlarm.periodic = IF Rings(alarm.periodic) THEN now + PollInterval
                             ELSE alarm.periodic
    BY DEF RungAlarm
  <2>3. RungAlarm \in Alarm
    BY RungAlarmType DEF IInv
  <2>4. now + PollInterval # None
    BY <2>1, DelaysAssumption, NoneAssumption
  <2>5. alarm.periodic # None => RungAlarm.periodic # None
    BY <2>2, <2>4
  <2>6. QED
    BY <2>1, <2>3, <2>5
<1>2. CASE UNCHANGED vars
  BY <1>2 DEF vars, SInv, Ready, EditWaits
<1>3. CASE Tick \/ LearnStores
  BY <1>3 DEF Tick, LearnStores, SInv, Ready, EditWaits
<1>4. CASE SetClockBack
  BY <1>4 DEF SetClockBack, SInv, Ready, EditWaits
<1>5. CASE WakeWhileBusy
  BY <1>1, <1>5, ScheduledStep DEF WakeWhileBusy, Ready
<1>6. CASE Open \/ WakeCold \/ LoadFails \/ ReadAgain
  BY <1>6 DEF Open, WakeCold, BootWith, LoadFails, ReadAgain, SInv, Ready
<1>7. CASE FinishLoad \/ StartMonitor
  BY <1>7, FinishLoadSchedules, StartMonitorSchedules
<1>8. CASE Crash
  BY <1>8 DEF Crash, SInv, Ready
<1>9. CASE WriteSucceeds
  BY <1>9, WriteSucceedsSchedules
<1>10. CASE WriteFails
  BY <1>10, WriteFailsSchedules
<1>11. CASE Wake
  BY <1>1, <1>11, BeginCycleSchedules DEF Wake
<1>12. CASE CheckNow
  BY <1>1, <1>12, BeginCycleSchedules DEF CheckNow
<1>13. CASE CycleStep
  BY <1>13, FetchSettlesSchedules, DispatchSchedules DEF CycleStep
<1>14. CASE UserEdit
  BY <1>14, UserEditSchedules
<1>15. QED
  BY <1>2, <1>3, <1>4, <1>5, <1>6, <1>7, <1>8, <1>9, <1>10, <1>11, <1>12, <1>13,
     <1>14 DEF Next

\* Whatever edits, polls, restarts and failures come in any order, an engine at rest
\* that holds an enabled watch has its periodic alarm, unless storage failed under its
\* start() or an edit and nothing has made up for it since: no save is ever refused, so
\* every edit gets to its refreshSchedule.
THEOREM EnabledWatchesAreScheduled == Spec => []EnabledWatchIsScheduled
<1>1. Init => SInv
  BY DEF Init, SInv, Ready
<1>2. IInv /\ FInv /\ IInv' /\ SInv /\ [Next]_vars => SInv'
  BY NextKeepsSInv
<1>3. SInv => EnabledWatchIsScheduled
  BY DEF SInv, Watching, EditWaits, EnabledWatchIsScheduled
<1>4. QED
  BY <1>1, <1>2, <1>3, IInvAlways, FInvAlways, PTL DEF Spec

===============================================================================
