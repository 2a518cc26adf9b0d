-------------------------- MODULE DesktopAlertsProofs --------------------------
(***************************************************************************)
(* The desktop alerts, for any events, any number of alerts under way, any *)
(* length of the ledger and any bounds: an alert is not given to the       *)
(* system twice without need, the badge follows the ledger, and test       *)
(* notifications keep their distance.                                      *)
(***************************************************************************)
EXTENDS LocalRuntime, TLAPS, FiniteSetTheorems

(* The inductive invariant.                                                *)

Ledgers == UNION {[refs -> BOOLEAN] : refs \in SUBSET Events}

Alerts == [event : Events \cup {0}, aborted : BOOLEAN,
           at : {"idle", "checking", "reading", "showing", "recording"}]

Mutations == [op : {"record", "read", "unread", "reconcile"},
              event : Events \cup {0}, by : Tasks \cup {0}]

Turns == [seen : Ledgers \cup {<<>>}, at : {"idle", "writing", "badge"}]

DesktopTypes ==
    /\ clock \in Nat /\ missed \in BOOLEAN
    /\ ledger \in Ledgers
    /\ task \in [Tasks -> Alerts]
    /\ \A k \in Tasks : task[k].at # "idle" => task[k].event \in Events
    /\ stateTail \in Seq(Mutations)
    /\ turn \in Turns
    /\ shown \in [Events -> Nat] /\ unrecorded \in [Events -> Nat]

\* The ledger keeps its length.
LedgerIsShort == IsFiniteSet(DOMAIN ledger) /\ Cardinality(DOMAIN ledger) <= MaxReferences

\* The running mutation is the first of the queue; before it has written, its
\* references are some of those that are stored, and afterwards all of them.
TurnIsFirst ==
    /\ turn.at # "idle" => stateTail # <<>>
    /\ turn.at = "writing" => turn.seen \in Ledgers /\ DOMAIN turn.seen \subseteq DOMAIN ledger
    /\ turn.at = "badge" => turn.seen = ledger

\* Only while a mutation is about to update the badge, or the worker has not yet
\* looked at the ledger at all, do the two differ.
BadgeFollows ==
    ~missed /\ turn.at # "badge" /\ (stateTail = <<>> \/ Head(stateTail).op # "reconcile")
        => badge = Unread(ledger)

\* A test that waits for the permission has no cooldown yet.
TestsInTurn ==
    /\ tests \in {0, 1} /\ (~cooling => tests = 0)
    /\ test = "permission" => ~cooling

\* A reference that waits in the queue is that of an alert which waits for it.
RecordsWait ==
    /\ \A i \in 1 .. Len(stateTail) :
          LET m == stateTail[i]
          IN IF m.op = "record"
             THEN m.by \in Tasks /\ task[m.by].at = "recording" /\ task[m.by].event = m.event
             ELSE m.by = 0
    /\ \A i, j \in 1 .. Len(stateTail) :
          stateTail[i].op = "record" /\ stateTail[i].by = stateTail[j].by => i = j
    /\ turn.at = "badge" /\ Head(stateTail).op = "record"
          => Head(stateTail).event \in DOMAIN ledger

OneAlertEach ==
    \A k, x \in Tasks : /\ task[k].at # "idle" /\ task[x].at # "idle"
                        /\ task[k].event = task[x].event
                        => k = x

\* What is shown has not been recorded while its reference could be valid.
ShowingIsNew ==
    \A k \in Tasks : task[k].at = "showing"
        => Lapsed(task[k].event) \/ task[k].event \notin DOMAIN ledger

Recording(e) == \E k \in Tasks : task[k].at = "recording" /\ task[k].event = e

\* Beyond what was lost, an alert that was shown is in the ledger or on its way.
ShownIsKnown ==
    \A e \in Events : ~Lapsed(e) =>
        /\ shown[e] <= unrecorded[e] + 1
        /\ e \in DOMAIN ledger \/ Recording(e) \/ shown[e] <= unrecorded[e]

DInv == /\ DesktopTypes /\ LedgerIsShort /\ TurnIsFirst /\ RecordsWait
        /\ OneAlertEach /\ ShowingIsNew /\ ShownIsKnown

-------------------------------------------------------------------------------
(* The steps, by what they are about.                                      *)

AlertMoves(k) ==
    \/ Check(k) \/ ReadLedger(k) \/ LedgerUnreadable(k)
    \/ Shown(k) \/ ShownUnheard(k) \/ NotShown(k) \/ Abort(k)

TurnMoves == ReadTurn \/ WriteTurn \/ UpdateBadge \/ BadgeFails \/ TurnFails

TestMoves == BeginTest \/ TestPermitted \/ TestEnds \/ TestExpires \/ LatePermission \/ CooldownEnds

LEMMA DesktopKinds ==
    ASSUME [Next]_vars
    PROVE  \/ UNCHANGED desktopVars
           \/ \E k \in Tasks : AlertMoves(k)
           \/ \E k \in Tasks, e \in Events : Notify(k, e)
           \/ \E e \in Events : AskLedger("read", e)
           \/ AskLedger("unread", 0)
           \/ TurnMoves
           \/ TestMoves
           \/ Tick
           \/ DesktopDie
<1>1. CASE UNCHANGED vars
  BY <1>1 DEF vars
<1>2. CASE SystemStep
  <2>1. CASE DesktopStep
    BY <2>1 DEF DesktopStep, AlertMoves, TurnMoves, TestMoves
  <2>2. CASE \E s \in Slots : JoinWatchQueue(s) \/ StartWatchMutation(s) \/ GateAnswered(s) \/ WatchSaved(s)
    BY <2>2 DEF JoinWatchQueue, StartWatchMutation, GateAnswered, WatchSaved
  <2>3. QED
    BY <1>2, <2>1, <2>2 DEF SystemStep
<1>3. CASE \E s \in Slots : TelegramCommand(s) \/ TelegramAlert(s) \/ EditWatch(s) \/ WatchNotSaved(s)
  BY <1>3 DEF TelegramCommand, TelegramAlert, EditWatch, WatchNotSaved
<1>4. CASE DesktopAlert
  BY <1>4 DEF DesktopAlert
<1>5. CASE DesktopCommand
  BY <1>5 DEF DesktopCommand, TestMoves
<1>6. CASE ResetWatches \/ StoreFails
  BY <1>6 DEF ResetWatches, StoreFails
<1>7. CASE DesktopFails
  BY <1>7 DEF DesktopFails, AlertMoves, TurnMoves, TestMoves
<1>8. CASE DesktopPasses
  BY <1>8 DEF DesktopPasses, AlertMoves, TestMoves
<1>9. CASE TimePasses
  BY <1>9 DEF TimePasses
<1>10. CASE WorkerDies
  BY <1>10 DEF WorkerDies
<1>11. QED
  BY <1>1, <1>2, <1>3, <1>4, <1>5, <1>6, <1>7, <1>8, <1>9, <1>10 DEF Next

-------------------------------------------------------------------------------
(* Test notifications.                                                     *)

\* However late the browser answers about the permission, at most one test is
\* shown between two ends of the cooldown.
THEOREM TestsAreAlwaysSpaced == Spec => []TestsAreSpaced
<1>1. Init => TestsInTurn
  BY DEF Init, DesktopInit, TestsInTurn
<1>2. TestsInTurn /\ [Next]_vars => TestsInTurn'
  <2> SUFFICES ASSUME TestsInTurn, [Next]_vars PROVE TestsInTurn'
    OBVIOUS
  <2>1. CASE UNCHANGED <<test, cooling, tests>>
    BY <2>1 DEF TestsInTurn
  <2>2. CASE TestMoves
    <3>1. CASE BeginTest
      BY <3>1 DEF BeginTest, TestsInTurn
    <3>2. CASE TestPermitted
      BY <3>2 DEF TestPermitted, TestsInTurn
    <3>3. CASE TestEnds \/ TestExpires
      BY <3>3 DEF TestEnds, TestExpires, TestsInTurn
    <3>4. CASE LatePermission
      BY <3>4 DEF LatePermission, TestsInTurn
    <3>5. CASE CooldownEnds
      BY <3>5 DEF CooldownEnds, TestsInTurn
    <3>6. QED
      BY <2>2, <3>1, <3>2, <3>3, <3>4, <3>5 DEF TestMoves
  <2>3. CASE DesktopDie
    BY <2>3 DEF DesktopDie, TestsInTurn
  <2>4. ASSUME NEW k \in Tasks, AlertMoves(k) PROVE UNCHANGED <<test, cooling, tests>>
    BY <2>4 DEF AlertMoves, Check, ReadLedger, LedgerUnreadable, Shown, ShownUnheard, NotShown,
       Abort, alertFrame
  <2>5. ASSUME NEW k \in Tasks, NEW e \in Events, Notify(k, e) PROVE UNCHANGED <<test, cooling, tests>>
    BY <2>5 DEF Notify, alertFrame
  <2>6. ASSUME NEW e, AskLedger("read", e) \/ AskLedger("unread", e)
        PROVE  UNCHANGED <<test, cooling, tests>>
    BY <2>6 DEF AskLedger, alertFrame
  <2>7. CASE TurnMoves
    BY <2>1, <2>7 DEF TurnMoves, ReadTurn, WriteTurn, UpdateBadge, BadgeFails, TurnFails, ledgerFrame
  <2>8. CASE Tick
    BY <2>1, <2>8 DEF Tick
  <2>9. CASE UNCHANGED desktopVars
    BY <2>1, <2>9 DEF desktopVars
  <2>10. QED
    BY <2>1, <2>2, <2>3, <2>4, <2>5, <2>6, <2>7, <2>8, <2>9, DesktopKinds
<1>3. TestsInTurn => TestsAreSpaced
  BY DEF TestsInTurn, TestsAreSpaced
<1>4. QED
  BY <1>1, <1>2, <1>3, PTL DEF Spec

-------------------------------------------------------------------------------
(* The ledger.                                                             *)

LEMMA LedgerShape ==
    ASSUME NEW refs \in Ledgers
    PROVE  DOMAIN refs \subseteq Events /\ refs \in [DOMAIN refs -> BOOLEAN]
BY DEF Ledgers

\* The events that are kept differ in how many are newer.
LEMMA NewestAreFew ==
    ASSUME NEW events \in SUBSET Nat, IsFiniteSet(events), NEW n \in Nat
    PROVE  /\ Newest(events, n) \subseteq events /\ IsFiniteSet(Newest(events, n))
           /\ Cardinality(Newest(events, n)) <= n
<1> DEFINE newer(e) == {x \in events : x > e}
           kept == Newest(events, n)
           rank == [e \in kept |-> Cardinality(newer(e))]
<1>1. kept \subseteq events /\ \A e \in kept : e \in events /\ e \in Nat
  BY DEF Newest
<1>2. \A e \in events : IsFiniteSet(newer(e)) /\ Cardinality(newer(e)) \in Nat
  <2>1. \A e \in events : newer(e) \in SUBSET events
    OBVIOUS
  <2>2. QED
    BY <2>1, FS_Subset, FS_CardinalityType
<1>3. rank \in [kept -> 0 .. n - 1]
  <2>1. \A e \in kept : Cardinality(newer(e)) < n
    BY DEF Newest
  <2>2. ASSUME NEW e \in kept PROVE Cardinality(newer(e)) \in 0 .. n - 1
    <3>1. Cardinality(newer(e)) \in Nat /\ Cardinality(newer(e)) < n
      BY <1>1, <1>2, <2>1
    <3>2. QED
      BY <3>1
  <2>3. QED
    BY <2>2
<1>4. ASSUME NEW e \in kept, NEW x \in kept, e < x PROVE rank[e] # rank[x]
  <2>1. newer(x) \in SUBSET newer(e) /\ newer(x) # newer(e)
    <3>1. x \in newer(e) /\ x \notin newer(x)
      BY <1>1, <1>4
    <3>2. \A y \in newer(x) : y > e
      BY <1>1, <1>4
    <3>3. QED
      BY <3>1, <3>2
  <2>2. Cardinality(newer(x)) # Cardinality(newer(e))
    BY <1>1, <1>2, <2>1, FS_Subset
  <2>3. QED
    BY <2>2
<1>5. rank \in Injection(kept, 0 .. n - 1)
  <2>1. \A e, x \in kept : e # x => e < x \/ x < e
    BY <1>1
  <2>2. \A e, x \in kept : rank[e] = rank[x] => e = x
    BY <1>4, <2>1
  <2>3. QED
    BY <1>3, <2>2 DEF Injection, IsInjective
<1>6. IsFiniteSet(0 .. n - 1) /\ Cardinality(0 .. n - 1) = n
  <2>1. 0 \in Int /\ n - 1 \in Int
    OBVIOUS
  <2>2. QED
    BY <2>1, FS_Interval
<1>7. QED
  BY <1>1, <1>5, <1>6, FS_Injection

LEMMA FewAreNewest ==
    ASSUME NEW events \in SUBSET Nat, IsFiniteSet(events), NEW n \in Nat, Cardinality(events) <= n
    PROVE  Newest(events, n) = events
<1> DEFINE newer(e) == {x \in events : x > e}
<1>1. ASSUME NEW e \in events PROVE Cardinality(newer(e)) < n
  <2>1. newer(e) \in SUBSET events /\ newer(e) # events
    <3>1. e \notin newer(e)
      OBVIOUS
    <3>2. QED
      BY <3>1
  <2>2. Cardinality(newer(e)) <= Cardinality(events) /\ Cardinality(newer(e)) # Cardinality(events)
    BY <2>1, FS_Subset
  <2>3. Cardinality(events) \in Nat /\ IsFiniteSet(newer(e)) /\ Cardinality(newer(e)) \in Nat
    BY <2>1, FS_Subset, FS_CardinalityType
  <2>4. QED
    BY <2>2, <2>3
<1>2. QED
  BY <1>1 DEF Newest

LEMMA ParsedKeeps ==
    ASSUME NEW refs \in Ledgers
    PROVE  /\ Parsed(refs) \in Ledgers /\ DOMAIN Parsed(refs) \subseteq DOMAIN refs
           /\ IsFiniteSet(DOMAIN refs) /\ Cardinality(DOMAIN refs) <= MaxReferences =>
                 \A e \in DOMAIN refs : e \in DOMAIN Parsed(refs) \/ Lapsed(e)
<1> DEFINE events == {e \in Newest(DOMAIN refs, MaxReferences) : ~Lapsed(e)}
<1>1. /\ DOMAIN Only(refs, events) = DOMAIN refs \cap events
      /\ \A e \in DOMAIN refs \cap events : Only(refs, events)[e] \in BOOLEAN
      /\ Only(refs, events) \in [DOMAIN refs \cap events -> BOOLEAN]
  BY LedgerShape DEF Only
<1>2. Parsed(refs) = Only(refs, events)
  BY DEF Parsed
<1>3. DOMAIN refs \cap events \in SUBSET Events
  BY LedgerShape
<1>4. Parsed(refs) \in Ledgers
  BY <1>1, <1>2, <1>3 DEF Ledgers
<1>5. IsFiniteSet(DOMAIN refs) /\ Cardinality(DOMAIN refs) <= MaxReferences =>
         Newest(DOMAIN refs, MaxReferences) = DOMAIN refs
  BY LedgerShape, FewAreNewest, DesktopConstants
<1>6. QED
  BY <1>1, <1>2, <1>4, <1>5

\* What a mutation makes of the references.
LEMMA MutatedKeeps ==
    ASSUME NEW m \in Mutations, NEW refs \in Ledgers, m.op = "record" => m.event \in Events
    PROVE  /\ Mutated(m, refs) \in Ledgers
           /\ m.op = "record" => /\ m.event \in DOMAIN Mutated(m, refs)
                                 /\ DOMAIN Mutated(m, refs) \subseteq DOMAIN refs \cup {m.event}
           /\ m.op # "record" => DOMAIN Mutated(m, refs) = DOMAIN refs
           /\ IsFiniteSet(DOMAIN refs) /\ Cardinality(DOMAIN refs) <= MaxReferences =>
                 /\ IsFiniteSet(DOMAIN Mutated(m, refs))
                 /\ Cardinality(DOMAIN Mutated(m, refs)) <= MaxReferences
<1>1. CASE m.op = "record" /\ m.event \notin DOMAIN refs
  <2> DEFINE kept == Newest(DOMAIN refs, MaxReferences - 1)
             next == WithReference(refs, m.event)
  <2>1. Mutated(m, refs) = next
    BY <1>1 DEF Mutated
  <2>2. kept \subseteq DOMAIN refs /\ kept \cup {m.event} \in SUBSET Events
    BY <1>1, LedgerShape DEF Newest
  <2>3. DOMAIN next = kept \cup {m.event} /\ next \in [kept \cup {m.event} -> BOOLEAN]
    <3>1. \A x \in kept \cup {m.event} : (IF x = m.event THEN FALSE ELSE refs[x]) \in BOOLEAN
      BY <2>2, LedgerShape
    <3>2. QED
      BY <3>1 DEF WithReference
  <2>4. next \in Ledgers
    BY <2>2, <2>3 DEF Ledgers
  <2>5. IsFiniteSet(DOMAIN refs) => IsFiniteSet(DOMAIN next) /\ Cardinality(DOMAIN next) <= MaxReferences
    <3>1. MaxReferences \in Nat /\ MaxReferences - 1 \in Nat /\ DOMAIN refs \in SUBSET Nat
      BY LedgerShape, DesktopConstants
    <3>2. IsFiniteSet(DOMAIN refs) => IsFiniteSet(kept) /\ Cardinality(kept) <= MaxReferences - 1
      BY <3>1, NewestAreFew
    <3>3. ASSUME IsFiniteSet(kept)
          PROVE  /\ Cardinality(kept) \in Nat /\ IsFiniteSet(kept \cup {m.event})
                 /\ Cardinality(kept \cup {m.event}) \in {Cardinality(kept), Cardinality(kept) + 1}
      <4>1. IsFiniteSet(kept \cup {m.event})
        BY <3>3, FS_AddElement, Zenon
      <4>2. Cardinality(kept \cup {m.event}) =
               IF m.event \in kept THEN Cardinality(kept) ELSE Cardinality(kept) + 1
        BY <3>3, FS_AddElement, Zenon
      <4>3. Cardinality(kept) \in Nat
        BY <3>3, FS_CardinalityType, Zenon
      <4>4. QED
        BY <4>1, <4>2, <4>3
    <3>4. IsFiniteSet(kept) /\ Cardinality(kept) <= MaxReferences - 1 =>
             /\ IsFiniteSet(kept \cup {m.event})
             /\ Cardinality(kept \cup {m.event}) <= MaxReferences
      BY <3>1, <3>3
    <3>5. QED
      BY <2>3, <3>2, <3>4
  <2>6. QED
    BY <1>1, <2>1, <2>2, <2>3, <2>4, <2>5
<1>2. CASE m.op = "read" /\ m.event \in DOMAIN refs
  <2>1. Mutated(m, refs) = [refs EXCEPT ![m.event] = TRUE]
    BY <1>2 DEF Mutated
  <2>2. Mutated(m, refs) \in [DOMAIN refs -> BOOLEAN]
    BY <2>1, LedgerShape
  <2>3. QED
    BY <1>2, <2>2, LedgerShape DEF Ledgers
<1>3. CASE /\ ~(m.op = "record" /\ m.event \notin DOMAIN refs)
           /\ ~(m.op = "read" /\ m.event \in DOMAIN refs)
  <2>1. Mutated(m, refs) = refs
    BY <1>3 DEF Mutated
  <2>2. QED
    BY <1>3, <2>1
<1>4. QED
  BY <1>1, <1>2, <1>3

-------------------------------------------------------------------------------
(* Alerts.                                                                 *)

\* An alert that is not being recorded moves on, or a new one begins: what it was
\* shown for and did not record counts as lost.
AlertPasses(k) ==
    LET t == task'[k]
    IN /\ task' = [task EXCEPT ![k] = t] /\ t \in Alerts
       /\ task[k].at # "recording" /\ t.at # "recording"
       /\ t.at # "idle" => /\ t.event \in Events
                           /\ \A x \in Tasks \ {k} : task[x].at # "idle" => task[x].event # t.event
       /\ t.at = "showing" => Lapsed(t.event) \/ t.event \notin DOMAIN ledger
       /\ UNCHANGED <<alertFrame, stateTail>>
       /\ shown' \in [Events -> Nat] /\ unrecorded' \in [Events -> Nat]
       /\ \A e \in Events : \/ shown'[e] = shown[e] /\ unrecorded'[e] = unrecorded[e]
                            \/ shown'[e] = shown[e] + 1 /\ unrecorded'[e] = unrecorded[e] + 1

LEMMA PassingKeeps ==
    ASSUME DInv, NEW k \in Tasks, AlertPasses(k)
    PROVE  DInv'
<1>1. /\ task \in [Tasks -> Alerts] /\ task' \in [Tasks -> Alerts]
      /\ \A x \in Tasks \ {k} : task'[x] = task[x]
      /\ UNCHANGED <<clock, ledger, turn, stateTail, missed>>
  BY DEF DInv, DesktopTypes, AlertPasses, alertFrame
<1>2. DesktopTypes' /\ LedgerIsShort' /\ TurnIsFirst'
  BY <1>1 DEF DInv, DesktopTypes, LedgerIsShort, TurnIsFirst, AlertPasses
<1>3. RecordsWait'
  <2>1. \A i \in 1 .. Len(stateTail) : stateTail[i].op = "record" => stateTail[i].by \in Tasks \ {k}
    BY DEF DInv, RecordsWait, AlertPasses
  <2>2. QED
    BY <1>1, <2>1 DEF DInv, RecordsWait
<1>4. OneAlertEach'
  BY <1>1 DEF DInv, OneAlertEach, AlertPasses
<1>5. ShowingIsNew'
  BY <1>1 DEF DInv, ShowingIsNew, AlertPasses, Lapsed
<1>6. ShownIsKnown'
  <2>1. \A e \in Events : Recording(e)' <=> Recording(e)
    BY <1>1 DEF Recording, AlertPasses
  <2>2. \A e \in Events : /\ shown[e] \in Nat /\ unrecorded[e] \in Nat
                          /\ Lapsed(e)' <=> Lapsed(e)
    BY <1>1 DEF DInv, DesktopTypes, Lapsed
  <2>3. QED
    BY <1>1, <2>1, <2>2 DEF DInv, ShownIsKnown, AlertPasses
<1>7. QED
  BY <1>2, <1>3, <1>4, <1>5, <1>6 DEF DInv

LEMMA IdleIsAlert == IdleTask \in Alerts /\ IdleTask.at = "idle"
BY DEF IdleTask, Alerts

\* The moves that show nothing.
LEMMA QuietMoves ==
    ASSUME DInv, NEW k \in Tasks,
           Check(k) \/ ReadLedger(k) \/ LedgerUnreadable(k) \/ NotShown(k) \/ Abort(k)
    PROVE  AlertPasses(k)
<1> DEFINE g == task[k]  t == task'[k]
<1>1. g \in Alerts /\ task \in [Tasks -> Alerts]
      /\ shown \in [Events -> Nat] /\ unrecorded \in [Events -> Nat]
  BY DEF DInv, DesktopTypes
<1>2. UNCHANGED <<alertFrame, stateTail, shown, unrecorded>> /\ g.at \in {"checking", "reading", "showing"}
  BY DEF Check, ReadLedger, LedgerUnreadable, NotShown, Abort
<1>3. \/ task' = [task EXCEPT ![k] = IdleTask]
      \/ g.at = "checking" /\ task' = [task EXCEPT ![k].at = "reading"]
      \/ /\ g.at = "reading" /\ task' = [task EXCEPT ![k].at = "showing"]
         /\ g.event \notin DOMAIN Parsed(ledger)
      \/ task' = [task EXCEPT ![k].aborted = TRUE]
  BY DEF Check, ReadLedger, LedgerUnreadable, NotShown, Abort, Over, AtStage
<1>4. \/ t = IdleTask
      \/ t = [g EXCEPT !.at = "reading"]
      \/ t = [g EXCEPT !.at = "showing"] /\ g.event \notin DOMAIN Parsed(ledger)
      \/ t = [g EXCEPT !.aborted = TRUE]
  BY <1>1, <1>3
<1>5. task' = [task EXCEPT ![k] = t]
  BY <1>1, <1>3
<1>6. t \in Alerts /\ t.at # "recording" /\ (t.at # "idle" => t.event = g.event)
  BY <1>1, <1>2, <1>4, IdleIsAlert DEF Alerts
<1>7. t.at = "showing" => Lapsed(g.event) \/ g.event \notin DOMAIN ledger
  <2>1. g.event \notin DOMAIN Parsed(ledger) => Lapsed(g.event) \/ g.event \notin DOMAIN ledger
    BY ParsedKeeps DEF DInv, DesktopTypes, LedgerIsShort
  <2>2. t.at = "showing" => g.at = "showing" \/ g.event \notin DOMAIN Parsed(ledger)
    BY <1>1, <1>4, IdleIsAlert DEF Alerts
  <2>3. QED
    BY <2>1, <2>2 DEF DInv, ShowingIsNew
<1>8. g.event \in Events /\ \A x \in Tasks \ {k} : task[x].at # "idle" => task[x].event # g.event
  BY <1>2 DEF DInv, DesktopTypes, OneAlertEach
<1>9. QED
  BY <1>1, <1>2, <1>5, <1>6, <1>7, <1>8 DEF AlertPasses

LEMMA NotifyPasses ==
    ASSUME DInv, NEW k \in Tasks, NEW e \in Events, Notify(k, e)
    PROVE  AlertPasses(k)
<1> DEFINE t == [IdleTask EXCEPT !.event = e, !.at = "checking"]
<1>1. task' = [task EXCEPT ![k] = t] /\ task \in [Tasks -> Alerts]
  BY DEF Notify, DInv, DesktopTypes
<1>2. t \in Alerts /\ t.event = e /\ t.at = "checking"
  BY DEF Alerts, IdleTask
<1>3. task'[k] = t
  BY <1>1
<1>4. \A x \in Tasks \ {k} : task[x].at # "idle" => task[x].event # e
  BY DEF Notify, InFlight
<1>5. QED
  BY <1>1, <1>2, <1>3, <1>4 DEF AlertPasses, Notify, DInv, DesktopTypes

\* An alert that was shown and is not recorded.
LEMMA LostPasses ==
    ASSUME DInv, NEW k \in Tasks, task[k].at = "showing",
           shown' = [shown EXCEPT ![task[k].event] = @ + 1],
           Over(k), Losing({task[k].event}), UNCHANGED <<alertFrame, stateTail>>
    PROVE  AlertPasses(k)
<1> DEFINE e == task[k].event
<1>1. /\ task \in [Tasks -> Alerts] /\ e \in Events
      /\ shown \in [Events -> Nat] /\ unrecorded \in [Events -> Nat]
  BY DEF DInv, DesktopTypes
<1>2. task' = [task EXCEPT ![k] = IdleTask] /\ task'[k] = IdleTask
  BY <1>1 DEF Over
<1>3. /\ shown' \in [Events -> Nat] /\ shown'[e] = shown[e] + 1
      /\ \A x \in Events \ {e} : shown'[x] = shown[x]
  BY <1>1
<1>4. /\ unrecorded' \in [Events -> Nat] /\ unrecorded'[e] = unrecorded[e] + 1
      /\ \A x \in Events \ {e} : unrecorded'[x] = unrecorded[x]
  BY <1>1 DEF Losing
<1>5. \A x \in Events : \/ shown'[x] = shown[x] /\ unrecorded'[x] = unrecorded[x]
                        \/ shown'[x] = shown[x] + 1 /\ unrecorded'[x] = unrecorded[x] + 1
  BY <1>3, <1>4
<1>6. QED
  BY <1>1, <1>2, <1>3, <1>4, <1>5, IdleIsAlert DEF AlertPasses

\* An alert that was shown joins the queue.
LEMMA RecordingKeeps ==
    ASSUME DInv, NEW k \in Tasks, task[k].at = "showing",
           shown' = [shown EXCEPT ![task[k].event] = @ + 1],
           AtStage(k, "recording"),
           stateTail' = Append(stateTail, [op |-> "record", event |-> task[k].event, by |-> k]),
           UNCHANGED unrecorded, UNCHANGED alertFrame
    PROVE  DInv'
<1> DEFINE e == task[k].event
           m == [op |-> "record", event |-> e, by |-> k]
<1>1. /\ task \in [Tasks -> Alerts] /\ e \in Events /\ stateTail \in Seq(Mutations)
      /\ shown \in [Events -> Nat] /\ unrecorded \in [Events -> Nat]
      /\ UNCHANGED <<clock, ledger, turn, missed, unrecorded>>
  BY DEF DInv, DesktopTypes, alertFrame
<1>2. /\ task' \in [Tasks -> Alerts] /\ task'[k] = [task[k] EXCEPT !.at = "recording"]
      /\ \A x \in Tasks \ {k} : task'[x] = task[x]
  BY <1>1 DEF AtStage, Alerts
<1>3. task'[k].at = "recording" /\ task'[k].event = e
  BY <1>1, <1>2 DEF Alerts
<1>4. m \in Mutations /\ m.op = "record" /\ m.event = e /\ m.by = k
  BY <1>1 DEF Mutations
<1>5. /\ stateTail' \in Seq(Mutations) /\ Len(stateTail) \in Nat /\ Len(stateTail') = Len(stateTail) + 1
      /\ \A i \in 1 .. Len(stateTail) : stateTail'[i] = stateTail[i]
      /\ stateTail'[Len(stateTail) + 1] = m
      /\ \A i \in 1 .. Len(stateTail') : i \in 1 .. Len(stateTail) \/ i = Len(stateTail) + 1
      /\ stateTail' # <<>> /\ (stateTail # <<>> => Head(stateTail') = Head(stateTail))
  BY <1>1, <1>4
<1>6. shown' \in [Events -> Nat] /\ shown'[e] = shown[e] + 1 /\ \A x \in Events \ {e} : shown'[x] = shown[x]
  BY <1>1
<1>7. DesktopTypes' /\ LedgerIsShort' /\ TurnIsFirst'
  <2>1. \A x \in Tasks : task'[x].at # "idle" => task'[x].event \in Events
    BY <1>1, <1>2, <1>3 DEF DInv, DesktopTypes
  <2>2. QED
    BY <1>1, <1>2, <1>5, <1>6, <2>1 DEF DInv, DesktopTypes, LedgerIsShort, TurnIsFirst
<1>8. RecordsWait'
  <2>1. \A i \in 1 .. Len(stateTail) :
           /\ stateTail[i].op = "record" => stateTail[i].by \in Tasks \ {k}
           /\ stateTail[i].op # "record" => stateTail[i].by = 0
           /\ stateTail[i].by # k
    BY DesktopConstants DEF DInv, RecordsWait
  <2>2. \A i \in 1 .. Len(stateTail') :
           LET n == stateTail'[i]
           IN IF n.op = "record"
              THEN n.by \in Tasks /\ task'[n.by].at = "recording" /\ task'[n.by].event = n.event
              ELSE n.by = 0
    <3>1. ASSUME NEW i \in 1 .. Len(stateTail), stateTail[i].op = "record"
          PROVE  /\ stateTail[i].by \in Tasks /\ task'[stateTail[i].by].at = "recording"
                 /\ task'[stateTail[i].by].event = stateTail[i].event
      BY <1>2, <2>1, <3>1 DEF DInv, RecordsWait
    <3>2. QED
      BY <1>3, <1>4, <1>5, <2>1, <3>1
  <2>3. \A i, j \in 1 .. Len(stateTail') :
           stateTail'[i].op = "record" /\ stateTail'[i].by = stateTail'[j].by => i = j
    BY <1>4, <1>5, <2>1 DEF DInv, RecordsWait
  <2>4. turn'.at = "badge" /\ Head(stateTail').op = "record" => Head(stateTail').event \in DOMAIN ledger'
    BY <1>1, <1>5 DEF DInv, TurnIsFirst, RecordsWait
  <2>5. QED
    BY <2>2, <2>3, <2>4 DEF RecordsWait
<1>9. OneAlertEach'
  <2>1. \A x \in Tasks : task[x].at # "idle" /\ task[x].event = e => x = k
    BY DEF DInv, OneAlertEach
  <2>2. ASSUME NEW a \in Tasks, NEW b \in Tasks, task'[a].at # "idle", task'[b].at # "idle",
               task'[a].event = task'[b].event
        PROVE  a = b
    <3>0. \A x \in Tasks \ {k} : task'[x].at # "idle" => task'[x].event # e
      BY <1>2, <2>1
    <3>1. CASE a = k \/ b = k
      BY <1>3, <2>2, <3>0, <3>1
    <3>2. CASE a # k /\ b # k
      BY <1>2, <2>2, <3>2 DEF DInv, OneAlertEach
    <3>3. QED
      BY <3>1, <3>2
  <2>3. QED
    BY <2>2 DEF OneAlertEach
<1>10. ShowingIsNew'
  BY <1>1, <1>2, <1>3 DEF DInv, ShowingIsNew, Lapsed
<1>11. ShownIsKnown'
  <2> SUFFICES ASSUME NEW x \in Events, ~Lapsed(x)'
               PROVE  /\ shown'[x] <= unrecorded'[x] + 1
                      /\ x \in DOMAIN ledger' \/ Recording(x)' \/ shown'[x] <= unrecorded'[x]
    BY DEF ShownIsKnown
  <2>1. /\ Recording(x) => Recording(x)'
        /\ ~Lapsed(x) /\ shown[x] \in Nat /\ unrecorded[x] \in Nat
    BY <1>1, <1>2 DEF Recording, Lapsed
  <2>2. shown[x] <= unrecorded[x] + 1 /\ (x \in DOMAIN ledger \/ Recording(x) \/ shown[x] <= unrecorded[x])
    BY <2>1 DEF DInv, ShownIsKnown
  <2>3. CASE x # e
    BY <1>1, <1>6, <2>1, <2>2, <2>3
  <2>4. CASE x = e
    <3>1. Recording(x)' /\ ~Recording(x) /\ x \notin DOMAIN ledger
      BY <1>3, <2>1, <2>4 DEF Recording, DInv, OneAlertEach, ShowingIsNew
    <3>2. shown'[x] = shown[x] + 1 /\ unrecorded'[x] = unrecorded[x] /\ shown[x] <= unrecorded[x]
      BY <1>1, <1>6, <2>2, <2>4, <3>1
    <3>3. QED
      BY <2>1, <3>1, <3>2
  <2>5. QED
    BY <2>3, <2>4
<1>12. QED
  BY <1>7, <1>8, <1>9, <1>10, <1>11 DEF DInv

LEMMA AlertMovesKeep ==
    ASSUME DInv, NEW k \in Tasks, AlertMoves(k)
    PROVE  DInv'
<1>1. CASE Check(k) \/ ReadLedger(k) \/ LedgerUnreadable(k) \/ NotShown(k) \/ Abort(k)
  BY <1>1, QuietMoves, PassingKeeps
<1>2. CASE Shown(k)
  BY <1>2, LostPasses, PassingKeeps, RecordingKeeps DEF Shown
<1>3. CASE ShownUnheard(k)
  BY <1>3, LostPasses, PassingKeeps DEF ShownUnheard
<1>4. QED
  BY <1>1, <1>2, <1>3 DEF AlertMoves

-------------------------------------------------------------------------------
(* The queue of ledger mutations.                                          *)

LEMMA AskingKeeps ==
    ASSUME DInv, NEW op \in {"read", "unread"}, NEW e \in Events \cup {0}, AskLedger(op, e)
    PROVE  DInv'
<1> DEFINE m == [op |-> op, event |-> e, by |-> 0]
<1>1. /\ stateTail \in Seq(Mutations) /\ stateTail' = Append(stateTail, m)
      /\ UNCHANGED <<clock, ledger, turn, missed, task, shown, unrecorded>>
  BY DEF DInv, DesktopTypes, AskLedger, alertFrame
<1>2. m \in Mutations /\ m.op # "record" /\ m.by = 0
  BY DEF Mutations
<1>3. /\ stateTail' \in Seq(Mutations) /\ Len(stateTail) \in Nat /\ Len(stateTail') = Len(stateTail) + 1
      /\ \A i \in 1 .. Len(stateTail) : stateTail'[i] = stateTail[i]
      /\ stateTail'[Len(stateTail) + 1] = m
      /\ \A i \in 1 .. Len(stateTail') : i \in 1 .. Len(stateTail) \/ i = Len(stateTail) + 1
      /\ stateTail' # <<>> /\ (stateTail # <<>> => Head(stateTail') = Head(stateTail))
  BY <1>1, <1>2
<1>4. DesktopTypes' /\ LedgerIsShort' /\ TurnIsFirst' /\ OneAlertEach' /\ ShowingIsNew' /\ ShownIsKnown'
  BY <1>1, <1>3 DEF DInv, DesktopTypes, LedgerIsShort, TurnIsFirst, OneAlertEach, ShowingIsNew,
     ShownIsKnown, Lapsed, Recording
<1>5. RecordsWait'
  <2>1. \A i \in 1 .. Len(stateTail) : stateTail[i].op = "record" => stateTail[i].by # 0
    BY DesktopConstants DEF DInv, RecordsWait
  <2>2. turn'.at = "badge" => stateTail # <<>>
    BY <1>1 DEF DInv, TurnIsFirst
  <2>3. QED
    BY <1>1, <1>2, <1>3, <2>1, <2>2 DEF DInv, RecordsWait
<1>6. QED
  BY <1>4, <1>5 DEF DInv

\* The first mutation of the queue.
LEMMA FirstMutation ==
    ASSUME DInv, stateTail # <<>>
    PROVE  /\ Head(stateTail) \in Mutations /\ Head(stateTail) = stateTail[1]
           /\ Len(stateTail) \in Nat /\ 1 \in 1 .. Len(stateTail)
           /\ IF Head(stateTail).op = "record"
              THEN /\ Head(stateTail).by \in Tasks /\ task[Head(stateTail).by].at = "recording"
                   /\ task[Head(stateTail).by].event = Head(stateTail).event
                   /\ Head(stateTail).event \in Events
              ELSE Head(stateTail).by = 0
<1>1. stateTail \in Seq(Mutations)
  BY DEF DInv, DesktopTypes
<1>2. /\ Head(stateTail) \in Mutations /\ Head(stateTail) = stateTail[1]
      /\ Len(stateTail) \in Nat /\ 1 \in 1 .. Len(stateTail)
  BY <1>1
<1>3. QED
  BY <1>2 DEF DInv, RecordsWait, DesktopTypes

\* A mutation ends: an alert that waited for it is in the ledger, or counts as lost.
LEMMA EndingKeeps ==
    ASSUME DInv, stateTail # <<>>, EndTurn,
           UNCHANGED <<clock, ledger, shown>>, missed' \in BOOLEAN,
           unrecorded' \in [Events -> Nat], \A e \in Events : unrecorded'[e] >= unrecorded[e],
           Head(stateTail).op = "record"
              => LET e == Head(stateTail).event
                 IN e \in DOMAIN ledger \/ unrecorded'[e] >= unrecorded[e] + 1
    PROVE  DInv'
<1> DEFINE m == Head(stateTail)
<1>1. /\ stateTail \in Seq(Mutations) /\ task \in [Tasks -> Alerts]
      /\ shown \in [Events -> Nat] /\ unrecorded \in [Events -> Nat]
      /\ IdleTurn.at = "idle" /\ IdleTurn \in Turns
  BY DEF DInv, DesktopTypes, IdleTurn, Turns
<1>2. /\ Len(stateTail) \in Nat /\ 1 \in 1 .. Len(stateTail) /\ m = stateTail[1]
      /\ stateTail' \in Seq(Mutations) /\ Len(stateTail') = Len(stateTail) - 1
      /\ \A i \in 1 .. Len(stateTail') : stateTail'[i] = stateTail[i + 1] /\ i + 1 \in 1 .. Len(stateTail)
  BY <1>1 DEF EndTurn
<1>3. /\ turn' = IdleTurn /\ turn'.at = "idle"
      /\ task' \in [Tasks -> Alerts]
      /\ \A k \in Tasks : task'[k] = task[k] \/ task'[k] = IdleTask
      /\ \A k \in Tasks : k # m.by => task'[k] = task[k]
  BY <1>1, IdleIsAlert DEF EndTurn
<1>4. DesktopTypes' /\ LedgerIsShort' /\ TurnIsFirst'
  BY <1>1, <1>2, <1>3, IdleIsAlert DEF DInv, DesktopTypes, LedgerIsShort, TurnIsFirst
<1>5. RecordsWait'
  <2>1. \A i \in 1 .. Len(stateTail') : stateTail[i + 1].by # m.by \/ stateTail[i + 1].op # "record"
    <3>1. ASSUME NEW i \in 1 .. Len(stateTail'), stateTail[i + 1].op = "record", stateTail[i + 1].by = m.by
          PROVE  FALSE
      <4>1. i + 1 \in 1 .. Len(stateTail) /\ i + 1 # 1
        BY <1>2
      <4>2. QED
        BY <1>2, <3>1, <4>1 DEF DInv, RecordsWait
    <3>2. QED
      BY <3>1
  <2>2. \A i \in 1 .. Len(stateTail') :
           LET n == stateTail'[i]
           IN IF n.op = "record"
              THEN n.by \in Tasks /\ task'[n.by].at = "recording" /\ task'[n.by].event = n.event
              ELSE n.by = 0
    BY <1>2, <1>3, <2>1 DEF DInv, RecordsWait
  <2>3. \A i, j \in 1 .. Len(stateTail') :
           stateTail'[i].op = "record" /\ stateTail'[i].by = stateTail'[j].by => i = j
    <3>1. ASSUME NEW i \in 1 .. Len(stateTail'), NEW j \in 1 .. Len(stateTail'),
                 stateTail'[i].op = "record", stateTail'[i].by = stateTail'[j].by
          PROVE  i = j
      <4>1. i + 1 = j + 1
        BY <1>2, <3>1 DEF DInv, RecordsWait
      <4>2. QED
        BY <1>2, <4>1
    <3>2. QED
      BY <3>1
  <2>4. QED
    BY <1>3, <2>2, <2>3 DEF RecordsWait
<1>6. OneAlertEach' /\ ShowingIsNew'
  BY <1>3, IdleIsAlert DEF DInv, OneAlertEach, ShowingIsNew, Lapsed
<1>7. ShownIsKnown'
  <2> SUFFICES ASSUME NEW e \in Events, ~Lapsed(e)'
               PROVE  /\ shown'[e] <= unrecorded'[e] + 1
                      /\ e \in DOMAIN ledger' \/ Recording(e)' \/ shown'[e] <= unrecorded'[e]
    BY DEF ShownIsKnown
  <2>1. /\ shown'[e] = shown[e] /\ shown[e] \in Nat /\ unrecorded[e] \in Nat /\ unrecorded'[e] \in Nat
        /\ unrecorded'[e] >= unrecorded[e] /\ ~Lapsed(e)
    BY <1>1 DEF Lapsed
  <2>2. shown[e] <= unrecorded[e] + 1 /\ (e \in DOMAIN ledger \/ Recording(e) \/ shown[e] <= unrecorded[e])
    BY <2>1 DEF DInv, ShownIsKnown
  <2>3. CASE Recording(e) /\ e \notin DOMAIN ledger
    <3>1. PICK k \in Tasks : task[k].at = "recording" /\ task[k].event = e
      BY <2>3 DEF Recording
    <3>2. CASE k # m.by
      BY <1>3, <2>1, <2>2, <3>1, <3>2 DEF Recording
    <3>3. CASE k = m.by
      <4>1. m.op = "record" /\ m.event = e
        BY <3>1, <3>3, FirstMutation, DesktopConstants
      <4>2. QED
        BY <2>1, <2>2, <2>3, <4>1
    <3>4. QED
      BY <3>2, <3>3
  <2>4. QED
    BY <2>1, <2>2, <2>3
<1>8. QED
  BY <1>4, <1>5, <1>6, <1>7 DEF DInv

\* What a step of the queue counts as lost.
LEMMA LosingCounts ==
    ASSUME DInv, NEW events, Losing(events)
    PROVE  /\ unrecorded' \in [Events -> Nat]
           /\ \A e \in Events : /\ unrecorded'[e] >= unrecorded[e]
                                /\ e \in events => unrecorded'[e] = unrecorded[e] + 1
<1>1. unrecorded \in [Events -> Nat]
  BY DEF DInv, DesktopTypes
<1>2. \A e \in Events : unrecorded[e] + (IF e \in events THEN 1 ELSE 0) \in Nat
  BY <1>1
<1>3. QED
  BY <1>1, <1>2 DEF Losing

\* A mutation writes: what leaves the ledger is lost.
LEMMA WritingKeeps ==
    ASSUME DInv, turn.at = "writing", NEW next, next = Mutated(Head(stateTail), turn.seen),
           ledger' = next, turn' = [seen |-> next, at |-> "badge"],
           Losing(DOMAIN ledger \ DOMAIN next),
           UNCHANGED <<clock, missed, stateTail, task, shown>>
    PROVE  DInv'
<1> DEFINE m == Head(stateTail)
<1>1. /\ stateTail # <<>> /\ turn.seen \in Ledgers /\ DOMAIN turn.seen \subseteq DOMAIN ledger
      /\ ledger \in Ledgers /\ shown \in [Events -> Nat] /\ unrecorded \in [Events -> Nat]
      /\ IsFiniteSet(DOMAIN ledger) /\ Cardinality(DOMAIN ledger) <= MaxReferences
  BY DEF DInv, TurnIsFirst, DesktopTypes, LedgerIsShort
<1>2. IsFiniteSet(DOMAIN turn.seen) /\ Cardinality(DOMAIN turn.seen) <= MaxReferences
  <2>1. DOMAIN turn.seen \in SUBSET DOMAIN ledger
    BY <1>1
  <2>2. IsFiniteSet(DOMAIN turn.seen) /\ Cardinality(DOMAIN turn.seen) <= Cardinality(DOMAIN ledger)
    BY <1>1, <2>1, FS_Subset
  <2>3. Cardinality(DOMAIN turn.seen) \in Nat /\ Cardinality(DOMAIN ledger) \in Nat /\ MaxReferences \in Nat
    BY <1>1, <2>2, FS_CardinalityType, DesktopConstants
  <2>4. QED
    BY <1>1, <2>2, <2>3
<1>3. m \in Mutations /\ (m.op = "record" => m.event \in Events /\ Recording(m.event))
  BY <1>1, FirstMutation DEF Recording
<1>4. /\ next \in Ledgers
      /\ IsFiniteSet(DOMAIN next) /\ Cardinality(DOMAIN next) <= MaxReferences
      /\ m.op = "record" => m.event \in DOMAIN next
      /\ \A e \in DOMAIN next : e \in DOMAIN ledger \/ (m.op = "record" /\ e = m.event)
  BY <1>1, <1>2, <1>3, MutatedKeeps
<1>5. turn' \in Turns /\ turn'.at = "badge" /\ turn'.seen = next
  BY <1>4 DEF Turns
<1>6. DesktopTypes' /\ LedgerIsShort' /\ TurnIsFirst' /\ RecordsWait' /\ OneAlertEach'
  BY <1>1, <1>4, <1>5, LosingCounts
     DEF DInv, DesktopTypes, LedgerIsShort, TurnIsFirst, RecordsWait, OneAlertEach
<1>7. ShowingIsNew'
  <2>1. \A k \in Tasks : task[k].at = "showing" /\ m.op = "record" => task[k].event # m.event
    BY <1>3 DEF Recording, DInv, OneAlertEach
  <2>2. QED
    BY <1>4, <2>1 DEF DInv, ShowingIsNew, Lapsed
<1>8. ShownIsKnown'
  <2> SUFFICES ASSUME NEW e \in Events, ~Lapsed(e)'
               PROVE  /\ shown'[e] <= unrecorded'[e] + 1
                      /\ e \in DOMAIN ledger' \/ Recording(e)' \/ shown'[e] <= unrecorded'[e]
    BY DEF ShownIsKnown
  <2>1. /\ shown'[e] = shown[e] /\ shown[e] \in Nat /\ unrecorded[e] \in Nat /\ unrecorded'[e] \in Nat
        /\ unrecorded'[e] >= unrecorded[e] /\ ~Lapsed(e) /\ (Recording(e) => Recording(e)')
        /\ e \in DOMAIN ledger \ DOMAIN next => unrecorded'[e] = unrecorded[e] + 1
    BY <1>1, LosingCounts DEF Lapsed, Recording
  <2>2. shown[e] <= unrecorded[e] + 1 /\ (e \in DOMAIN ledger \/ Recording(e) \/ shown[e] <= unrecorded[e])
    BY <2>1 DEF DInv, ShownIsKnown
  <2>3. QED
    BY <2>1, <2>2
<1>9. QED
  BY <1>6, <1>7, <1>8 DEF DInv

LEMMA TurnMovesKeep ==
    ASSUME DInv, TurnMoves
    PROVE  DInv'
<1>1. /\ ledger \in Ledgers /\ turn \in Turns /\ missed \in BOOLEAN
      /\ unrecorded \in [Events -> Nat]
      /\ turn.at # "idle" => stateTail # <<>>
  BY DEF DInv, DesktopTypes, TurnIsFirst
<1>2. CASE ReadTurn
  <2>1. /\ UNCHANGED <<clock, missed, ledger, stateTail, task, shown, unrecorded>>
        /\ turn' = [seen |-> Parsed(ledger), at |-> "writing"] /\ stateTail # <<>>
    BY <1>2 DEF ReadTurn, ledgerFrame
  <2>2. Parsed(ledger) \in Ledgers /\ DOMAIN Parsed(ledger) \subseteq DOMAIN ledger
    BY <1>1, ParsedKeeps
  <2>3. turn' \in Turns /\ turn'.at = "writing" /\ turn'.seen = Parsed(ledger)
    BY <2>1, <2>2 DEF Turns
  <2>4. QED
    BY <2>1, <2>2, <2>3 DEF DInv, DesktopTypes, LedgerIsShort, TurnIsFirst, RecordsWait,
       OneAlertEach, ShowingIsNew, ShownIsKnown, Lapsed, Recording
<1>3. CASE WriteTurn
  <2> DEFINE m == Head(stateTail)  next == Mutated(m, turn.seen)
  <2>1. turn.at = "writing" /\ stateTail # <<>> /\ UNCHANGED <<clock, missed, shown>>
    BY <1>1, <1>3 DEF WriteTurn, ledgerFrame
  <2>2. CASE NeedsWrite(m, turn.seen)
    <3>1. /\ ledger' = next /\ turn' = [seen |-> next, at |-> "badge"]
          /\ Losing(DOMAIN ledger \ DOMAIN next) /\ UNCHANGED <<stateTail, task>>
      BY <1>3, <2>2 DEF WriteTurn
    <3>2. QED
      BY <2>1, <3>1, WritingKeeps
  <2>3. CASE ~NeedsWrite(m, turn.seen)
    <3>1. EndTurn /\ UNCHANGED <<ledger, unrecorded>>
      BY <1>3, <2>3 DEF WriteTurn
    <3>2. m.op = "record" => m.event \in DOMAIN ledger
      BY <2>1, <2>3 DEF NeedsWrite, DInv, TurnIsFirst
    <3>3. QED
      BY <1>1, <2>1, <3>1, <3>2, EndingKeeps
  <2>4. QED
    BY <2>2, <2>3
<1>4. CASE UpdateBadge \/ BadgeFails
  <2>1. /\ turn.at = "badge" /\ EndTurn /\ missed' \in BOOLEAN
        /\ UNCHANGED <<clock, ledger, shown, unrecorded>>
    BY <1>4 DEF UpdateBadge, BadgeFails, ledgerFrame
  <2>2. Head(stateTail).op = "record" => Head(stateTail).event \in DOMAIN ledger
    BY <2>1 DEF DInv, RecordsWait
  <2>3. QED
    BY <1>1, <2>1, <2>2, EndingKeeps
<1>5. CASE TurnFails
  <2> DEFINE m == Head(stateTail)
             events == IF m.op = "record" THEN {m.event} ELSE {}
  <2>1. /\ stateTail # <<>> /\ EndTurn /\ missed' \in BOOLEAN
        /\ UNCHANGED <<clock, ledger, shown>> /\ Losing(events)
    BY <1>1, <1>5 DEF TurnFails, ledgerFrame
  <2>2. m.op = "record" => m.event \in Events /\ m.event \in events
    BY <2>1, FirstMutation
  <2>3. /\ unrecorded' \in [Events -> Nat]
        /\ \A e \in Events : /\ unrecorded'[e] >= unrecorded[e]
                             /\ e \in events => unrecorded'[e] = unrecorded[e] + 1
    BY <2>1, LosingCounts
  <2>4. m.op = "record" => unrecorded'[m.event] >= unrecorded[m.event] + 1
    BY <1>1, <2>2, <2>3
  <2>5. QED
    BY <2>1, <2>3, <2>4, EndingKeeps
<1>6. QED
  BY <1>2, <1>3, <1>4, <1>5 DEF TurnMoves

\* A death: what waited to be recorded, and is not in the ledger, is lost.
LEMMA DeathKeeps ==
    ASSUME DInv, DesktopDie
    PROVE  DInv'
<1> DEFINE lost == {task[k].event : k \in {x \in Tasks : task[x].at = "recording"}} \ DOMAIN ledger
           m == [op |-> "reconcile", event |-> 0, by |-> 0]
<1>1. /\ UNCHANGED <<clock, ledger, shown, missed>> /\ Losing(lost)
      /\ task' = [k \in Tasks |-> IdleTask] /\ stateTail' = <<m>> /\ turn' = IdleTurn
  BY DEF DesktopDie, Reconciling
<1>2. /\ task' \in [Tasks -> Alerts] /\ \A k \in Tasks : task'[k].at = "idle"
      /\ IdleTurn \in Turns /\ IdleTurn.at = "idle"
  BY <1>1, IdleIsAlert DEF IdleTurn, Turns
<1>3. m \in Mutations /\ m.op = "reconcile" /\ m.by = 0
  BY DEF Mutations
<1>4. /\ stateTail' \in Seq(Mutations) /\ Len(stateTail') = 1 /\ stateTail'[1] = m
      /\ \A i \in 1 .. Len(stateTail') : i = 1
  BY <1>1, <1>3
<1>5. /\ unrecorded' \in [Events -> Nat]
      /\ \A e \in Events : /\ unrecorded'[e] >= unrecorded[e]
                           /\ e \in lost => unrecorded'[e] = unrecorded[e] + 1
  BY <1>1, LosingCounts
<1>6. DesktopTypes' /\ LedgerIsShort' /\ TurnIsFirst' /\ OneAlertEach' /\ ShowingIsNew'
  BY <1>1, <1>2, <1>4, <1>5
     DEF DInv, DesktopTypes, LedgerIsShort, TurnIsFirst, OneAlertEach, ShowingIsNew
<1>7. RecordsWait'
  BY <1>1, <1>2, <1>3, <1>4 DEF RecordsWait
<1>8. ShownIsKnown'
  <2> SUFFICES ASSUME NEW e \in Events, ~Lapsed(e)'
               PROVE  /\ shown'[e] <= unrecorded'[e] + 1
                      /\ e \in DOMAIN ledger' \/ Recording(e)' \/ shown'[e] <= unrecorded'[e]
    BY DEF ShownIsKnown
  <2>1. /\ shown'[e] = shown[e] /\ shown[e] \in Nat /\ unrecorded[e] \in Nat /\ unrecorded'[e] \in Nat
        /\ unrecorded'[e] >= unrecorded[e] /\ ~Lapsed(e)
    BY <1>1, <1>5 DEF Lapsed, DInv, DesktopTypes
  <2>2. shown[e] <= unrecorded[e] + 1 /\ (e \in DOMAIN ledger \/ Recording(e) \/ shown[e] <= unrecorded[e])
    BY <2>1 DEF DInv, ShownIsKnown
  <2>3. Recording(e) /\ e \notin DOMAIN ledger => e \in lost
    BY DEF Recording
  <2>4. QED
    BY <1>1, <1>5, <2>1, <2>2, <2>3
<1>9. QED
  BY <1>6, <1>7, <1>8 DEF DInv

LEMMA TimeKeeps ==
    ASSUME DInv, Tick
    PROVE  DInv'
<1>1. /\ UNCHANGED <<ledger, task, stateTail, turn, shown, unrecorded, missed>>
      /\ clock' = clock + 1 /\ clock \in Nat
  BY DEF Tick, DInv, DesktopTypes
<1>2. \A e \in Events : Lapsed(e) => Lapsed(e)'
  BY <1>1, DesktopConstants DEF Lapsed
<1>3. ShowingIsNew'
  BY <1>1, <1>2 DEF DInv, ShowingIsNew, DesktopTypes
<1>4. ShownIsKnown'
  BY <1>1, <1>2 DEF DInv, ShownIsKnown, Recording
<1>5. QED
  BY <1>1, <1>3, <1>4 DEF DInv, DesktopTypes, LedgerIsShort, TurnIsFirst, RecordsWait, OneAlertEach

LEMMA OthersKeep ==
    ASSUME DInv, UNCHANGED <<clock, ledger, task, stateTail, turn, shown, unrecorded, missed>>
    PROVE  DInv'
BY DEF DInv, DesktopTypes, LedgerIsShort, TurnIsFirst, RecordsWait, OneAlertEach, ShowingIsNew,
   ShownIsKnown, Lapsed, Recording

LEMMA StepKeepsDesktop ==
    ASSUME DInv, [Next]_vars
    PROVE  DInv'
<1>1. CASE UNCHANGED desktopVars
  BY <1>1, OthersKeep DEF desktopVars
<1>2. CASE TestMoves
  BY <1>2, OthersKeep DEF TestMoves, BeginTest, TestPermitted, TestEnds, TestExpires, LatePermission,
     CooldownEnds, testFrame
<1>3. CASE \E k \in Tasks, e \in Events : Notify(k, e)
  BY <1>3, NotifyPasses, PassingKeeps
<1>4. CASE (\E e \in Events : AskLedger("read", e)) \/ AskLedger("unread", 0)
  BY <1>4, AskingKeeps
<1>5. QED
  BY <1>1, <1>2, <1>3, <1>4, AlertMovesKeep, TurnMovesKeep, DeathKeeps, TimeKeeps, DesktopKinds

LEMMA InitialDesktop == Init => DInv
<1> SUFFICES ASSUME DesktopInit PROVE DInv
  BY DEF Init
<1>1. ledger \in Ledgers /\ IsFiniteSet(DOMAIN ledger) /\ Cardinality(DOMAIN ledger) <= MaxReferences
  BY DEF DesktopInit, Ledgers
<1>2. /\ task \in [Tasks -> Alerts] /\ \A k \in Tasks : task[k].at = "idle"
      /\ turn \in Turns /\ turn.at = "idle"
  BY IdleIsAlert DEF DesktopInit, IdleTurn, Turns
<1>3. /\ stateTail \in Seq(Mutations)
      /\ \A i \in 1 .. Len(stateTail) : stateTail[i].op # "record" /\ stateTail[i].by = 0
  <2>1. [op |-> "reconcile", event |-> 0, by |-> 0] \in Mutations
    BY DEF Mutations
  <2>2. CASE stateTail = <<>>
    BY <2>2
  <2>3. CASE stateTail = Reconciling
    BY <2>1, <2>3 DEF Reconciling
  <2>4. QED
    BY <2>2, <2>3 DEF DesktopInit
<1>4. /\ shown \in [Events -> Nat] /\ unrecorded \in [Events -> Nat] /\ clock \in Nat /\ missed \in BOOLEAN
      /\ \A e \in Events : unrecorded[e] = 0 /\ shown[e] = IF e \in DOMAIN ledger THEN 1 ELSE 0
  BY DEF DesktopInit
<1>5. QED
  BY <1>1, <1>2, <1>3, <1>4 DEF DInv, DesktopTypes, LedgerIsShort, TurnIsFirst, RecordsWait,
     OneAlertEach, ShowingIsNew, ShownIsKnown

THEOREM DInvAlways == Spec => []DInv
<1>1. DInv /\ [Next]_vars => DInv'
  BY StepKeepsDesktop
<1>2. QED
  BY <1>1, InitialDesktop, PTL DEF Spec

\* While the reference of an alert could be valid the system is given the alert
\* again only when the first time, or its record, was lost.
THEOREM DuplicatesAreLosses == Spec => []NoAvoidableDuplicate
<1>1. DInv => NoAvoidableDuplicate
  <2>1. DInv => \A e \in Events : shown[e] \in Nat /\ unrecorded[e] \in Nat
    BY DEF DInv, DesktopTypes
  <2>2. QED
    BY <2>1 DEF DInv, ShownIsKnown, NoAvoidableDuplicate
<1>2. QED
  BY <1>1, DInvAlways, PTL

-------------------------------------------------------------------------------
(* The badge.                                                              *)

LEMMA TurnKeepsBadge ==
    ASSUME DInv, BadgeFollows, TurnMoves
    PROVE  BadgeFollows'
<1>1. turn.at # "idle" => stateTail # <<>>
  BY DEF DInv, TurnIsFirst
<1>2. CASE ReadTurn
  BY <1>2 DEF ReadTurn, BadgeFollows, Unread
<1>3. CASE WriteTurn
  <2>1. CASE NeedsWrite(Head(stateTail), turn.seen)
    <3>1. turn'.at = "badge"
      BY <1>3, <2>1 DEF WriteTurn
    <3>2. QED
      BY <3>1 DEF BadgeFollows
  <2>2. CASE ~NeedsWrite(Head(stateTail), turn.seen)
    <3>1. UNCHANGED <<ledger, badge, missed>> /\ Head(stateTail).op # "reconcile" /\ turn.at # "badge"
      BY <1>3, <2>2 DEF WriteTurn, NeedsWrite
    <3>2. QED
      BY <3>1 DEF BadgeFollows, Unread
  <2>3. QED
    BY <2>1, <2>2
<1>4. CASE UpdateBadge
  <2>1. badge' = Unread(ledger) /\ ledger' = ledger
    BY <1>4 DEF UpdateBadge, DInv, TurnIsFirst
  <2>2. QED
    BY <2>1 DEF BadgeFollows, Unread
<1>5. CASE BadgeFails
  BY <1>5 DEF BadgeFails, BadgeFollows
<1>6. CASE TurnFails
  BY <1>6 DEF TurnFails, BadgeFollows, Unread
<1>7. QED
  BY <1>2, <1>3, <1>4, <1>5, <1>6 DEF TurnMoves

LEMMA JoiningKeepsBadge ==
    ASSUME DInv, BadgeFollows, UNCHANGED <<missed, badge, ledger, turn>>,
           NEW m \in Mutations, m.op # "reconcile", stateTail' = Append(stateTail, m)
    PROVE  BadgeFollows'
<1>1. stateTail # <<>> => Head(stateTail') = Head(stateTail)
  BY DEF DInv, DesktopTypes
<1>2. CASE stateTail # <<>> /\ Head(stateTail).op = "reconcile"
  <2>1. stateTail' # <<>>
    BY DEF DInv, DesktopTypes
  <2>2. QED
    BY <1>1, <1>2, <2>1 DEF BadgeFollows
<1>3. CASE stateTail = <<>> \/ Head(stateTail).op # "reconcile"
  BY <1>3 DEF BadgeFollows, Unread
<1>4. QED
  BY <1>2, <1>3

LEMMA StepKeepsBadge ==
    ASSUME DInv, BadgeFollows, [Next]_vars
    PROVE  BadgeFollows'
<1>1. CASE UNCHANGED <<missed, badge, ledger, turn, stateTail>>
  BY <1>1 DEF BadgeFollows, Unread
<1>2. ASSUME NEW k \in Tasks, AlertMoves(k) PROVE BadgeFollows'
  <2>1. UNCHANGED <<missed, badge, ledger, turn>>
    BY <1>2 DEF AlertMoves, Check, ReadLedger, LedgerUnreadable, Shown, ShownUnheard, NotShown,
       Abort, alertFrame
  <2>2. UNCHANGED stateTail \/
        (task[k].at = "showing" /\
         stateTail' = Append(stateTail, [op |-> "record", event |-> task[k].event, by |-> k]))
    BY <1>2 DEF AlertMoves, Check, ReadLedger, LedgerUnreadable, Shown, ShownUnheard, NotShown, Abort
  <2>3. task[k].at = "showing" => [op |-> "record", event |-> task[k].event, by |-> k] \in Mutations
    BY DEF DInv, DesktopTypes, Mutations
  <2>4. QED
    BY <1>1, <2>1, <2>2, <2>3, JoiningKeepsBadge
<1>3. ASSUME NEW op \in {"read", "unread"}, NEW e \in Events \cup {0}, AskLedger(op, e)
      PROVE  BadgeFollows'
  <2>1. [op |-> op, event |-> e, by |-> 0] \in Mutations
    BY DEF Mutations
  <2>2. QED
    BY <1>3, <2>1, JoiningKeepsBadge DEF AskLedger, alertFrame
<1>4. ASSUME NEW k \in Tasks, NEW e \in Events, Notify(k, e) PROVE BadgeFollows'
  BY <1>1, <1>4 DEF Notify, alertFrame
<1>5. CASE TestMoves
  BY <1>1, <1>5 DEF TestMoves, BeginTest, TestPermitted, TestEnds, TestExpires, LatePermission,
     CooldownEnds, testFrame
<1>6. CASE DesktopDie
  <2>1. stateTail' # <<>> /\ Head(stateTail').op = "reconcile"
    BY <1>6 DEF DesktopDie, Reconciling
  <2>2. QED
    BY <2>1 DEF BadgeFollows
<1>7. CASE Tick \/ UNCHANGED desktopVars
  BY <1>1, <1>7 DEF Tick, desktopVars
<1>8. QED
  BY <1>2, <1>3, <1>4, <1>5, <1>6, <1>7, TurnKeepsBadge, DesktopKinds

\* When no mutation is under way the toolbar shows the number of unread alerts,
\* unless an update of it failed.
THEOREM BadgeAlwaysCounts == Spec => []BadgeCountsUnread
<1>1. Init => BadgeFollows
  BY DEF Init, DesktopInit, BadgeFollows, Unread
<1>2. DInv /\ BadgeFollows => BadgeCountsUnread
  BY DEF DInv, TurnIsFirst, BadgeFollows, BadgeCountsUnread
<1>3. QED
  BY <1>1, <1>2, StepKeepsBadge, DInvAlways, PTL DEF Spec
===============================================================================
