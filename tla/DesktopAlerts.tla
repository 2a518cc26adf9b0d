---------------------------- MODULE DesktopAlerts ----------------------------
(***************************************************************************)
(* DesktopAlertService (apps/extension/src/notifications/desktop.ts) and   *)
(* the Safari bridge it shows alerts through on that target                *)
(* (notifications/safari-native.ts).  Alerts of different events run       *)
(* concurrently; each reads the ledger of shown alerts, has the browser    *)
(* show it, and then joins the queue of ledger mutations.  Events are      *)
(* numbered in the order in which they were observed.  The clock moves to  *)
(* the instants that matter: 2e - 1 is the last instant at which event e   *)
(* counts as fresh, which is also the instant at which its reference       *)
(* expires.                                                                *)
(***************************************************************************)
EXTENDS Naturals, Sequences, FiniteSets

CONSTANTS
    Events,         \* the events, by time of observation
    Tasks,          \* the alerts that may be under way at the same time
    MaxReferences   \* MAX_REFERENCES of the ledger

ASSUME DesktopConstants ==
    /\ Events \subseteq Nat \ {0}
    /\ Tasks \subseteq Nat \ {0}
    /\ MaxReferences \in Nat \ {0}

VARIABLES
    native,     \* alerts go through Safari's containing application
    clock,      \* the current instant
    ledger,     \* the stored references: event |-> whether it was marked as read
    badge,      \* the number on the toolbar
    task,       \* the alerts under way (inFlight)
    stateTail,  \* the ledger mutations that wait, the running one first
    turn,       \* the running mutation: what it read, and how far it is
    test,       \* the test notification under way: idle, permission or calling
    lateTests,  \* tests that timed out while the permission was being asked
    cooling,    \* now < diagnosticCooldownUntil
    shown,      \* ghost: how often the system was given the alert of an event
    unrecorded, \* ghost: how often that, or its record, was lost
    missed,     \* ghost: an update of the badge failed, or the one at the start
    tests       \* ghost: test notifications since the cooldown last ended

desktopVars == <<native, clock, ledger, badge, task, stateTail, turn,
                 test, lateTests, cooling, shown, unrecorded, missed, tests>>

\* What an alert leaves alone, and what a ledger mutation leaves alone.
alertFrame == <<native, clock, ledger, badge, turn, test, lateTests, cooling, missed, tests>>
ledgerFrame == <<native, clock, test, lateTests, cooling, shown, tests>>
testFrame == <<native, clock, ledger, badge, task, stateTail, turn, shown, unrecorded, missed>>

IdleTask == [event |-> 0, at |-> "idle", aborted |-> FALSE]

IdleTurn == [seen |-> <<>>, at |-> "idle"]

Fresh(e) == clock <= 2 * e - 1
Lapsed(e) == clock >= 2 * e - 1

-------------------------------------------------------------------------------
(* The ledger.                                                             *)

Only(refs, events) == [e \in DOMAIN refs \cap events |-> refs[e]]

\* The references that are kept: the newest.
Newest(events, n) == {e \in events : Cardinality({x \in events : x > e}) < n}

\* parseState: references that have lapsed are gone.
Parsed(refs) == Only(refs, {e \in Newest(DOMAIN refs, MaxReferences) : ~Lapsed(e)})

\* The new reference comes first, whatever its time; the oldest of the others go.
WithReference(refs, e) ==
    LET kept == Newest(DOMAIN refs, MaxReferences - 1)
    IN [x \in kept \cup {e} |-> IF x = e THEN FALSE ELSE refs[x]]

Unread(refs) == Cardinality({e \in DOMAIN refs : ~refs[e]})

Losing(events) == unrecorded' = [e \in Events |-> unrecorded[e] + (IF e \in events THEN 1 ELSE 0)]

-------------------------------------------------------------------------------
(* An alert.                                                               *)

\* Mutant: every request is worked on by itself.
NeverInFlight(e) == FALSE

\* The event has an alert under way: a second request waits for its outcome.
InFlight(e) == \E k \in Tasks : task[k].at # "idle" /\ task[k].event = e

AtStage(k, stage) == task' = [task EXCEPT ![k].at = stage]

Over(k) == task' = [task EXCEPT ![k] = IdleTask]

\* notifyAvailable.
Notify(k, e) ==
    /\ task[k].at = "idle" /\ ~InFlight(e)
    /\ task' = [task EXCEPT ![k] = [IdleTask EXCEPT !.event = e, !.at = "checking"]]
    /\ UNCHANGED <<alertFrame, stateTail, shown, unrecorded>>

\* The engine withdraws the delivery.
Abort(k) ==
    /\ task[k].at \in {"checking", "reading", "showing"} /\ ~task[k].aborted
    /\ task' = [task EXCEPT ![k].aborted = TRUE]
    /\ UNCHANGED <<alertFrame, stateTail, shown, unrecorded>>

\* Permission, freshness and canDeliver; each of them may end the alert.
Check(k) ==
    /\ task[k].at = "checking"
    /\ \/ Over(k)
       \/ ~task[k].aborted /\ Fresh(task[k].event) /\ AtStage(k, "reading")
    /\ UNCHANGED <<alertFrame, stateTail, shown, unrecorded>>

\* hasEventFingerprint.
ReadLedger(k) ==
    /\ task[k].at = "reading"
    /\ IF task[k].aborted \/ task[k].event \in DOMAIN Parsed(ledger)
       THEN Over(k)
       ELSE AtStage(k, "showing")
    /\ UNCHANGED <<alertFrame, stateTail, shown, unrecorded>>

\* The alert is shown and the answer arrives: the reference joins the queue, even
\* when the delivery was withdrawn meanwhile, except that the native port then
\* answers "aborted".
Shown(k) ==
    /\ task[k].at = "showing"
    /\ shown' = [shown EXCEPT ![task[k].event] = @ + 1]
    /\ IF native /\ task[k].aborted
       THEN Over(k) /\ Losing({task[k].event}) /\ UNCHANGED stateTail
       ELSE /\ AtStage(k, "recording")
            /\ stateTail' = Append(stateTail, [op |-> "record", event |-> task[k].event, by |-> k])
            /\ UNCHANGED unrecorded
    /\ UNCHANGED alertFrame

\* The application shows the alert, but its answer does not arrive in five seconds.
ShownUnheard(k) ==
    /\ task[k].at = "showing" /\ native
    /\ shown' = [shown EXCEPT ![task[k].event] = @ + 1]
    /\ Over(k) /\ Losing({task[k].event})
    /\ UNCHANGED <<alertFrame, stateTail>>

\* The browser or the application refuses, or a native call is not made at all.
NotShown(k) ==
    /\ task[k].at = "showing"
    /\ Over(k)
    /\ UNCHANGED <<alertFrame, stateTail, shown, unrecorded>>

\* The ledger cannot be read.
LedgerUnreadable(k) ==
    /\ task[k].at = "reading"
    /\ Over(k)
    /\ UNCHANGED <<alertFrame, stateTail, shown, unrecorded>>

-------------------------------------------------------------------------------
(* The ledger mutations.                                                   *)

\* markRead (an event is named by its notification) and reconcile (event 0).
AskLedger(op, e) ==
    /\ stateTail' = Append(stateTail, [op |-> op, event |-> e, by |-> 0])
    /\ UNCHANGED <<alertFrame, task, shown, unrecorded>>

\* Mutant: a new worker leaves the ledger and the badge as they are.
NotReconciling == <<>>

\* The first thing a new worker does.
Reconciling == <<[op |-> "reconcile", event |-> 0, by |-> 0]>>

ReadTurn ==
    /\ turn.at = "idle" /\ stateTail # <<>>
    /\ turn' = [seen |-> Parsed(ledger), at |-> "writing"]
    /\ UNCHANGED <<ledgerFrame, ledger, badge, task, stateTail, unrecorded, missed>>

\* What the mutation m makes of the references it read.
Mutated(m, refs) ==
    CASE m.op = "record" /\ m.event \notin DOMAIN refs -> WithReference(refs, m.event)
      [] m.op = "read"   /\ m.event \in DOMAIN refs    -> [refs EXCEPT ![m.event] = TRUE]
      [] OTHER                                         -> refs

\* Nothing is written for a reference that is there already, or is not there.
NeedsWrite(m, refs) ==
    CASE m.op = "record" -> m.event \notin DOMAIN refs
      [] m.op = "read"   -> m.event \in DOMAIN refs
      [] OTHER           -> TRUE

EndTurn ==
    /\ turn' = IdleTurn
    /\ stateTail' = Tail(stateTail)
    /\ task' = [k \in Tasks |-> IF k = Head(stateTail).by THEN IdleTask ELSE task[k]]

WriteTurn ==
    /\ turn.at = "writing"
    /\ LET m    == Head(stateTail)
           next == Mutated(m, turn.seen)
       IN IF NeedsWrite(m, turn.seen)
          THEN /\ ledger' = next
               /\ turn' = [seen |-> next, at |-> "badge"]
               /\ Losing(DOMAIN ledger \ DOMAIN next)
               /\ UNCHANGED <<stateTail, task>>
          ELSE EndTurn /\ UNCHANGED <<ledger, unrecorded>>
    /\ UNCHANGED <<ledgerFrame, badge, missed>>

\* updateBadge, whose failure is ignored.
UpdateBadge ==
    /\ turn.at = "badge"
    /\ badge' = Unread(turn.seen) /\ missed' = FALSE
    /\ EndTurn
    /\ UNCHANGED <<ledgerFrame, ledger, unrecorded>>

BadgeFails ==
    /\ turn.at = "badge"
    /\ missed' = TRUE
    /\ EndTurn
    /\ UNCHANGED <<ledgerFrame, ledger, badge, unrecorded>>

\* The read or the write of a mutation rejects.  An alert that is not recorded was
\* shown all the same.
TurnFails ==
    /\ stateTail # <<>> /\ turn.at \in {"idle", "writing"}
    /\ EndTurn
    /\ Losing(IF Head(stateTail).op = "record" THEN {Head(stateTail).event} ELSE {})
    /\ missed' = (missed \/ Head(stateTail).op = "reconcile")
    /\ UNCHANGED <<ledgerFrame, ledger, badge>>

-------------------------------------------------------------------------------
(* The test notification.                                                  *)

\* sendUserInitiatedTest.  Only a browser is asked for the permission; before the
\* call that shows the notification the cooldown begins.
BeginTest ==
    /\ test = "idle" /\ ~cooling
    /\ IF native
       THEN test' = "calling" /\ cooling' = TRUE /\ tests' = tests + 1
       ELSE test' = "permission" /\ UNCHANGED <<cooling, tests>>
    /\ UNCHANGED <<testFrame, lateTests>>

TestPermitted ==
    /\ test = "permission"
    /\ test' = "calling" /\ cooling' = TRUE /\ tests' = tests + 1
    /\ UNCHANGED <<testFrame, lateTests>>

\* The permission is refused, or the notification was shown or not.
TestEnds ==
    /\ test # "idle"
    /\ test' = "idle"
    /\ UNCHANGED <<testFrame, lateTests, cooling, tests>>

\* The five seconds are over; the answer about the permission may still come.
TestExpires ==
    /\ test # "idle"
    /\ test' = "idle"
    /\ lateTests' = lateTests + (IF test = "permission" THEN 1 ELSE 0)
    /\ UNCHANGED <<testFrame, cooling, tests>>

\* Mutant: an expired test goes on when the permission is granted after all.
LatePermissionUnchecked ==
    /\ lateTests > 0
    /\ lateTests' = lateTests - 1
    /\ cooling' = TRUE /\ tests' = tests + 1
    /\ UNCHANGED <<testFrame, test>>

\* It comes: the test has expired and shows nothing.
LatePermission ==
    /\ lateTests > 0
    /\ lateTests' = lateTests - 1
    /\ UNCHANGED <<testFrame, test, cooling, tests>>

\* Thirty seconds after the call, long after the test has ended or expired.
CooldownEnds ==
    /\ cooling /\ test # "calling"
    /\ cooling' = FALSE /\ tests' = 0
    /\ UNCHANGED <<testFrame, test, lateTests>>

-------------------------------------------------------------------------------
DesktopInit ==
    /\ native \in BOOLEAN
    /\ clock = 0
    /\ ledger \in UNION {[refs -> BOOLEAN] :
                            refs \in {r \in SUBSET Events : /\ IsFiniteSet(r)
                                                           /\ Cardinality(r) <= MaxReferences}}
    /\ badge = Unread(ledger)
    /\ task = [k \in Tasks |-> IdleTask]
    /\ stateTail \in {<<>>, Reconciling}
    /\ turn = IdleTurn
    /\ test = "idle" /\ lateTests = 0 /\ cooling = FALSE
    /\ shown = [e \in Events |-> IF e \in DOMAIN ledger THEN 1 ELSE 0]
    /\ unrecorded = [e \in Events |-> 0]
    /\ missed = FALSE /\ tests = 0

DesktopStep ==
    \/ \E k \in Tasks : Check(k) \/ ReadLedger(k) \/ Shown(k)
    \/ ReadTurn \/ WriteTurn \/ UpdateBadge
    \/ TestPermitted \/ TestEnds

Tick == /\ clock' = clock + 1
        /\ UNCHANGED <<native, ledger, badge, task, stateTail, turn, test, lateTests,
                       cooling, shown, unrecorded, missed, tests>>

\* The worker dies; the next one reconciles the ledger before anything else.
DesktopDie ==
    /\ Losing({task[k].event : k \in {x \in Tasks : task[x].at = "recording"}} \ DOMAIN ledger)
    /\ task' = [k \in Tasks |-> IdleTask]
    /\ stateTail' = Reconciling
    /\ turn' = IdleTurn
    /\ test' = "idle" /\ lateTests' = 0 /\ cooling' = FALSE /\ tests' = 0
    /\ UNCHANGED <<native, clock, ledger, badge, shown, missed>>
===============================================================================
