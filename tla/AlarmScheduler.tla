---------------------------- MODULE AlarmScheduler ----------------------------
(***************************************************************************)
(* BrowserMonitorScheduler (apps/extension/src/runtime/scheduler.ts).  The *)
(* engine asks for alarms synchronously; the browser clears alarms in its  *)
(* own time.  Every call chains one run of reconcileAlarms behind the runs *)
(* before it: the run clears both alarms, waits for both clears, starts    *)
(* over if a call came in meanwhile, and otherwise creates the alarms.     *)
(* An alarm is known here by the delay it was created with.                *)
(***************************************************************************)
EXTENDS Naturals

CONSTANTS
    None,             \* the code's null
    AskedDelays,      \* delays the engine asks for
    MinPeriod,        \* MIN_LOCAL_POLL_INTERVAL_SEC (120 s)
    MinWake,          \* minimumWakeDelayMs (30 s or 60 s)
    MaxAsks,          \* bound on what the engine asks for
    MaxFailedClears,  \* bound on alarms.clear calls that reject
    MaxDeaths         \* bound on worker deaths

ASSUME AlarmConstants ==
    /\ AskedDelays \subseteq Nat /\ MinPeriod \in Nat /\ MinWake \in Nat
    /\ None \notin Nat

VARIABLES
    sched,   \* the scheduler's fields, and how many runs are chained
    run,     \* the running reconciliation
    alarms,  \* the browser's alarms
    spent    \* ghost: asks, failed clears and deaths so far

vars == <<sched, run, alarms, spent>>

Alarms == {"periodic", "wake"}

\* periodicIntervalSec, oneShotDelayMs, revision, and the chain of runs.
Fields == [periodic : AskedDelays \cup {None},
           oneShot  : AskedDelays \cup {None},
           revision : Nat,
           queued   : Nat]

\* A run that waits for the clears in `clearing`.
Run == [active : BOOLEAN, observed : Nat, clearing : SUBSET Alarms]

NewScheduler == [periodic |-> None, oneShot |-> None, revision |-> 0, queued |-> 0]

NoRun == [active |-> FALSE, observed |-> 0, clearing |-> {}]

Greatest(a, b) == IF a <= b THEN b ELSE a

\* Mutant: the engine's delays are taken as they are.
BareWanted(s) == [periodic |-> s.periodic, wake |-> s.oneShot]

\* The alarms that reconcileAlarms creates for what is asked.
Wanted(s) ==
    [periodic |-> IF s.periodic = None THEN None
                  ELSE Greatest(s.periodic, Greatest(MinPeriod, MinWake)),
     wake     |-> IF s.oneShot = None THEN None ELSE Greatest(s.oneShot, MinWake)]

\* A delay that no alarm falls short of.
AlarmDelays == {d \in Nat : d >= MinWake}

TypeOK ==
    /\ sched \in Fields
    /\ run \in Run
    /\ alarms \in [Alarms -> AlarmDelays \cup {None}]
    /\ spent \in [asks : Nat, failedClears : Nat, deaths : Nat]

\* A worker starts with the alarms that an earlier one has left.
Init ==
    /\ sched = NewScheduler
    /\ run = NoRun
    /\ \E p, o \in AskedDelays \cup {None} :
        alarms = Wanted([NewScheduler EXCEPT !.periodic = p, !.oneShot = o])
    /\ spent = [asks |-> 0, failedClears |-> 0, deaths |-> 0]

-------------------------------------------------------------------------------
(* Calls of the engine.  A caller makes several in one go; the first run   *)
(* they chain begins after the last of them.                               *)

ScheduleReconciliation(s) == [s EXCEPT !.revision = @ + 1, !.queued = @ + 1]

SchedulePeriodic(s, interval) ==
    ScheduleReconciliation([s EXCEPT !.periodic = interval])

ScheduleOneShot(s, delay) ==
    ScheduleReconciliation([s EXCEPT !.oneShot = delay])

CancelAll(s) ==
    ScheduleReconciliation([s EXCEPT !.periodic = None, !.oneShot = None])

Ask(s) ==
    /\ spent.asks < MaxAsks
    /\ spent' = [spent EXCEPT !.asks = @ + 1]
    /\ sched' = s
    /\ UNCHANGED <<run, alarms>>

\* The engine's refreshSchedule without an enabled watch, and its reset.
AskForNothing == Ask(CancelAll(sched))

\* refreshSchedule with an enabled watch and no deadline.
AskForPeriodic ==
    \E interval \in AskedDelays : Ask(SchedulePeriodic(CancelAll(sched), interval))

\* refreshSchedule with a deadline, and start with an enabled watch.
AskForBoth ==
    \E interval, delay \in AskedDelays :
        Ask(ScheduleOneShot(SchedulePeriodic(CancelAll(sched), interval), delay))

\* A cycle in backoff, and start without an enabled watch.
AskForOneShot ==
    \E s \in {sched, CancelAll(sched)}, delay \in AskedDelays :
        Ask(ScheduleOneShot(s, delay))

-------------------------------------------------------------------------------
(* reconcileAlarms *)

Clearing == [active |-> TRUE, observed |-> sched.revision, clearing |-> Alarms]

BeginRun ==
    /\ sched.queued > 0
    /\ ~run.active
    /\ sched' = [sched EXCEPT !.queued = @ - 1]
    /\ run' = Clearing
    /\ UNCHANGED <<alarms, spent>>

\* Mutant: a clear that rejects ends the run (Promise.all).
BrittleClearSettles ==
    \E name \in run.clearing :
        \/ /\ run' = [run EXCEPT !.clearing = @ \ {name}]
           /\ alarms' = [alarms EXCEPT ![name] = None]
           /\ UNCHANGED <<sched, spent>>
        \/ /\ spent.failedClears < MaxFailedClears
           /\ spent' = [spent EXCEPT !.failedClears = @ + 1]
           /\ run' = NoRun
           /\ UNCHANGED <<sched, alarms>>

\* alarms.clear settles; if it rejects, the alarm is still there.
ClearSettles ==
    \E name \in run.clearing :
        /\ run' = [run EXCEPT !.clearing = @ \ {name}]
        /\ \/ alarms' = [alarms EXCEPT ![name] = None] /\ UNCHANGED spent
           \/ /\ spent.failedClears < MaxFailedClears
              /\ spent' = [spent EXCEPT !.failedClears = @ + 1]
              /\ UNCHANGED alarms
        /\ UNCHANGED sched

\* Mutant: the revision is read once, before the loop.
EndlessStartOver ==
    /\ run.active /\ run.clearing = {}
    /\ run.observed # sched.revision
    /\ run' = [run EXCEPT !.clearing = Alarms]
    /\ UNCHANGED <<sched, alarms, spent>>

\* A call came in during the clears.
StartOver ==
    /\ run.active /\ run.clearing = {}
    /\ run.observed # sched.revision
    /\ run' = Clearing
    /\ UNCHANGED <<sched, alarms, spent>>

\* Mutant: the run does not wait for the second clear.
HastyCreateAlarms ==
    /\ run.active /\ run.clearing # Alarms
    /\ run.observed = sched.revision
    /\ alarms' = [name \in Alarms |-> IF Wanted(sched)[name] = None THEN alarms[name]
                                      ELSE Wanted(sched)[name]]
    /\ run' = [run EXCEPT !.active = FALSE]
    /\ UNCHANGED <<sched, spent>>

CreateAlarms ==
    /\ run.active /\ run.clearing = {}
    /\ run.observed = sched.revision
    /\ alarms' = [name \in Alarms |-> IF Wanted(sched)[name] = None THEN alarms[name]
                                      ELSE Wanted(sched)[name]]
    /\ run' = NoRun
    /\ UNCHANGED <<sched, spent>>

-------------------------------------------------------------------------------
(* The browser *)

WakeRings ==
    /\ alarms["wake"] # None
    /\ alarms' = [alarms EXCEPT !["wake"] = None]
    /\ UNCHANGED <<sched, run, spent>>

\* The worker dies; a clear it has asked for may still be carried out.
Die ==
    /\ spent.deaths < MaxDeaths
    /\ spent' = [spent EXCEPT !.deaths = @ + 1]
    /\ \E names \in SUBSET run.clearing :
        alarms' = [name \in Alarms |-> IF name \in names THEN None ELSE alarms[name]]
    /\ sched' = NewScheduler
    /\ run' = NoRun

Reconcile == BeginRun \/ ClearSettles \/ StartOver \/ CreateAlarms

Next ==
    \/ AskForNothing
    \/ AskForPeriodic
    \/ AskForBoth
    \/ AskForOneShot
    \/ Reconcile
    \/ WakeRings
    \/ Die

Spec == Init /\ [][Next]_vars

\* The event loop runs what is chained and the browser settles every clear.
FairSpec == Spec /\ WF_vars(Reconcile)

-------------------------------------------------------------------------------
(* Properties *)

Settled == sched.queued = 0 /\ ~run.active

\* At rest the periodic alarm that the engine last asked for is set, and the wake
\* alarm is that or has rung: no clear, late or failed, has removed it and no
\* earlier wish has outlived it.
SettledAlarmsAreWanted ==
    Settled =>
        /\ sched.periodic # None => alarms["periodic"] = Wanted(sched).periodic
        /\ sched.oneShot # None => alarms["wake"] \in {None, Wanted(sched).wake}

Promise == INSTANCE AlarmPromise
    WITH Delays <- AlarmDelays, wanted <- Wanted(sched), settled <- Settled

\* The scheduler keeps its promise: an alarm once granted stays until another wish,
\* its ring, and also when the worker dies.
KeepsPromise == Promise!Spec

\* Whatever calls come in during the clears, the alarms settle at last.
AlarmsSettle == ~Settled ~> Settled
===============================================================================
