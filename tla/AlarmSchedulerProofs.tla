------------------------- MODULE AlarmSchedulerProofs -------------------------
(***************************************************************************)
(* The alarm scheduler keeps its promise for every delay the engine may    *)
(* ask for and any number of calls, rejected clears and worker deaths.     *)
(* TypeOK and SettledAlarmsAreWanted are inductive together with the fact  *)
(* that only an active run has clears outstanding.                         *)
(***************************************************************************)
EXTENDS AlarmScheduler, TLAPS

\* Only an active run waits for clears.
ClearsBelongToRun == ~run.active => run.clearing = {}

IInv == TypeOK /\ ClearsBelongToRun /\ SettledAlarmsAreWanted

\* What the scheduler creates are alarms of sufficient delay.
LEMMA WantedType ==
    ASSUME NEW s \in Fields
    PROVE  /\ Wanted(s) \in [Alarms -> AlarmDelays \cup {None}]
           /\ Wanted(s)["periodic"] = None <=> s.periodic = None
           /\ Wanted(s)["wake"] = None <=> s.oneShot = None
<1>1. /\ s.periodic \in Nat \cup {None} /\ s.oneShot \in Nat \cup {None}
      /\ MinPeriod \in Nat /\ MinWake \in Nat /\ None \notin Nat
  BY AlarmConstants DEF Fields
<1>2. \A a, b \in Nat : Greatest(a, b) \in Nat /\ Greatest(a, b) >= b
  BY DEF Greatest
<1>3. s.periodic # None =>
        /\ Wanted(s)["periodic"] = Greatest(s.periodic, Greatest(MinPeriod, MinWake))
        /\ Wanted(s)["periodic"] \in AlarmDelays
  BY <1>1 DEF Wanted, AlarmDelays, Greatest
<1>4. s.oneShot # None =>
        /\ Wanted(s)["wake"] = Greatest(s.oneShot, MinWake)
        /\ Wanted(s)["wake"] \in AlarmDelays
  BY <1>1, <1>2 DEF Wanted, AlarmDelays
<1>5. /\ s.periodic = None => Wanted(s)["periodic"] = None
      /\ s.oneShot = None => Wanted(s)["wake"] = None
      /\ Wanted(s) = [name \in Alarms |-> Wanted(s)[name]]
  BY DEF Wanted, Alarms
<1>6. \A d \in AlarmDelays : d # None
  BY <1>1 DEF AlarmDelays
<1>7. QED
  BY <1>3, <1>4, <1>5, <1>6 DEF Alarms

\* A changed wish is still a record of fields.
LEMMA FieldsExcept ==
    ASSUME NEW s \in Fields,
           NEW p \in AskedDelays \cup {None}, NEW o \in AskedDelays \cup {None}
    PROVE  /\ [s EXCEPT !.periodic = p] \in Fields
           /\ [s EXCEPT !.oneShot = o] \in Fields
           /\ [s EXCEPT !.periodic = p, !.oneShot = o] \in Fields
BY DEF Fields

LEMMA ReconciliationChainsRun ==
    ASSUME NEW s \in Fields
    PROVE  ScheduleReconciliation(s) \in Fields /\ ScheduleReconciliation(s).queued > 0
<1>1. s.revision + 1 \in Nat /\ s.queued + 1 \in Nat /\ s.queued + 1 > 0
  BY DEF Fields
<1>2. \A r, q \in Nat : /\ [s EXCEPT !.revision = r, !.queued = q] \in Fields
                          /\ [s EXCEPT !.revision = r, !.queued = q].queued = q
  BY DEF Fields
<1>3. QED
  BY <1>1, <1>2 DEF ScheduleReconciliation

\* Every call leaves fields in their types and chains at least one run.
LEMMA CallsChainRuns ==
    ASSUME NEW s \in Fields, NEW d \in AskedDelays
    PROVE  /\ SchedulePeriodic(s, d) \in Fields /\ SchedulePeriodic(s, d).queued > 0
           /\ ScheduleOneShot(s, d) \in Fields /\ ScheduleOneShot(s, d).queued > 0
<1>1. [s EXCEPT !.periodic = d] \in Fields /\ [s EXCEPT !.oneShot = d] \in Fields
  BY FieldsExcept
<1>2. QED
  BY <1>1, ReconciliationChainsRun DEF SchedulePeriodic, ScheduleOneShot

LEMMA CancelChainsRun ==
    ASSUME NEW s \in Fields
    PROVE  CancelAll(s) \in Fields /\ CancelAll(s).queued > 0
<1>1. [s EXCEPT !.periodic = None, !.oneShot = None] \in Fields
  BY FieldsExcept
<1>2. QED
  BY <1>1, ReconciliationChainsRun DEF CancelAll

-------------------------------------------------------------------------------
(* The steps, as seen from outside *)

\* A wish, of any of the four kinds, leaves work to do.
LEMMA AskUnsettles ==
    ASSUME TypeOK, AskForNothing \/ AskForPeriodic \/ AskForBoth \/ AskForOneShot
    PROVE  /\ sched' \in Fields /\ sched'.queued > 0
           /\ UNCHANGED <<run, alarms>>
           /\ spent' = [spent EXCEPT !.asks = @ + 1]
<1>1. sched \in Fields
  BY DEF TypeOK
<1>2. CancelAll(sched) \in Fields /\ CancelAll(sched).queued > 0
  BY <1>1, CancelChainsRun
<1>3. CASE AskForNothing
  BY <1>2, <1>3 DEF AskForNothing, Ask
<1>4. CASE AskForPeriodic
  BY <1>2, <1>4, CallsChainRuns DEF AskForPeriodic, Ask
<1>5. CASE AskForBoth
  <2>1. PICK interval \in AskedDelays, delay \in AskedDelays :
            Ask(ScheduleOneShot(SchedulePeriodic(CancelAll(sched), interval), delay))
    BY <1>5 DEF AskForBoth
  <2>2. SchedulePeriodic(CancelAll(sched), interval) \in Fields
    BY <1>2, CallsChainRuns
  <2>3. QED
    BY <2>1, <2>2, CallsChainRuns DEF Ask
<1>6. CASE AskForOneShot
  <2>1. PICK s \in {sched, CancelAll(sched)}, delay \in AskedDelays :
            Ask(ScheduleOneShot(s, delay))
    BY <1>6 DEF AskForOneShot
  <2>2. QED
    BY <1>1, <1>2, <2>1, CallsChainRuns DEF Ask
<1>7. QED
  BY <1>3, <1>4, <1>5, <1>6

LEMMA InitIInv == Init => IInv
<1> SUFFICES ASSUME Init PROVE IInv
  OBVIOUS
<1>1. NewScheduler \in Fields /\ NoRun \in Run
  BY DEF NewScheduler, Fields, NoRun, Run
<1>2. alarms \in [Alarms -> AlarmDelays \cup {None}]
  <2>1. PICK p \in AskedDelays \cup {None}, o \in AskedDelays \cup {None} :
            alarms = Wanted([NewScheduler EXCEPT !.periodic = p, !.oneShot = o])
    BY DEF Init
  <2>2. [NewScheduler EXCEPT !.periodic = p, !.oneShot = o] \in Fields
    BY <1>1, FieldsExcept
  <2>3. QED
    BY <2>1, <2>2, WantedType
<1>3. SettledAlarmsAreWanted
  BY DEF Init, SettledAlarmsAreWanted, NewScheduler
<1>4. QED
  BY <1>1, <1>2, <1>3 DEF Init, IInv, TypeOK, ClearsBelongToRun, NoRun

LEMMA NextKeepsIInv == IInv /\ [Next]_vars => IInv'
<1> SUFFICES ASSUME IInv, [Next]_vars PROVE IInv'
  OBVIOUS
<1> USE DEF IInv
<1>1. /\ sched \in Fields /\ run \in Run
      /\ alarms \in [Alarms -> AlarmDelays \cup {None}]
      /\ spent \in [asks : Nat, failedClears : Nat, deaths : Nat]
  BY DEF TypeOK
<1>2. CASE AskForNothing \/ AskForPeriodic \/ AskForBoth \/ AskForOneShot
  BY <1>1, <1>2, AskUnsettles
     DEF TypeOK, ClearsBelongToRun, SettledAlarmsAreWanted, Settled, Fields
<1>3. CASE BeginRun
  <2>1. /\ sched' \in Fields /\ run' \in Run /\ run'.active
        /\ UNCHANGED <<alarms, spent>>
    BY <1>1, <1>3 DEF BeginRun, Clearing, Fields, Run
  <2>2. QED
    BY <1>1, <2>1 DEF TypeOK, ClearsBelongToRun, SettledAlarmsAreWanted, Settled
<1>4. CASE ClearSettles
  <2>1. PICK name \in run.clearing :
            /\ run' = [run EXCEPT !.clearing = @ \ {name}]
            /\ \/ alarms' = [alarms EXCEPT ![name] = None] /\ UNCHANGED spent
               \/ /\ spent' = [spent EXCEPT !.failedClears = @ + 1]
                  /\ UNCHANGED alarms
            /\ UNCHANGED sched
    BY <1>4 DEF ClearSettles
  <2>2. run.active /\ run' \in Run /\ run'.active
    BY <1>1, <2>1 DEF ClearsBelongToRun, Run
  <2>3. alarms' \in [Alarms -> AlarmDelays \cup {None}]
    BY <1>1, <2>1
  <2>4. spent' \in [asks : Nat, failedClears : Nat, deaths : Nat]
    BY <1>1, <2>1
  <2>5. QED
    BY <1>1, <2>1, <2>2, <2>3, <2>4
       DEF TypeOK, ClearsBelongToRun, SettledAlarmsAreWanted, Settled
<1>5. CASE StartOver
  <2>1. run' \in Run /\ run'.active /\ UNCHANGED <<sched, alarms, spent>>
    BY <1>1, <1>5 DEF StartOver, Clearing, Run, Fields
  <2>2. QED
    BY <1>1, <2>1 DEF TypeOK, ClearsBelongToRun, SettledAlarmsAreWanted, Settled
<1>6. CASE CreateAlarms
  <2>1. /\ alarms' = [name \in Alarms |-> IF Wanted(sched)[name] = None
                                          THEN alarms[name] ELSE Wanted(sched)[name]]
        /\ run' = NoRun /\ UNCHANGED <<sched, spent>>
    BY <1>6 DEF CreateAlarms
  <2>2. /\ Wanted(sched) \in [Alarms -> AlarmDelays \cup {None}]
        /\ Wanted(sched)["periodic"] = None <=> sched.periodic = None
        /\ Wanted(sched)["wake"] = None <=> sched.oneShot = None
        /\ Wanted(sched)["periodic"] = Wanted(sched).periodic
        /\ Wanted(sched)["wake"] = Wanted(sched).wake
    BY <1>1, WantedType
  <2>3. alarms' \in [Alarms -> AlarmDelays \cup {None}]
    BY <1>1, <2>1, <2>2
  <2>4. Wanted(sched)' = Wanted(sched)
    BY <2>1 DEF Wanted
  <2>5. /\ sched'.periodic # None => alarms'["periodic"] = Wanted(sched).periodic
        /\ sched'.oneShot # None => alarms'["wake"] = Wanted(sched).wake
    BY <2>1, <2>2 DEF Alarms
  <2>6. NoRun \in Run /\ NoRun.clearing = {}
    BY DEF NoRun, Run
  <2>7. QED
    BY <1>1, <2>1, <2>3, <2>4, <2>5, <2>6
       DEF TypeOK, ClearsBelongToRun, SettledAlarmsAreWanted
<1>7. CASE WakeRings
  <2>1. /\ alarms' = [alarms EXCEPT !["wake"] = None] /\ UNCHANGED <<sched, run, spent>>
    BY <1>7 DEF WakeRings
  <2>2. /\ alarms' \in [Alarms -> AlarmDelays \cup {None}]
        /\ alarms'["wake"] = None /\ alarms'["periodic"] = alarms["periodic"]
    BY <1>1, <2>1 DEF Alarms
  <2>3. Wanted(sched)' = Wanted(sched) /\ Settled' = Settled
    BY <2>1 DEF Wanted, Settled
  <2>4. QED
    BY <1>1, <2>1, <2>2, <2>3 DEF TypeOK, ClearsBelongToRun, SettledAlarmsAreWanted
<1>8. CASE Die
  <2>1. /\ sched' = NewScheduler /\ run' = NoRun
        /\ spent' = [spent EXCEPT !.deaths = @ + 1]
    BY <1>8 DEF Die
  <2>2. alarms' \in [Alarms -> AlarmDelays \cup {None}]
    BY <1>1, <1>8 DEF Die
  <2>3. NewScheduler \in Fields /\ NoRun \in Run
    BY DEF NewScheduler, Fields, NoRun, Run
  <2>4. QED
    BY <1>1, <2>1, <2>2, <2>3
       DEF TypeOK, ClearsBelongToRun, SettledAlarmsAreWanted, NoRun, NewScheduler
<1>9. CASE UNCHANGED vars
  BY <1>9 DEF vars, TypeOK, ClearsBelongToRun, SettledAlarmsAreWanted, Settled, Wanted
<1>10. QED
  BY <1>2, <1>3, <1>4, <1>5, <1>6, <1>7, <1>8, <1>9 DEF Next, Reconcile

\* The inductive invariant holds always.
THEOREM IInvAlways == Spec => []IInv
<1>1. QED
  BY InitIInv, NextKeepsIInv, PTL DEF Spec

\* Delays and counters keep their types: no alarm rings more often than the minimum
\* the scheduler imposes.
THEOREM TypeCorrect == Spec => []TypeOK
<1>1. IInv => TypeOK
  BY DEF IInv
<1>2. QED
  BY <1>1, IInvAlways, PTL

\* Once no run is left the browser has the alarms last asked for.
THEOREM SettledAlarmsAreAlwaysWanted == Spec => []SettledAlarmsAreWanted
<1>1. IInv => SettledAlarmsAreWanted
  BY DEF IInv
<1>2. QED
  BY <1>1, IInvAlways, PTL

-------------------------------------------------------------------------------
(* The scheduler implements AlarmPromise *)

LEMMA InitIsPromised == Init => Promise!Init
<1> SUFFICES ASSUME Init PROVE Promise!Init
  OBVIOUS
<1>1. alarms \in [Alarms -> AlarmDelays \cup {None}]
  BY InitIInv DEF IInv, TypeOK
<1>2. Wanted(sched) = [name \in Alarms |-> None]
  BY DEF Init, NewScheduler, Wanted, Alarms
<1>3. Settled
  BY DEF Init, NewScheduler, NoRun, Settled
<1>4. QED
  BY <1>1, <1>2, <1>3
     DEF Promise!Init, Promise!Nothing, Promise!Setting, Promise!Alarms, Alarms

LEMMA StepIsPromised == IInv /\ [Next]_vars => [Promise!Next]_(Promise!promiseVars)
<1> SUFFICES ASSUME IInv, [Next]_vars
             PROVE  Promise!Next \/ UNCHANGED Promise!promiseVars
  OBVIOUS
<1>1. /\ sched \in Fields /\ run \in Run
      /\ alarms \in [Alarms -> AlarmDelays \cup {None}]
  BY DEF IInv, TypeOK
<1>2. CASE AskForNothing \/ AskForPeriodic \/ AskForBoth \/ AskForOneShot
  <2>1. sched' \in Fields /\ sched'.queued > 0 /\ UNCHANGED alarms
    BY <1>2, AskUnsettles DEF IInv
  <2>2. Wanted(sched)' \in [Alarms -> AlarmDelays \cup {None}]
    <3>1. Wanted(sched') \in [Alarms -> AlarmDelays \cup {None}]
      BY <2>1, WantedType
    <3>2. Wanted(sched)' = Wanted(sched')
      BY DEF Wanted
    <3>3. QED
      BY <3>1, <3>2
  <2>3. Settled' = FALSE
    BY <2>1 DEF Settled, Fields
  <2>4. QED
    BY <2>1, <2>2, <2>3
       DEF Promise!Next, Promise!Ask, Promise!Setting, Promise!Alarms, Alarms
<1>3. CASE BeginRun
  <2>1. /\ UNCHANGED alarms /\ Settled = FALSE /\ Settled' = FALSE
        /\ Wanted(sched)' = Wanted(sched)
    BY <1>1, <1>3 DEF BeginRun, Clearing, Settled, Fields, Wanted
  <2>2. QED
    BY <2>1 DEF Promise!promiseVars
<1>4. CASE ClearSettles
  <2>1. PICK name \in run.clearing :
            /\ run' = [run EXCEPT !.clearing = @ \ {name}]
            /\ \/ alarms' = [alarms EXCEPT ![name] = None] \/ UNCHANGED alarms
            /\ UNCHANGED sched
    BY <1>4 DEF ClearSettles
  <2>2. run.active /\ run'.active /\ name \in Alarms
    BY <1>1, <2>1 DEF IInv, ClearsBelongToRun, Run
  <2>3. Settled = FALSE /\ Settled' = FALSE /\ Wanted(sched)' = Wanted(sched)
    BY <2>1, <2>2 DEF Settled, Wanted
  <2>4. CASE UNCHANGED alarms
    BY <2>3, <2>4 DEF Promise!promiseVars
  <2>5. CASE alarms' = [alarms EXCEPT ![name] = None]
    <3>1. alarms' = Promise!Without({name})
      BY <1>1, <2>5 DEF Promise!Without, Promise!Alarms, Alarms
    <3>2. {name} \in SUBSET Promise!Alarms
      BY <2>2 DEF Promise!Alarms, Alarms
    <3>3. QED
      BY <2>3, <3>1, <3>2 DEF Promise!Next, Promise!Drop
  <2>6. QED
    BY <2>1, <2>4, <2>5
<1>5. CASE StartOver
  <2>1. /\ UNCHANGED alarms /\ Settled = FALSE /\ Settled' = FALSE
        /\ Wanted(sched)' = Wanted(sched)
    BY <1>5 DEF StartOver, Clearing, Settled, Wanted
  <2>2. QED
    BY <2>1 DEF Promise!promiseVars
<1>6. CASE CreateAlarms
  <2>1. Settled = FALSE /\ Settled' \in BOOLEAN /\ Wanted(sched)' = Wanted(sched)
    BY <1>6 DEF CreateAlarms, Settled, Wanted
  <2>2. alarms' = [name \in Alarms |-> IF Wanted(sched)[name] = None THEN alarms[name]
                                       ELSE Wanted(sched)[name]]
    BY <1>6 DEF CreateAlarms
  <2>3. QED
    BY <2>1, <2>2 DEF Promise!Next, Promise!Grant, Promise!Alarms, Alarms
<1>7. CASE WakeRings
  <2>1. /\ alarms' = [alarms EXCEPT !["wake"] = None]
        /\ Settled' = Settled /\ Wanted(sched)' = Wanted(sched)
    BY <1>7 DEF WakeRings, Settled, Wanted
  <2>2. alarms' = Promise!Without({"wake"})
    BY <1>1, <2>1 DEF Promise!Without, Promise!Alarms, Alarms
  <2>3. QED
    BY <2>1, <2>2 DEF Promise!Next, Promise!Ring
<1>8. CASE Die
  <2>1. PICK names \in SUBSET run.clearing :
            alarms' = [name \in Alarms |-> IF name \in names THEN None ELSE alarms[name]]
    BY <1>8 DEF Die
  <2>2. Settled' = TRUE /\ Wanted(sched)' = Promise!Nothing
    BY <1>8 DEF Die, Settled, NoRun, NewScheduler, Wanted,
                Promise!Nothing, Promise!Alarms
  <2>3. names \in SUBSET Promise!Alarms /\ alarms' = Promise!Without(names)
    BY <1>1, <2>1 DEF Run, Promise!Without, Promise!Alarms, Alarms
  <2>4. Settled => UNCHANGED alarms
    <3>1. SUFFICES ASSUME Settled PROVE alarms' = alarms
      OBVIOUS
    <3>2. names = {}
      BY <2>1, <3>1 DEF Settled, IInv, ClearsBelongToRun
    <3>3. QED
      BY <1>1, <2>1, <3>2
  <2>5. QED
    BY <2>2, <2>3, <2>4 DEF Promise!Next, Promise!Die
<1>9. CASE UNCHANGED vars
  BY <1>9 DEF vars, Settled, Wanted, Promise!promiseVars
<1>10. QED
  BY <1>2, <1>3, <1>4, <1>5, <1>6, <1>7, <1>8, <1>9 DEF Next, Reconcile

\* The scheduler implements AlarmPromise: an alarm once granted is lost only to
\* another wish or to its own ring.
THEOREM PromiseIsKept == Spec => KeepsPromise
<1>1. Init => Promise!Init
  BY InitIsPromised
<1>2. IInv /\ [Next]_vars => [Promise!Next]_(Promise!promiseVars)
  BY StepIsPromised
<1>3. QED
  BY <1>1, <1>2, IInvAlways, PTL DEF Spec, KeepsPromise, Promise!Spec
===============================================================================
