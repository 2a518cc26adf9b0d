----------------------------- MODULE AlarmPromise -----------------------------
(***************************************************************************)
(* What the engine counts on when it asks for alarms: the two browser      *)
(* alarms come to be those last asked for, and once they are, they stay    *)
(* until another wish or, for the one-shot alarm, until it rings.  Only    *)
(* while a wish is being carried out may an alarm be missing.              *)
(***************************************************************************)
EXTENDS Integers

CONSTANTS None, Delays

Alarms == {"periodic", "wake"}

Setting == [Alarms -> Delays \cup {None}]

Nothing == [name \in Alarms |-> None]

VARIABLES
    wanted,   \* the last wish
    alarms,   \* what the browser has
    settled   \* no wish is being carried out

promiseVars == <<wanted, alarms, settled>>

Init ==
    /\ wanted = Nothing
    /\ alarms \in Setting
    /\ settled = TRUE

Ask ==
    /\ wanted' \in Setting
    /\ settled' = FALSE
    /\ UNCHANGED alarms

\* The alarms of names are gone, the others are left alone.
Without(names) ==
    [name \in Alarms |-> IF name \in names THEN None ELSE alarms[name]]

Drop ==
    /\ ~settled
    /\ \E names \in SUBSET Alarms : alarms' = Without(names)
    /\ UNCHANGED <<wanted, settled>>

\* The wish is carried out; an alarm it does not ask for may be left over.
Grant ==
    /\ ~settled
    /\ alarms' = [name \in Alarms |-> IF wanted[name] = None THEN alarms[name]
                                      ELSE wanted[name]]
    /\ settled' \in BOOLEAN
    /\ UNCHANGED wanted

Ring ==
    /\ alarms' = Without({"wake"})
    /\ UNCHANGED <<wanted, settled>>

\* The worker dies with its wish; what it had already been granted stays.
Die ==
    /\ IF settled THEN UNCHANGED alarms
       ELSE \E names \in SUBSET Alarms : alarms' = Without(names)
    /\ wanted' = Nothing
    /\ settled' = TRUE

Next == Ask \/ Drop \/ Grant \/ Ring \/ Die

Spec == Init /\ [][Next]_promiseVars
===============================================================================
