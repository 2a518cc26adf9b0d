--------------------------- MODULE CredentialStore ---------------------------
(***************************************************************************)
(* What the controller of the personal Telegram channel relies on when it  *)
(* reads, writes and removes its stored state: one value, and calls that   *)
(* are served one at a time.  A write or a removal takes effect at one     *)
(* instant; one that is answered has taken effect, and one that fails or   *)
(* dies with the worker has taken effect once or not at all.  A read       *)
(* answers the value and changes nothing, and neither does a death.        *)
(***************************************************************************)
CONSTANTS
    None,    \* nothing is stored
    Values   \* what can be stored

VARIABLES
    creds,  \* the stored value
    call    \* the call that is being served

NoCall == [op |-> None, value |-> None, status |-> None]

Calls == [op : {"read", "write", "remove"}, value : Values \cup {None},
          status : {"taken", "done", "failed"}]

Init == /\ creds \in Values \cup {None}
        /\ call = NoCall

\* A read brings no value of its own; it will carry the stored one.
TakeUp == /\ call = NoCall
          /\ \E op \in {"read", "remove", "write"}, v \in Values \cup {None} :
                /\ op = "write" <=> v # None
                /\ call' = [op |-> op, value |-> v, status |-> "taken"]
          /\ UNCHANGED creds

Read == /\ call.op = "read" /\ call.status = "taken"
        /\ call' = [op |-> "read", value |-> creds, status |-> "done"]
        /\ UNCHANGED creds

Write == /\ call.op = "write" /\ call.status = "taken"
         /\ creds' = call.value
         /\ call' = [call EXCEPT !.status = "done"]

Remove == /\ call.op = "remove" /\ call.status = "taken"
          /\ creds' = None
          /\ call' = [call EXCEPT !.status = "done"]

GiveUp == /\ call.status \in {"taken", "done"}
          /\ call' = [call EXCEPT !.status = "failed"]
          /\ UNCHANGED creds

Answer == /\ call.status \in {"done", "failed"}
          /\ call' = NoCall
          /\ UNCHANGED creds

\* The worker dies: nobody will hear of the call.
Die == /\ call # NoCall
       /\ call' = NoCall
       /\ UNCHANGED creds

Next == TakeUp \/ Read \/ Write \/ Remove \/ GiveUp \/ Answer \/ Die

Spec == Init /\ [][Next]_<<creds, call>>
===============================================================================
