---------------------------- MODULE DeliveryPromise ----------------------------
(***************************************************************************)
(* What storage promises about the delivery of an alert on a channel, the  *)
(* worker's deaths, failing writes and late answers left out.  Each copy   *)
(* of an alert has one entry in the book that survives a restart.  It is   *)
(* still coming, then open with a number of tries, then closed with one    *)
(* verdict, and once gone it never comes back.  A provider hears of a copy *)
(* only on a try that is already in the book, and a copy is delivered only *)
(* if its provider has heard of it.                                        *)
(***************************************************************************)
EXTENDS Integers

CONSTANTS
    Copies,      \* an alert on one channel each
    MaxAttempts  \* tries a copy may have

VARIABLES
    book,     \* what storage says of each copy
    contacts  \* how often its provider was contacted

promiseVars == <<book, contacts>>

Verdicts == {"delivered", "failed", "revoked", "expired", "superseded"}

Stages == {"coming", "open", "gone"} \cup Verdicts

Entry == [stage : Stages, tries : 0..MaxAttempts]

\* An entry may skip stages, as the book is written after the fact, but never goes
\* back one, loses a try or changes its verdict.
Follows(old, new) ==
    \/ new.stage = "gone"
    \/ old.stage = "coming"
    \/ old.stage = "open" /\ new.stage # "coming" /\ new.tries >= old.tries
    \/ old.stage \in Verdicts /\ new.stage = old.stage /\ new.tries >= old.tries

Init ==
    /\ book = [p \in Copies |-> [stage |-> "coming", tries |-> 0]]
    /\ contacts = [p \in Copies |-> 0]

\* One write records what has become of any number of copies.
Write ==
    /\ book' \in [Copies -> Entry]
    /\ \A p \in Copies :
        /\ Follows(book[p], book'[p])
        /\ book'[p].stage = "delivered" => contacts[p] > 0
    /\ UNCHANGED contacts

Contact(p) ==
    /\ book[p].stage = "open"
    /\ contacts[p] < book[p].tries
    /\ contacts' = [contacts EXCEPT ![p] = @ + 1]
    /\ UNCHANGED book

Next == Write \/ \E p \in Copies : Contact(p)

Spec == Init /\ [][Next]_promiseVars
===============================================================================
