------------------------ MODULE AvailabilityTransition ------------------------
(***************************************************************************)
(* The alert decision of packages/core/src/transitions.ts: given what was  *)
(* known of one SKU at one store before an observation, does the           *)
(* observation deserve an alert?  An `unknown` result is a failure to      *)
(* understand Apple and must neither create nor hide an alert.             *)
(***************************************************************************)
EXTENDS Integers

CONSTANT None   \* the code's null

\* "unavailable" also stands for the code's "ineligible": nothing in the
\* monitor tells the two apart.
KnownStatus == {"available", "unavailable"}
Status      == KnownStatus \cup {"unknown"}

OptTime == Int \cup {None}

(***************************************************************************)
(* What the observation is compared with.  An outage is looked through:    *)
(* after an `unknown` the last known status is the baseline.               *)
(***************************************************************************)
Baseline(previous, lastKnown) ==
    IF previous = "unknown" THEN lastKnown ELSE previous

CooledDown(t, lastAlertedAt, cooldown) ==
    lastAlertedAt = None \/ t - lastAlertedAt >= cooldown

\* Mutant: the outage itself is taken for the baseline.
ForgetfulShouldAlert(previous, lastKnown, current, t, lastAlertedAt, cooldown) ==
    /\ current = "available"
    /\ previous # "available"
    /\ CooledDown(t, lastAlertedAt, cooldown)

\* Mutant: no cooldown.
EagerShouldAlert(previous, lastKnown, current, t, lastAlertedAt, cooldown) ==
    /\ current = "available"
    /\ Baseline(previous, lastKnown) # "available"

\* evaluateAvailabilityTransition(...).shouldAlert
ShouldAlert(previous, lastKnown, current, t, lastAlertedAt, cooldown) ==
    /\ current = "available"
    /\ Baseline(previous, lastKnown) # "available"
    /\ CooledDown(t, lastAlertedAt, cooldown)
===============================================================================
