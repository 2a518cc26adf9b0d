----------------------------- MODULE LocalRuntime -----------------------------
(***************************************************************************)
(* installLocalMonitorRuntime                                              *)
(* (apps/extension/src/runtime/local-monitor-runtime.ts): the commands of  *)
(* the extension's pages, the queue that orders edits of the watches with  *)
(* what a disconnect does to them, and the death of the worker.  The watch *)
(* here stands for any watch: it does not exist, or it alerts on Telegram, *)
(* or it does not.  The engine changes it in one step when it has saved.   *)
(***************************************************************************)
EXTENDS TelegramController, DesktopAlerts

CONSTANTS
    MaxCommands,  \* bound on commands about Telegram and the watch
    MaxAlerts,    \* bound on desktop alerts and commands about them
    MaxFaults     \* bound on awaits that reject, answers that are not heard, deaths of
                  \* the worker and instants at which something lapses

VARIABLES
    watch,      \* the watch, as the engine has saved it
    watchTail,  \* telegramWatchMutationTail, the running mutation first
    channel,    \* bound: the channel that is used, as the two share nothing but the worker
    spent       \* commands, alerts and faults so far

runtimeVars == <<watch, watchTail, channel, spent>>

vars == <<secretVars, controllerVars, desktopVars, runtimeVars>>

telegramVars == <<secretVars, controllerVars>>

WatchStates == {"none", "off", "on"}

WatchCommands == {"add", "replace", "delete"}

Spend(what, max) ==
    /\ spent[what] < max
    /\ spent' = [spent EXCEPT ![what] = @ + 1]
    /\ UNCHANGED channel

\* The engine's part of a command waits for the end of the start: loadBundled, then
\* the reconciliation of the alerts.
Initialized == \A i \in DOMAIN stateTail : stateTail[i].op # "reconcile"

Free == {s \in Slots : slot[s].at = "idle"}

\* A command arrives and is handled in the first free slot.
Arrives(s) ==
    /\ channel = "telegram"
    /\ s \in Free /\ \A x \in Free : s <= x
    /\ Spend("commands", MaxCommands)

-------------------------------------------------------------------------------
TelegramCommand(s) ==
    /\ Arrives(s)
    /\ \/ \E cmd \in SetupCommands, t \in Tokens : BeginSetup(s, cmd, t)
       \/ \E cmd \in (PairingCommands \ {"send"}) \cup {"status"} : BeginWithState(s, cmd)
       \/ \E cmd \in RemovalCommands : BeginRemoval(s, cmd)
    /\ UNCHANGED <<desktopVars, watch, watchTail>>

\* The dispatcher gives an alert of the engine to the channel it is for.
TelegramAlert(s) ==
    /\ Initialized /\ Arrives(s)
    /\ BeginWithState(s, "send")
    /\ UNCHANGED <<desktopVars, watch, watchTail>>

DesktopAlert ==
    /\ channel = "desktop"
    /\ Initialized /\ Spend("alerts", MaxAlerts)
    /\ \E k \in Tasks, e \in Events :
          /\ \A x \in Tasks : task[x].at = "idle" => k <= x
          /\ Notify(k, e)
    /\ UNCHANGED <<telegramVars, watch, watchTail>>

\* markRead, unreadCount and the test notification.
DesktopCommand ==
    /\ channel = "desktop"
    /\ Spend("alerts", MaxAlerts)
    /\ \/ \E e \in Events : AskLedger("read", e)
       \/ AskLedger("unread", 0)
       \/ BeginTest
    /\ UNCHANGED <<telegramVars, watch, watchTail>>

\* addWatch, replaceWatch or deleteWatch: the mutation joins the queue.
EditWatch(s) ==
    /\ Initialized /\ Arrives(s)
    /\ \E cmd \in WatchCommands, want \in WatchStates :
          /\ want = "none" <=> cmd = "delete"
          /\ Become(s, [Handler(cmd, "waiting", 0, None) EXCEPT !.want = want])
    /\ watchTail' = Append(watchTail, s)
    /\ UNCHANGED <<desktopVars, secretVars, generation, tail, revoked, quiet, lastWriter, watch>>

\* reset does not wait for the queue.
ResetWatches ==
    /\ channel = "telegram"
    /\ Initialized /\ Spend("commands", MaxCommands)
    /\ watch # "none" /\ watch' = "none"
    /\ UNCHANGED <<desktopVars, telegramVars, watchTail>>

\* disableTelegramWatches and revokeTelegramPermission join the same queue.
JoinWatchQueue(s) ==
    /\ Initialized /\ slot[s].at = "disabling"
    /\ Become(s, [slot[s] EXCEPT !.at = "waiting"])
    /\ watchTail' = Append(watchTail, s)
    /\ UNCHANGED <<desktopVars, secretVars, generation, tail, revoked, quiet, lastWriter, watch, channel, spent>>

\* The turn of s.  A watch that is added or replaced passes gateTelegramChannel,
\* which asks for the status first.
StartWatchMutation(s) ==
    /\ slot[s].at = "waiting" /\ Head(watchTail) = s
    /\ IF slot[s].want \in {"on", "off"}
       THEN Become(s, [slot[s] EXCEPT !.at = "gating"]) /\ Ask(s, "read", None)
       ELSE Become(s, [slot[s] EXCEPT !.at = "saving"]) /\ UNCHANGED line
    /\ UNCHANGED <<desktopVars, disk, job, generation, tail, revoked, quiet, lastWriter, runtimeVars>>

\* Mutant: the gate only waits for its turn.
Ungated(want, connected) == want

\* A watch keeps its Telegram channel only while the controller is connected.
Gated(want, connected) == IF connected THEN want ELSE "off"

GateAnswered(s) ==
    /\ slot[s].at = "gating" /\ (Answered(s) \/ Refused(s)) /\ Answer
    /\ Become(s, [slot[s] EXCEPT !.at = "saving",
                     !.want = Gated(@, Answered(s) /\ Connected(job.value))])
    /\ UNCHANGED <<desktopVars, line, generation, tail, revoked, quiet, lastWriter, runtimeVars>>

\* What the engine makes of the watch: the edit, or the channel switched off.
SavedWatch(h) ==
    CASE h.cmd = "delete"  -> "none"
      [] h.cmd = "add"     -> IF watch = "none" THEN h.want ELSE watch
      [] h.cmd = "replace" -> IF watch = "none" THEN watch ELSE h.want
      [] OTHER             -> IF watch = "on" THEN "off" ELSE watch

WatchSaved(s) ==
    /\ slot[s].at = "saving"
    /\ watchTail' = Tail(watchTail)
    /\ watch' = SavedWatch(slot[s])
    /\ quiet' = IF slot[s].cmd \in WatchCommands THEN quiet ELSE slot[s].calm
    /\ IF slot[s].cmd = "disconnect"
       THEN Become(s, [slot[s] EXCEPT !.at = "reporting"]) /\ Ask(s, "read", None)
       ELSE Ends(s) /\ UNCHANGED line
    /\ UNCHANGED <<desktopVars, disk, job, generation, tail, revoked, lastWriter, channel, spent>>

\* The engine could not save: the command reports an error.
WatchNotSaved(s) ==
    /\ slot[s].at = "saving"
    /\ Spend("faults", MaxFaults)
    /\ watchTail' = Tail(watchTail)
    /\ Ends(s)
    /\ UNCHANGED <<desktopVars, secretVars, generation, tail, revoked, quiet, lastWriter, watch>>

StoreFails ==
    /\ StoreRejects
    /\ Spend("faults", MaxFaults)
    /\ UNCHANGED <<desktopVars, watch, watchTail>>

DesktopFails ==
    /\ \/ \E k \in Tasks : NotShown(k) \/ ShownUnheard(k) \/ LedgerUnreadable(k)
       \/ TurnFails \/ BadgeFails
       \/ TestExpires
    /\ Spend("faults", MaxFaults)
    /\ UNCHANGED <<telegramVars, watch, watchTail>>

\* What happens to the alerts in its own time.
DesktopPasses ==
    /\ \/ \E k \in Tasks : Abort(k)
       \/ LatePermission \/ CooldownEnds
    /\ UNCHANGED <<telegramVars, runtimeVars>>

TimePasses ==
    /\ channel = "desktop"
    /\ Spend("faults", MaxFaults)
    /\ Tick
    /\ UNCHANGED <<telegramVars, watch, watchTail>>

WorkerDies ==
    /\ Spend("faults", MaxFaults)
    /\ ControllerDie /\ DesktopDie
    /\ watchTail' = <<>>
    /\ UNCHANGED watch

-------------------------------------------------------------------------------
\* A profile with a history of Telegram, or one with a history of alerts.
Init ==
    /\ ControllerInit /\ DesktopInit
    /\ watch \in {"none", "on"}
    /\ watchTail = <<>>
    /\ spent = [commands |-> 0, alerts |-> 0, faults |-> 0]
    /\ \/ channel = "desktop" /\ disk.legacy = None /\ watch = "none"
       \/ channel = "telegram" /\ ~native /\ ledger = <<>> /\ stateTail = <<>>

\* What happens by itself, given that providers answer or time out and that the
\* stores answer.
SystemStep ==
    \/ StoreWorks /\ UNCHANGED <<desktopVars, runtimeVars>>
    \/ DesktopStep /\ UNCHANGED <<telegramVars, runtimeVars>>
    \/ \E s \in Slots :
          \/ ControllerStep(s) /\ UNCHANGED <<desktopVars, runtimeVars>>
          \/ JoinWatchQueue(s) \/ StartWatchMutation(s) \/ GateAnswered(s) \/ WatchSaved(s)

Next ==
    \/ SystemStep
    \/ \E s \in Slots : TelegramCommand(s) \/ TelegramAlert(s) \/ EditWatch(s) \/ WatchNotSaved(s)
    \/ DesktopAlert \/ DesktopCommand \/ ResetWatches
    \/ StoreFails \/ DesktopFails \/ DesktopPasses \/ TimePasses
    \/ WorkerDies

Spec == Init /\ [][Next]_vars

FairSpec == Spec /\ WF_vars(SystemStep)

-------------------------------------------------------------------------------
(* Properties.                                                             *)

\* Once the store has acknowledged a disconnect (telegram.ts:1142) nothing is
\* stored, in either record and whatever setups, confirmations and tests were
\* under way, until the user begins another setup; a death in between does not
\* bring it back.
DisconnectSticks == revoked => disk.enc = None /\ disk.legacy = None

\* When a disconnect has run to its end, watches included
\* (telegram-messages.ts:267, local-monitor-runtime.ts:385), no watch alerts on
\* Telegram until a connection is stored again: no edit that was in the queue or
\* at its gate slips in.  A crash in between is excluded: nothing repairs that.
DisconnectedWatchesStayOff == quiet => watch # "on"

\* Writes that take effect do so in the order of their generations: a setup that
\* was overtaken never replaces what a newer one stored (telegram.ts:562-580).
NewestSetupWins ==
    [][job.at = "seal" /\ job.op = "write" /\ disk'.enc # disk.enc
          => slot[job.who].gen >= lastWriter]_vars

\* telegram.ts:1102: "Only enable alerts after Telegram accepts the explicitly
\* requested test."  The code does not look at deliver's answer: see the run
\* telegram_unaccepted_test.
TestEnablesOnlyWhenAccepted ==
    \A s \in Slots : slot[s].cmd = "test" /\ slot[s].at \in {"queued", "comparing", "storing"}
        => slot[s].accepted

\* While the reference of an alert is valid the system is given the alert a second
\* time only when the first time, or its record, was lost: the worker died in
\* between, the ledger could not be written, Safari's answer was not heard, or
\* newer alerts displaced the reference (desktop.ts:320-349, 549-641).
NoAvoidableDuplicate == \A e \in Events : ~Lapsed(e) => shown[e] <= 1 + unrecorded[e]

\* When no mutation is under way the toolbar shows the number of unread alerts in
\* the ledger, unless an update failed (desktop.ts:426-463, 678-713); a worker that
\* dies between the ledger and the badge is made up for by the next one.
BadgeCountsUnread == stateTail = <<>> /\ ~missed => badge = Unread(ledger)

\* Between two ends of a cooldown at most one test notification is shown, however
\* late the browser answers about the permission of one that has timed out
\* (desktop.ts:356-423).
TestsAreSpaced == tests <= 1

\* Every command comes to its end, and with it the queues it waits in: a mutation
\* that is dropped or rejected lets the next one run (telegram.ts:551-561,
\* local-monitor-runtime.ts:184-193).
CommandsSettle ==
    []<>(/\ \A s \in Slots : slot[s].at = "idle"
         /\ \A k \in Tasks : task[k].at = "idle")
===============================================================================
