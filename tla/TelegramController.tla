-------------------------- MODULE TelegramController --------------------------
(***************************************************************************)
(* createPersonalTelegramController                                        *)
(* (apps/extension/src/notifications/telegram.ts), the commands that       *)
(* platform/telegram-messages.ts executes with it, and the deliveries of   *)
(* the engine.  Handlers run concurrently; each holds the generation it    *)
(* captured, the stored state it read and the state it means to write.     *)
(* Mutations of the store wait in a queue (storageTail) and compare what   *)
(* is stored with what the handler read; a disconnect removes whatever is  *)
(* there.  Chats, nonces and bot names are determined by the token here,   *)
(* so that fewer writes are refused than in the code; a pairing may turn   *)
(* out to be expired whenever it is confirmed.                             *)
(***************************************************************************)
EXTENDS TelegramSecrets

VARIABLES
    generation,  \* the controller's generation
    slot,        \* the handlers
    tail,        \* the mutations that wait in storageTail, the running one first
    revoked,     \* ghost: the store acknowledged a disconnect and no setup began since
    quiet,       \* ghost: a disconnect ran to its end and no connection was stored since
    lastWriter   \* ghost: the generation of the handler that wrote last

controllerVars == <<generation, slot, tail, revoked, quiet, lastWriter>>

SetupCommands == {"pair", "save", "start"}
PairingCommands == {"pairSaved", "confirm", "test", "send"}
RemovalCommands == {"disconnect", "revoke"}
TelegramCommands == SetupCommands \cup PairingCommands \cup RemovalCommands \cup {"status"}

NoHandler == [cmd |-> None, at |-> "idle", gen |-> 0, token |-> None, ask |-> None,
              tries |-> 0, seen |-> None, next |-> None, accepted |-> FALSE,
              want |-> None, calm |-> FALSE]

Handler(cmd, at, gen, token) ==
    [NoHandler EXCEPT !.cmd = cmd, !.at = at, !.gen = gen, !.token = token]

\* Mutant: a handler is not told that a newer setup or a disconnect began.
AlwaysCurrent(h) == TRUE

IsCurrent(h) == h.gen = generation

\* The handler in slot s becomes h; a handler that ends has `NoHandler'.
Become(s, h) == slot' = [slot EXCEPT ![s] = h]

Ends(s) == Become(s, NoHandler)

\* toPublicStatus(v).kind = "connected".
Connected(v) == v # None /\ v.active # None /\ v.pending = None /\ v.setup = None

\* The token whose chat is still to be found.
Unpaired(v) == IF v = None THEN None ELSE IF v.setup # None THEN v.setup ELSE v.pending

-------------------------------------------------------------------------------
(* Provider calls and store calls of a handler.                            *)

\* request: a handler of an older generation calls nobody.
Calling(h, ask, token) ==
    IF IsCurrent(h) THEN [h EXCEPT !.at = "calling", !.ask = ask, !.token = token]
                    ELSE NoHandler

\* writeState and removeState: the mutation joins storageTail.
Enqueue(s, h, v) ==
    /\ Become(s, [h EXCEPT !.at = "queued", !.next = v])
    /\ tail' = Append(tail, s)

\* advanceGeneration: every provider call under way is aborted.
Aborted == [s \in Slots |-> IF slot[s].at = "calling" THEN NoHandler ELSE slot[s]]

-------------------------------------------------------------------------------
(* The commands.                                                           *)

\* pairToken, saveToken and startPairing invalidate everything before them and
\* ask the provider about the bot.
BeginSetup(s, cmd, token) ==
    /\ cmd \in SetupCommands
    /\ generation' = generation + 1
    /\ slot' = [Aborted EXCEPT ![s] =
                   [Handler(cmd, "calling", generation + 1, token) EXCEPT !.ask = "getMe"]]
    /\ revoked' = FALSE
    /\ UNCHANGED <<tail, quiet, lastWriter, secretVars>>

\* pairSavedToken, confirmPairing, sendTest and sendStoredAvailable start from
\* the stored state; so does the status.
BeginWithState(s, cmd) ==
    /\ cmd \in PairingCommands \cup {"status"}
    /\ Become(s, Handler(cmd, IF cmd = "status" THEN "reporting" ELSE "reading",
                         generation, None))
    /\ Ask(s, "read", None)
    /\ UNCHANGED <<generation, tail, revoked, quiet, lastWriter, disk, job>>

\* disconnect, by command or because the permission was withdrawn.
BeginRemoval(s, cmd) ==
    /\ cmd \in RemovalCommands
    /\ generation' = generation + 1
    /\ slot' = [Aborted EXCEPT ![s] = Handler(cmd, "queued", generation + 1, None)]
    /\ tail' = Append(tail, s)
    /\ UNCHANGED <<revoked, quiet, lastWriter, secretVars>>

-------------------------------------------------------------------------------
(* Answers of the provider.                                                *)

\* Telegram accepted the message, or deliver says that it gave up: sendTest does
\* not look at what deliver returns.
AfterDelivery(s, h) ==
    IF h.cmd = "send" THEN Ends(s) /\ UNCHANGED <<tail, line>>
    ELSE IF Unpaired(h.seen) # None
         THEN Enqueue(s, h, Stored(h.token, None, None)) /\ UNCHANGED line
         ELSE /\ Become(s, [h EXCEPT !.at = "reporting"])
              /\ Ask(s, "read", None)
              /\ UNCHANGED tail

AnswerOk(s) ==
    LET h == slot[s]
    IN CASE h.ask = "getMe" ->
              /\ Become(s, [h EXCEPT !.ask = "getWebhookInfo"])
              /\ UNCHANGED <<tail, line>>
         [] h.ask = "getWebhookInfo" ->
              /\ Become(s, [h EXCEPT !.at = "reading"])
              /\ Ask(s, "read", None)
              /\ UNCHANGED tail
         [] h.ask = "getUpdates" /\ h.cmd = "test" ->
              /\ Become(s, [h EXCEPT !.ask = "sendMessage", !.tries = 1])
              /\ UNCHANGED <<tail, line>>
         [] h.ask = "getUpdates" /\ h.cmd # "test" ->
              Enqueue(s, h, Stored(h.token, None, None)) /\ UNCHANGED line
         [] h.ask = "sendMessage" -> AfterDelivery(s, [h EXCEPT !.accepted = TRUE])

\* The call was answered as hoped: the bot is usable, one chat wrote to it, the
\* message was taken.
ProviderAccepts(s) ==
    /\ slot[s].at = "calling"
    /\ AnswerOk(s)
    /\ UNCHANGED <<generation, revoked, quiet, lastWriter, disk, job>>

\* An error, an unusable answer, a missing permission or ten seconds of silence.
ProviderFails(s) ==
    /\ slot[s].at = "calling"
    /\ Ends(s)
    /\ UNCHANGED <<generation, tail, revoked, quiet, lastWriter, secretVars>>

\* 429: deliver returns "terminal" or "retry_not_before" instead of throwing.
ProviderLimits(s) ==
    /\ slot[s].at = "calling" /\ slot[s].ask = "sendMessage"
    /\ AfterDelivery(s, slot[s])
    /\ UNCHANGED <<generation, revoked, quiet, lastWriter, disk, job>>

\* 500, 502 or 503: one more attempt after a quarter of a second.
ProviderIsBusy(s) ==
    /\ slot[s].at = "calling" /\ slot[s].ask = "sendMessage"
    /\ IF slot[s].tries = 1 THEN Become(s, [slot[s] EXCEPT !.at = "sleeping"]) ELSE Ends(s)
    /\ UNCHANGED <<generation, tail, revoked, quiet, lastWriter, secretVars>>

WakesUp(s) ==
    /\ slot[s].at = "sleeping"
    /\ Become(s, Calling([slot[s] EXCEPT !.tries = 2], "sendMessage", slot[s].token))
    /\ UNCHANGED <<generation, tail, revoked, quiet, lastWriter, secretVars>>

-------------------------------------------------------------------------------
(* Answers of the store.                                                   *)

Answered(s) == job.at = "answer" /\ job.who = s
Refused(s)  == job.at = "failed" /\ job.who = s

\* What a setup writes, given what is stored.
SetupState(h, v) ==
    CASE h.cmd = "start" -> Stored(IF v = None THEN None ELSE v.active, h.token, None)
      [] h.cmd # "start" /\ v # None /\ v.active = h.token -> Stored(h.token, None, None)
      [] OTHER -> Stored(None, None, h.token)

\* The stored state without its expired pairing.
WithoutPairing(v) == IF v.active = None THEN None ELSE Stored(v.active, None, None)

\* The handler has read the stored state v and goes on.
WithState(s, h, v) ==
    CASE h.cmd \in SetupCommands /\ IsCurrent(h) ->
           Enqueue(s, h, SetupState(h, v))
      [] h.cmd = "confirm" /\ v # None /\ v.pending # None ->
           \/ Enqueue(s, h, WithoutPairing(v))
           \/ Become(s, Calling(h, "getUpdates", v.pending)) /\ UNCHANGED tail
      [] h.cmd \in {"pairSaved", "test"} /\ Unpaired(v) # None ->
           Become(s, Calling(h, "getUpdates", Unpaired(v))) /\ UNCHANGED tail
      [] \/ h.cmd = "test" /\ v # None /\ Unpaired(v) = None
         \/ h.cmd = "send" /\ v # None /\ v.active # None /\ v.setup = None ->
           Become(s, Calling([h EXCEPT !.tries = 1], "sendMessage", v.active)) /\ UNCHANGED tail
      [] OTHER -> Ends(s) /\ UNCHANGED tail

StateRead(s) ==
    /\ slot[s].at = "reading" /\ Answered(s) /\ Answer
    /\ WithState(s, [slot[s] EXCEPT !.seen = job.value], job.value)
    /\ UNCHANGED <<generation, revoked, quiet, lastWriter, line>>

StateUnreadable(s) ==
    /\ slot[s].at = "reading" /\ Refused(s) /\ Answer
    /\ Ends(s)
    /\ UNCHANGED <<generation, tail, revoked, quiet, lastWriter, line>>

\* The status that ends a command, or was asked for.
StatusReported(s) ==
    /\ slot[s].at = "reporting" /\ (Answered(s) \/ Refused(s)) /\ Answer
    /\ Ends(s)
    /\ UNCHANGED <<generation, tail, revoked, quiet, lastWriter, line>>

-------------------------------------------------------------------------------
(* The queue of mutations.                                                 *)

Serves(s) == tail # <<>> /\ Head(tail) = s

\* enqueueStorageMutation: the turn of s has come.  A removal asks for nothing; a
\* write that is no longer current is dropped, and another reads what is stored.
StartMutation(s) ==
    /\ Serves(s) /\ slot[s].at = "queued"
    /\ IF slot[s].cmd \in RemovalCommands
       THEN Become(s, [slot[s] EXCEPT !.at = "storing"]) /\ Ask(s, "remove", None) /\ UNCHANGED tail
       ELSE IF IsCurrent(slot[s])
       THEN Become(s, [slot[s] EXCEPT !.at = "comparing"]) /\ Ask(s, "read", None) /\ UNCHANGED tail
       ELSE Ends(s) /\ tail' = Tail(tail) /\ UNCHANGED line
    /\ UNCHANGED <<generation, revoked, quiet, lastWriter, disk, job>>

\* sameStoredState: what is stored is what the handler started from.
Unchanged(h) == job.value = h.seen

Compared(s) ==
    /\ slot[s].at = "comparing" /\ Answered(s) /\ Answer
    /\ IF Unchanged(slot[s])
       THEN /\ Become(s, [slot[s] EXCEPT !.at = "storing"])
            /\ Ask(s, IF slot[s].next = None THEN "remove" ELSE "write", slot[s].next)
            /\ UNCHANGED tail
       ELSE Ends(s) /\ tail' = Tail(tail) /\ UNCHANGED line
    /\ UNCHANGED <<generation, revoked, quiet, lastWriter>>

\* pairToken goes on to look for the chat of the token it saved, sendTest to the
\* status, a removal to the watches (see LocalRuntime); the others are done.
AfterMutation(s, h) ==
    CASE h.cmd = "pair" /\ h.next.setup # None ->
           Become(s, Calling([h EXCEPT !.seen = h.next], "getUpdates", h.token)) /\ UNCHANGED line
      [] h.cmd = "test" ->
           Become(s, [h EXCEPT !.at = "reporting"]) /\ Ask(s, "read", None)
      [] h.cmd \in RemovalCommands ->
           Become(s, [h EXCEPT !.at = "disabling", !.calm = TRUE]) /\ UNCHANGED line
      [] OTHER -> Ends(s) /\ UNCHANGED line

\* A setup that began after the removal of s was asked for.
NewerSetup(s) ==
    \E x \in Slots : slot[x].cmd \in SetupCommands /\ slot[x].gen > slot[s].gen

MutationDone(s) ==
    /\ slot[s].at = "storing" /\ Answered(s) /\ Answer
    /\ tail' = Tail(tail)
    /\ AfterMutation(s, slot[s])
    /\ revoked' = IF slot[s].cmd \in RemovalCommands THEN ~NewerSetup(s) ELSE revoked
    /\ UNCHANGED <<generation, quiet, lastWriter>>

\* Mutant: a mutation that was refused keeps its place in the queue.
StuckMutationFails(s) ==
    /\ slot[s].at \in {"comparing", "storing"} /\ Refused(s) /\ Answer
    /\ Become(s, IF slot[s].cmd = "revoke" THEN [slot[s] EXCEPT !.at = "disabling"] ELSE NoHandler)
    /\ UNCHANGED <<generation, tail, revoked, quiet, lastWriter, line>>

\* The store refused.  A withdrawn permission goes on to the watches all the same.
MutationFails(s) ==
    /\ slot[s].at \in {"comparing", "storing"} /\ Refused(s) /\ Answer
    /\ tail' = Tail(tail)
    /\ Become(s, IF slot[s].cmd = "revoke" THEN [slot[s] EXCEPT !.at = "disabling"] ELSE NoHandler)
    /\ UNCHANGED <<generation, revoked, quiet, lastWriter, line>>

\* The store goes on with the call it serves (and the ghosts take note of it).
StoreWorks ==
    /\ SecretsStep
    /\ IF job.at = "seal" /\ Connected(job.value)
       THEN /\ quiet' = FALSE
            /\ slot' = [s \in Slots |-> [slot[s] EXCEPT !.calm = FALSE]]
       ELSE UNCHANGED <<quiet, slot>>
    /\ lastWriter' = IF job.at = "seal" /\ job.op = "write" THEN slot[job.who].gen ELSE lastWriter
    /\ UNCHANGED <<generation, tail, revoked>>

StoreRejects ==
    /\ Reject
    /\ UNCHANGED controllerVars

-------------------------------------------------------------------------------
ControllerInit ==
    /\ SecretsInit
    /\ generation = 0
    /\ slot = [s \in Slots |-> NoHandler]
    /\ tail = <<>>
    /\ revoked = FALSE /\ quiet = FALSE
    /\ lastWriter = 0

\* What the controller does by itself.
ControllerStep(s) ==
    \/ ProviderAccepts(s) \/ ProviderFails(s) \/ ProviderLimits(s) \/ ProviderIsBusy(s)
    \/ WakesUp(s)
    \/ StateRead(s) \/ StateUnreadable(s) \/ StatusReported(s)
    \/ StartMutation(s) \/ Compared(s) \/ MutationDone(s) \/ MutationFails(s)

\* The worker dies with everything that is not stored.
ControllerDie ==
    /\ SecretsDie
    /\ generation' = 0 /\ lastWriter' = 0
    /\ slot' = [s \in Slots |-> NoHandler]
    /\ tail' = <<>>
    /\ UNCHANGED <<revoked, quiet>>

===============================================================================
