-------------------------- MODULE LocalRuntimeProofs --------------------------
(***************************************************************************)
(* What is stored about Telegram, for any set of tokens, any number of     *)
(* handlers and any bounds: the controller and the runtime use the store   *)
(* as TelegramSecrets expects, so its two results hold of the whole        *)
(* extension, a disconnect that was acknowledged stays, and with it the    *)
(* watches stay off Telegram.                                              *)
(***************************************************************************)
EXTENDS LocalRuntime, TelegramSecretsProofs

(* The inductive invariant.                                                *)

\* A handler by its fields.
Stations == {"idle", "calling", "sleeping", "reading", "reporting", "queued", "comparing",
             "storing", "disabling", "waiting", "gating", "saving"}

Handlers ==
    [cmd : TelegramCommands \cup WatchCommands \cup {None}, at : Stations,
     gen : Nat, token : Token,
     ask : {"getMe", "getWebhookInfo", "getUpdates", "sendMessage", None},
     tries : Nat, seen : Record, next : Record, accepted : BOOLEAN,
     want : WatchStates \cup {None}, calm : BOOLEAN]

\* The stations at which a handler waits for the store, and the call it waits for.
Waiting == {"reading", "reporting", "comparing", "storing", "gating"}

WantedOp(h) ==
    IF h.at # "storing" THEN "read" ELSE IF h.next = None THEN "remove" ELSE "write"

Mutating == {"comparing", "storing"}

\* The stations in the queue of watch mutations, and those before.
Watching == {"waiting", "gating", "saving"}
Watchers == Watching \cup {"idle", "disabling"}

IsSetup(h)   == h.at # "idle" /\ h.cmd \in SetupCommands
IsRemoval(h) == h.at # "idle" /\ h.cmd \in RemovalCommands

\* What a handler knows at each station: a setup and a call to the provider have
\* their token, a removal writes nothing and compares nothing, and the other
\* commands go on only with a state that they have read.
Sound(h) ==
    /\ h \in Handlers
    /\ h.at \in {"calling", "sleeping"} \/ IsSetup(h) => h.token # None
    /\ h.at = "calling" => h.ask \in {"getMe", "getWebhookInfo", "getUpdates", "sendMessage"}
    /\ IsRemoval(h) => h.next = None /\ h.at \notin {"calling", "sleeping", "reading", "comparing"}
    /\ h.at \in {"calling", "sleeping", "queued", "comparing", "storing"}
          => IsSetup(h) \/ IsRemoval(h) \/ h.seen # None

HandlersSound == slot \in [Slots -> Handlers] /\ \A s \in Slots : Sound(slot[s])

\* The calls in the store are those that the handlers wait for, one each.
CallsOwned ==
    /\ \A i \in 1 .. Len(line) :
          /\ slot[line[i].who].at \in Waiting
          /\ line[i].op = WantedOp(slot[line[i].who])
    /\ \A i, j \in 1 .. Len(line) : line[i].who = line[j].who => i = j
    /\ job # NoJob => /\ slot[job.who].at \in Waiting
                      /\ job.op = WantedOp(slot[job.who])
                      /\ \A i \in 1 .. Len(line) : line[i].who # job.who

\* Only the first of the queue compares or stores.
OneMutates ==
    /\ tail \in Seq(Slots)
    /\ \A s \in Slots : slot[s].at \in Mutating => tail # <<>> /\ Head(tail) = s

\* Each setup and each removal has a generation of its own.
GenerationsDiffer ==
    /\ generation \in Nat
    /\ \A s \in Slots : slot[s].gen <= generation
    /\ \A s, x \in Slots : /\ IsSetup(slot[s]) \/ IsRemoval(slot[s])
                           /\ IsSetup(slot[x]) \/ IsRemoval(slot[x])
                           /\ s # x
                           => slot[s].gen # slot[x].gen

\* After a disconnect nothing is stored, and nobody is left who could store.
NothingReturns ==
    revoked =>
        /\ disk.enc = None /\ disk.legacy = None
        /\ \A i \in 1 .. Len(line) : line[i].op # "write"
        /\ job.op # "write"
        /\ job.op = "read" => job.value = None
        /\ \A s \in Slots : IsSetup(slot[s]) =>
              slot[s].gen # generation /\ slot[s].at \notin Mutating

RInv == /\ SInv /\ HandlersSound /\ CallsOwned /\ OneMutates /\ GenerationsDiffer
        /\ NothingReturns /\ revoked \in BOOLEAN
\* What a handler does in one step: it answers for what it knows, hears of its
\* call or has none, begins the one it waits for next, and leaves the queue alone,
\* joins it, or gives its place up.
HandlerMoves(s) ==
    LET g == slot[s]
        h == slot'[s]
    IN /\ slot' = [slot EXCEPT ![s] = h]
       /\ Sound(h)
       /\ generation' = generation /\ disk' = disk
       /\ h.gen <= generation
       /\ IsSetup(h) => IsSetup(g) /\ h.gen = g.gen
       /\ IsRemoval(h) => IsRemoval(g) /\ h.gen = g.gen
       /\ \/ g.at \notin Waiting /\ job' = job
          \/ job.who = s /\ job.at \in {"answer", "failed"} /\ job' = NoJob
       /\ \/ h.at \notin Waiting /\ line' = line
          \/ h.at \in Waiting /\ WantedOp(h) # "write" /\ Ask(s, WantedOp(h), None)
          \/ /\ h.at = "storing" /\ WantedOp(h) = "write" /\ Ask(s, "write", h.next)
             /\ g.at = "comparing" /\ job.at = "answer" /\ job' = NoJob /\ job.value = h.seen
       /\ \/ tail' = tail /\ (h.at \in Mutating => Serves(s))
          \/ tail' = Append(tail, s) /\ h.at \notin Mutating
          \/ tail' = Tail(tail) /\ h.at \notin Mutating /\ Serves(s)
       /\ h.at \in Mutating
            => /\ h.gen = g.gen /\ h.cmd = g.cmd
               /\ g.at \in Mutating \/ IsRemoval(g) \/ IsCurrent(g)
       /\ h.at \in Watching => g.at \in Watchers
       /\ h.calm => g.calm \/ MutationDone(s)

\* The calls that the handlers ask for.
LEMMA CallTypes ==
    /\ \A s \in Slots, op \in {"read", "remove"} :
          Call(s, op, None) \in Calls /\ Call(s, op, None).op = op /\ Call(s, op, None).who = s
    /\ \A s \in Slots, v \in StoredStates :
          Call(s, "write", v) \in Calls /\ Call(s, "write", v).op = "write" /\ Call(s, "write", v).who = s
BY StatesAssumption DEF Calls, Call

LEMMA MovesAreStoreSteps ==
    ASSUME RInv, NEW s \in Slots, HandlerMoves(s)
    PROVE  Others
<1> DEFINE h == slot'[s]
<1>1. Answer \/ UNCHANGED <<disk, job>>
  BY DEF HandlerMoves, Answer
<1>2. CASE line' = line
  BY <1>1, <1>2 DEF Others
<1>3. CASE WantedOp(h) # "write" /\ Ask(s, WantedOp(h), None)
  <2>1. WantedOp(h) \in {"read", "remove"}
    BY <1>3 DEF WantedOp
  <2>2. PICK c \in Calls : c = Call(s, WantedOp(h), None) /\ c.op # "write"
    BY <1>3, <2>1, CallTypes
  <2>3. Ask(c.who, c.op, c.value)
    BY <2>2, <1>3 DEF Ask, Call
  <2>4. QED
    BY <1>1, <2>2, <2>3 DEF Others
<1>4. CASE /\ h.at = "storing" /\ WantedOp(h) = "write" /\ Ask(s, "write", h.next)
           /\ job.at = "answer" /\ job' = NoJob
  <2>1. h.next \in StoredStates
    BY <1>4 DEF HandlerMoves, Sound, Handlers, WantedOp, Record
  <2>2. PICK c \in Calls : c = Call(s, "write", h.next)
    BY <2>1, CallTypes
  <2>3. Ask(c.who, c.op, c.value)
    BY <2>2, <1>4 DEF Ask, Call
  <2>4. QED
    BY <1>1, <1>4, <2>2, <2>3 DEF Others
<1>5. QED
  BY <1>2, <1>3, <1>4 DEF HandlerMoves

LEMMA MovesKeepHandlers ==
    ASSUME RInv, NEW s \in Slots, HandlerMoves(s)
    PROVE  HandlersSound' /\ GenerationsDiffer'
<1>1. /\ slot \in [Slots -> Handlers] /\ slot'[s] \in Handlers
      /\ slot' = [slot EXCEPT ![s] = slot'[s]]
      /\ \A x \in Slots : Sound(slot[x])
  BY DEF RInv, HandlersSound, HandlerMoves, Sound
<1>2. slot' \in [Slots -> Handlers] /\ \A x \in Slots \ {s} : slot'[x] = slot[x]
  BY <1>1
<1>3. HandlersSound'
  BY <1>1, <1>2 DEF HandlersSound, HandlerMoves
<1>4. GenerationsDiffer'
  BY <1>1, <1>2 DEF GenerationsDiffer, HandlerMoves, RInv
<1>5. QED
  BY <1>3, <1>4

LEMMA MovesKeepQueue ==
    ASSUME RInv, NEW s \in Slots, HandlerMoves(s)
    PROVE  OneMutates'
<1>1. /\ tail \in Seq(Slots)
      /\ \A x \in Slots : slot[x].at \in Mutating => tail # <<>> /\ Head(tail) = x
      /\ \A x \in Slots \ {s} : slot'[x] = slot[x]
  BY DEF RInv, OneMutates, HandlerMoves, HandlersSound
<1>2. CASE tail' = tail /\ (slot'[s].at \in Mutating => Serves(s))
  BY <1>1, <1>2 DEF OneMutates, Serves
<1>3. CASE tail' = Append(tail, s) /\ slot'[s].at \notin Mutating
  <2>1. tail' \in Seq(Slots) /\ tail' # <<>> /\ (tail # <<>> => Head(tail') = Head(tail))
    BY <1>1, <1>3
  <2>2. QED
    BY <1>1, <1>3, <2>1 DEF OneMutates
<1>4. CASE tail' = Tail(tail) /\ slot'[s].at \notin Mutating /\ Serves(s)
  <2>1. tail' \in Seq(Slots)
    BY <1>1, <1>4 DEF Serves
  <2>2. \A x \in Slots : slot'[x].at \notin Mutating
    BY <1>1, <1>4 DEF Serves
  <2>3. QED
    BY <2>1, <2>2 DEF OneMutates
<1>5. QED
  BY <1>2, <1>3, <1>4 DEF HandlerMoves

\* The line is a sequence of calls of known handlers.
LEMMA LineTypes ==
    ASSUME RInv
    PROVE  /\ line \in Seq(Calls) /\ Len(line) \in Nat
           /\ \A i \in 1 .. Len(line) : line[i] \in Calls /\ line[i].who \in Slots
           /\ job # NoJob => job.who \in Slots /\ job.op \in {"read", "write", "remove"}
           /\ job # NoJob <=> job.at # "idle"
BY DEF RInv, SInv, TypeInv, Calls, Jobs, NoJob, Stages

LEMMA MovesKeepCalls ==
    ASSUME RInv, NEW s \in Slots, HandlerMoves(s)
    PROVE  CallsOwned'
<1> DEFINE h == slot'[s]
<1>1. /\ \A x \in Slots \ {s} : slot'[x] = slot[x]
      /\ job' = job \/ job' = NoJob
      /\ CallsOwned
  BY DEF RInv, HandlersSound, HandlerMoves
<1>2. /\ \A i \in 1 .. Len(line) : line[i].who # s
      /\ job' # NoJob => job' = job /\ job.who # s
  <2>1. CASE slot[s].at \notin Waiting /\ job' = job
    BY <2>1, <1>1 DEF CallsOwned
  <2>2. CASE job.who = s /\ job.at \in {"answer", "failed"} /\ job' = NoJob
    <3>1. job # NoJob
      BY <2>2 DEF NoJob
    <3>2. QED
      BY <2>2, <3>1, <1>1 DEF CallsOwned
  <2>3. QED
    BY <2>1, <2>2 DEF HandlerMoves
<1>3. CASE line' = line
  <2>1. \A i \in 1 .. Len(line) : line[i].who \in Slots \ {s}
    BY <1>2, LineTypes
  <2>2. job' # NoJob => job' = job /\ job.who \in Slots \ {s}
    BY <1>2, LineTypes
  <2>3. QED
    BY <1>1, <1>3, <2>1, <2>2 DEF CallsOwned, WantedOp
<1>4. ASSUME NEW v \in Record, Ask(s, WantedOp(h), v), h.at \in Waiting
      PROVE  CallsOwned'
  <2> DEFINE c == Call(s, WantedOp(h), v)
  <2>1. c.who = s /\ c.op = WantedOp(h)
    BY DEF Call
  <2>2. /\ Len(line) \in Nat /\ Len(line') = Len(line) + 1
        /\ \A i \in 1 .. Len(line) : line'[i] = line[i]
        /\ line'[Len(line) + 1] = c
        /\ \A i \in 1 .. Len(line') : i \in 1 .. Len(line) \/ i = Len(line) + 1
    BY <1>4, LineTypes DEF Ask
  <2>3. \A i \in 1 .. Len(line) : line[i].who \in Slots \ {s}
    BY <1>2, LineTypes
  <2>4. job' # NoJob => job' = job /\ job.who \in Slots \ {s}
    BY <1>2, LineTypes
  <2>5. \A i \in 1 .. Len(line') :
           slot'[line'[i].who].at \in Waiting /\ line'[i].op = WantedOp(slot'[line'[i].who])
    BY <1>1, <1>4, <2>1, <2>2, <2>3 DEF CallsOwned, WantedOp
  <2>6. \A i, j \in 1 .. Len(line') : line'[i].who = line'[j].who => i = j
    BY <1>1, <2>1, <2>2, <2>3 DEF CallsOwned
  <2>7. job' # NoJob => /\ slot'[job'.who].at \in Waiting
                        /\ job'.op = WantedOp(slot'[job'.who])
                        /\ \A i \in 1 .. Len(line') : line'[i].who # job'.who
    BY <1>1, <2>1, <2>2, <2>3, <2>4 DEF CallsOwned, WantedOp
  <2>8. QED
    BY <2>5, <2>6, <2>7 DEF CallsOwned
<1>5. None \in Record /\ h.next \in Record
  BY DEF HandlerMoves, Sound, Handlers, Record
<1>6. "storing" \in Waiting
  BY DEF Waiting
<1>7. QED
  BY <1>3, <1>4, <1>5, <1>6 DEF HandlerMoves

\* After a disconnect no handler gets as far as a write.
LEMMA MovesKeepNothing ==
    ASSUME RInv, NEW s \in Slots, HandlerMoves(s), revoked' = revoked
    PROVE  NothingReturns'
<1> SUFFICES ASSUME revoked
             PROVE  NothingReturns'
  BY DEF NothingReturns
<1> DEFINE g == slot[s]  h == slot'[s]
<1>1. /\ \A x \in Slots \ {s} : slot'[x] = slot[x]
      /\ disk' = disk /\ generation' = generation
      /\ disk.enc = None /\ disk.legacy = None
      /\ \A i \in 1 .. Len(line) : line[i].op # "write"
      /\ job.op # "write" /\ (job.op = "read" => job.value = None)
      /\ \A x \in Slots : IsSetup(slot[x]) => slot[x].gen # generation /\ slot[x].at \notin Mutating
  BY DEF RInv, NothingReturns, HandlersSound, HandlerMoves
<1>2. IsSetup(h) => h.gen # generation /\ h.at \notin Mutating
  <2>1. SUFFICES ASSUME IsSetup(h) PROVE h.gen # generation /\ h.at \notin Mutating
    OBVIOUS
  <2>2. IsSetup(g) /\ h.gen = g.gen /\ ~IsRemoval(g)
    BY <2>1 DEF HandlerMoves, IsSetup, IsRemoval, SetupCommands, RemovalCommands
  <2>3. QED
    BY <2>2, <1>1 DEF HandlerMoves, IsCurrent
<1>3. job'.op # "write" /\ (job'.op = "read" => job'.value = None)
  <2>1. NoJob.op # "write" /\ NoJob.value = None
    BY SecretsConstants DEF NoJob
  <2>2. QED
    BY <2>1, <1>1 DEF HandlerMoves
<1>4. \A i \in 1 .. Len(line') : line'[i].op # "write"
  <2>1. CASE line' = line
    BY <2>1, <1>1
  <2>2. CASE WantedOp(h) # "write" /\ Ask(s, WantedOp(h), None)
    <3>1. Call(s, WantedOp(h), None).op # "write"
      BY <2>2 DEF Call
    <3>2. /\ Len(line) \in Nat /\ Len(line') = Len(line) + 1
          /\ \A i \in 1 .. Len(line) : line'[i] = line[i]
          /\ line'[Len(line) + 1] = Call(s, WantedOp(h), None)
          /\ \A i \in 1 .. Len(line') : i \in 1 .. Len(line) \/ i = Len(line) + 1
      BY <2>2, LineTypes DEF Ask
    <3>3. QED
      BY <3>1, <3>2, <1>1
  <2>3. CASE /\ h.at = "storing" /\ WantedOp(h) = "write"
             /\ g.at = "comparing" /\ job.at = "answer" /\ job' = NoJob /\ job.value = h.seen
    <3>1. h.next # None /\ ~IsRemoval(h)
      BY <2>3 DEF WantedOp, HandlerMoves, Sound
    <3>2. ~IsSetup(h)
      BY <2>3, <1>2 DEF Mutating
    <3>3. h.seen # None
      BY <2>3, <3>1, <3>2 DEF HandlerMoves, Sound
    <3>4. job # NoJob /\ job.who = s
      BY <2>3, LineTypes DEF HandlerMoves, Waiting
    <3>5. job.op = "read"
      BY <2>3, <3>4 DEF RInv, CallsOwned, WantedOp
    <3>6. QED
      BY <2>3, <3>3, <3>5, <1>1
  <2>4. QED
    BY <2>1, <2>2, <2>3 DEF HandlerMoves
<1>5. QED
  BY <1>1, <1>2, <1>3, <1>4 DEF NothingReturns

LEMMA MovesKeepRInv ==
    ASSUME RInv, NEW s \in Slots, HandlerMoves(s), NothingReturns', revoked' \in BOOLEAN
    PROVE  RInv' /\ SecretsNext
<1>1. SecretsNext
  BY MovesAreStoreSteps DEF SecretsNext, Others
<1>2. SInv'
  BY <1>1, StepKeepsSInv DEF RInv
<1>3. QED
  BY <1>1, <1>2, MovesKeepHandlers, MovesKeepQueue, MovesKeepCalls DEF RInv

-------------------------------------------------------------------------------
(* The steps of the handlers.                                              *)

\* A handler by its fields.
LEMMA HandlerTypes ==
    /\ NoHandler \in Handlers /\ Sound(NoHandler)
    /\ NoHandler.at = "idle" /\ NoHandler.gen = 0 /\ ~NoHandler.calm
    /\ ~IsSetup(NoHandler) /\ ~IsRemoval(NoHandler)
<1>1. NoHandler \in Handlers
  BY DEF NoHandler, Handlers, Stations, Token, Record
<1>2. NoHandler.at = "idle" /\ NoHandler.gen = 0 /\ ~NoHandler.calm
  BY DEF NoHandler
<1>3. QED
  BY <1>1, <1>2 DEF Sound, IsSetup, IsRemoval

LEMMA NewHandler ==
    ASSUME NEW cmd \in TelegramCommands \cup WatchCommands, NEW at \in Stations, NEW gen \in Nat,
           NEW token \in Token
    PROVE  /\ Handler(cmd, at, gen, token) \in Handlers
           /\ Handler(cmd, at, gen, token).cmd = cmd
           /\ Handler(cmd, at, gen, token).at = at
           /\ Handler(cmd, at, gen, token).gen = gen
           /\ Handler(cmd, at, gen, token).token = token
           /\ Handler(cmd, at, gen, token).next = None
           /\ ~Handler(cmd, at, gen, token).calm
<1>1. Handler(cmd, at, gen, token) \in Handlers
  BY HandlerTypes DEF Handler, Handlers
<1>2. QED
  BY <1>1 DEF Handler, NoHandler

LEMMA Known ==
    ASSUME RInv, NEW s \in Slots
    PROVE  /\ slot[s] \in Handlers /\ Sound(slot[s])
           /\ slot[s].gen \in Nat /\ slot[s].gen <= generation /\ generation \in Nat
           /\ slot[s].seen \in Record /\ slot[s].next \in Record /\ slot[s].token \in Token
BY DEF RInv, HandlersSound, GenerationsDiffer, Handlers

LEMMA Became ==
    ASSUME RInv, NEW s \in Slots, NEW h, Become(s, h)
    PROVE  slot' = [slot EXCEPT ![s] = slot'[s]] /\ slot'[s] = h
BY DEF RInv, HandlersSound, Become

\* A handler that ends leaves nothing behind.
LEMMA EndsMoves ==
    ASSUME RInv, NEW s \in Slots, Ends(s), line' = line,
           UNCHANGED <<generation, disk>>,
           \/ slot[s].at \notin Waiting /\ job' = job
           \/ job.who = s /\ job.at \in {"answer", "failed"} /\ job' = NoJob,
           tail' = tail \/ (tail' = Tail(tail) /\ Serves(s))
    PROVE  HandlerMoves(s)
<1>1. slot' = [slot EXCEPT ![s] = slot'[s]] /\ slot'[s] = NoHandler
  BY Became DEF Ends
<1>2. "idle" \notin Waiting /\ "idle" \notin Mutating /\ "idle" \notin Watching
  BY DEF Waiting, Mutating, Watching
<1>3. 0 <= generation
  BY DEF RInv, GenerationsDiffer
<1>4. QED
  BY <1>1, <1>2, <1>3, HandlerTypes DEF HandlerMoves

\* A command that begins by reading what is stored.
LEMMA BeginWithStateMoves ==
    ASSUME RInv, NEW s \in Slots, NEW cmd, slot[s].at = "idle", BeginWithState(s, cmd)
    PROVE  HandlerMoves(s)
<1> DEFINE h == slot'[s]
<1>1. PICK a \in {"reporting", "reading"} : Become(s, Handler(cmd, a, generation, None))
  BY DEF BeginWithState
<1>2. slot' = [slot EXCEPT ![s] = h] /\ h = Handler(cmd, a, generation, None)
  BY <1>1, Became
<1>3. cmd \in {"pairSaved", "confirm", "test", "send", "status"}
  BY DEF BeginWithState, PairingCommands
<1>4. h.cmd = cmd /\ h.at = a /\ h.gen = generation /\ ~h.calm
  BY <1>2 DEF Handler, NoHandler
<1>5. h \in Handlers
  <2>1. cmd \in TelegramCommands \cup WatchCommands /\ a \in Stations /\ None \in Token
    BY <1>3 DEF Stations, Token, TelegramCommands, PairingCommands
  <2>2. QED
    BY <1>2, <2>1, Known, NewHandler
<1>6. ~IsSetup(h) /\ ~IsRemoval(h)
  BY <1>3, <1>4 DEF IsSetup, IsRemoval, SetupCommands, RemovalCommands
<1>7. Sound(h)
  BY <1>4, <1>5, <1>6 DEF Sound
<1>8. h.at \in Waiting /\ WantedOp(h) = "read" /\ h.at \notin Mutating /\ h.at \notin Watching /\ slot[s].at \notin Waiting
  BY <1>4 DEF Waiting, WantedOp, Mutating, Watching
<1>9. h.gen <= generation
  BY <1>4, Known
<1>10. QED
  BY <1>2, <1>4, <1>6, <1>7, <1>8, <1>9 DEF BeginWithState, HandlerMoves

\* A handler that has heard of its call, or had none.
Heard(s) ==
    \/ slot[s].at \notin Waiting /\ job' = job
    \/ job.who = s /\ job.at \in {"answer", "failed"} /\ job' = NoJob

\* A handler that goes on, and asks for what is stored if it waits for that next.
LEMMA GoesOnMoves ==
    ASSUME RInv, NEW s \in Slots, slot[s].at # "idle",
           NEW h \in Handlers, Become(s, h), Sound(h),
           h.cmd = slot[s].cmd, h.calm = slot[s].calm \/ MutationDone(s), h.gen = slot[s].gen, h.at \notin Mutating,
           h.at \notin Watching \/ slot[s].at \in Watchers,
           UNCHANGED <<generation, disk>>, Heard(s),
           \/ h.at \notin Waiting /\ line' = line
           \/ h.at \in Waiting /\ Ask(s, "read", None),
           tail' = tail \/ (tail' = Tail(tail) /\ Serves(s))
    PROVE  HandlerMoves(s)
<1>1. slot' = [slot EXCEPT ![s] = slot'[s]] /\ slot'[s] = h
  BY Became
<1>2. h.gen <= generation
  BY Known
<1>3. /\ IsSetup(h) => IsSetup(slot[s])
      /\ IsRemoval(h) => IsRemoval(slot[s])
  BY DEF IsSetup, IsRemoval
<1>4. WantedOp(h) = "read"
  BY DEF WantedOp, Mutating
<1>5. QED
  BY <1>1, <1>2, <1>3, <1>4 DEF HandlerMoves, Heard

\* A handler that has what it needs joins the queue with the state it means to store.
LEMMA EnqueueMoves ==
    ASSUME RInv, NEW s \in Slots, slot[s].at # "idle",
           NEW k \in Handlers, NEW v \in Record, Enqueue(s, k, v),
           k.cmd = slot[s].cmd, k.calm = slot[s].calm, k.gen = slot[s].gen, k.cmd \notin RemovalCommands,
           k.cmd \in SetupCommands => k.token # None,
           k.cmd \in SetupCommands \/ k.seen # None,
           UNCHANGED <<generation, disk, line>>, Heard(s)
    PROVE  HandlerMoves(s)
<1> DEFINE h == [k EXCEPT !.at = "queued", !.next = v]
<1>1. h \in Handlers
  BY DEF Handlers, Stations
<1>2. h.cmd = k.cmd /\ h.calm = k.calm /\ h.gen = k.gen /\ h.at = "queued" /\ h.seen = k.seen /\ h.token = k.token
  BY DEF Handlers
<1>3. Sound(h)
  BY <1>1, <1>2 DEF Sound, IsSetup, IsRemoval
<1>4. slot' = [slot EXCEPT ![s] = slot'[s]] /\ slot'[s] = h
  BY Became DEF Enqueue
<1>5. h.gen <= generation
  BY <1>2, Known
<1>6. /\ IsSetup(h) => IsSetup(slot[s])
      /\ ~IsRemoval(h)
  BY <1>2 DEF IsSetup, IsRemoval
<1>7. h.at \notin Waiting /\ h.at \notin Mutating /\ h.at \notin Watching
  BY <1>2 DEF Waiting, Mutating, Watching
<1>8. QED
  BY <1>2, <1>3, <1>4, <1>5, <1>6, <1>7 DEF HandlerMoves, Heard, Enqueue

\* A handler calls the provider, if it is still current.
LEMMA CallingMoves ==
    ASSUME RInv, NEW s \in Slots, slot[s].at # "idle",
           NEW k \in Handlers, NEW t \in Tokens,
           NEW ask \in {"getUpdates", "sendMessage"}, Become(s, Calling(k, ask, t)),
           k.cmd = slot[s].cmd, k.calm = slot[s].calm, k.gen = slot[s].gen, k.cmd \notin RemovalCommands,
           k.cmd \in SetupCommands \/ k.seen # None,
           UNCHANGED <<generation, disk, line>>, Heard(s),
           tail' = tail \/ (tail' = Tail(tail) /\ Serves(s))
    PROVE  HandlerMoves(s)
<1>1. CASE IsCurrent(k)
  <2> DEFINE h == [k EXCEPT !.at = "calling", !.ask = ask, !.token = t]
  <2>1. Become(s, h)
    BY <1>1 DEF Calling
  <2>2. h \in Handlers
    BY DEF Handlers, Stations, Token
  <2>3. h.cmd = k.cmd /\ h.calm = k.calm /\ h.gen = k.gen /\ h.at = "calling" /\ h.seen = k.seen /\ h.token = t
        /\ h.ask = ask
    BY DEF Handlers
  <2>4. Sound(h)
    BY <2>2, <2>3, SecretsConstants DEF Sound, IsSetup, IsRemoval
  <2>5. h.at \notin Waiting /\ h.at \notin Mutating /\ h.at \notin Watching
    BY <2>3 DEF Waiting, Mutating, Watching
  <2>6. QED
    BY <2>1, <2>2, <2>3, <2>4, <2>5, GoesOnMoves
<1>2. CASE ~IsCurrent(k)
  BY <1>2, EndsMoves DEF Calling, Ends, Heard
<1>3. QED
  BY <1>1, <1>2

LEMMA AfterDeliveryMoves ==
    ASSUME RInv, NEW s \in Slots, slot[s].at = "calling", slot[s].ask = "sendMessage",
           NEW k \in Handlers, AfterDelivery(s, k), k.cmd = slot[s].cmd, k.calm = slot[s].calm, k.gen = slot[s].gen,
           k.at = "calling", k.seen = slot[s].seen, k.token = slot[s].token, k.next = slot[s].next,
           k.ask = slot[s].ask,
           UNCHANGED <<generation, disk, job>>
    PROVE  HandlerMoves(s)
<1>1. /\ Heard(s) /\ k.token # None /\ k.token \in Tokens /\ slot[s].at # "idle"
      /\ slot[s].at \notin Waiting
  BY Known DEF Heard, Waiting, Sound, Token
<1>2. /\ k.cmd \in SetupCommands \/ k.seen # None
      /\ k.cmd \notin RemovalCommands
      /\ Stored(k.token, None, None) \in Record
  BY <1>1, Known DEF Sound, IsSetup, IsRemoval, Stored, StoredStates, Record, Token
<1>3. CASE k.cmd = "send"
  BY <1>1, <1>3, EndsMoves DEF AfterDelivery
<1>4. CASE k.cmd # "send" /\ Unpaired(k.seen) # None
  <2>1. Enqueue(s, k, Stored(k.token, None, None)) /\ line' = line
    BY <1>4 DEF AfterDelivery
  <2>2. QED
    BY <1>1, <1>2, <2>1, EnqueueMoves
<1>5. CASE k.cmd # "send" /\ Unpaired(k.seen) = None
  <2> DEFINE h == [k EXCEPT !.at = "reporting"]
  <2>1. Become(s, h) /\ Ask(s, "read", None) /\ tail' = tail
    BY <1>5 DEF AfterDelivery
  <2>2. h \in Handlers /\ h.cmd = k.cmd /\ h.calm = k.calm /\ h.gen = k.gen /\ h.at = "reporting" /\ h.token = k.token
    BY DEF Handlers, Stations
  <2>3. Sound(h)
    BY <1>1, <1>2, <2>2 DEF Sound, IsSetup, IsRemoval
  <2>4. h.at \in Waiting /\ h.at \notin Mutating /\ h.at \notin Watching
    BY <2>2 DEF Waiting, Mutating, Watching
  <2>5. QED
    BY <1>1, <2>1, <2>2, <2>3, <2>4, GoesOnMoves
<1>6. QED
  BY <1>3, <1>4, <1>5

\* The provider answers as hoped.
LEMMA ProviderAcceptsMoves ==
    ASSUME RInv, NEW s \in Slots, ProviderAccepts(s)
    PROVE  HandlerMoves(s)
<1> DEFINE g == slot[s]
<1>1. /\ g \in Handlers /\ Sound(g) /\ g.at = "calling" /\ AnswerOk(s)
      /\ UNCHANGED <<generation, disk, job>>
  BY Known DEF ProviderAccepts
<1>2. /\ Heard(s) /\ g.token # None /\ g.token \in Tokens /\ g.at # "idle"
      /\ g.ask \in {"getMe", "getWebhookInfo", "getUpdates", "sendMessage"}
  BY <1>1, Known DEF Heard, Waiting, Sound, Token
<1>3. /\ g.cmd \in SetupCommands \/ g.seen # None
      /\ g.cmd \notin RemovalCommands
      /\ Stored(g.token, None, None) \in Record
  BY <1>1, <1>2 DEF Sound, IsSetup, IsRemoval, Stored, StoredStates, Record, Token
<1>4. CASE g.ask = "getMe"
  <2> DEFINE h == [g EXCEPT !.ask = "getWebhookInfo"]
  <2>1. Become(s, h) /\ tail' = tail /\ line' = line
    BY <1>1, <1>4 DEF AnswerOk
  <2>2. h \in Handlers /\ h.cmd = g.cmd /\ h.calm = g.calm /\ h.gen = g.gen /\ h.at = "calling" /\ h.token = g.token
        /\ h.ask = "getWebhookInfo" /\ h.seen = g.seen /\ h.next = g.next
    BY <1>1 DEF Handlers
  <2>3. Sound(h)
    BY <1>1, <1>2, <2>2 DEF Sound, IsSetup, IsRemoval
  <2>4. h.at \notin Waiting /\ h.at \notin Mutating /\ h.at \notin Watching
    BY <2>2 DEF Waiting, Mutating, Watching
  <2>5. QED
    BY <1>1, <1>2, <2>1, <2>2, <2>3, <2>4, GoesOnMoves
<1>5. CASE g.ask = "getWebhookInfo"
  <2> DEFINE h == [g EXCEPT !.at = "reading"]
  <2>1. Become(s, h) /\ Ask(s, "read", None) /\ tail' = tail
    BY <1>1, <1>5 DEF AnswerOk
  <2>2. h \in Handlers /\ h.cmd = g.cmd /\ h.calm = g.calm /\ h.gen = g.gen /\ h.at = "reading" /\ h.token = g.token
    BY <1>1 DEF Handlers, Stations
  <2>3. Sound(h)
    BY <1>2, <1>3, <2>2 DEF Sound, IsSetup, IsRemoval
  <2>4. h.at \in Waiting /\ h.at \notin Mutating /\ h.at \notin Watching
    BY <2>2 DEF Waiting, Mutating, Watching
  <2>5. QED
    BY <1>1, <1>2, <2>1, <2>2, <2>3, <2>4, GoesOnMoves
<1>6. CASE g.ask = "getUpdates" /\ g.cmd = "test"
  <2> DEFINE h == [g EXCEPT !.ask = "sendMessage", !.tries = 1]
  <2>1. Become(s, h) /\ tail' = tail /\ line' = line
    BY <1>1, <1>6 DEF AnswerOk
  <2>2. h \in Handlers /\ h.cmd = g.cmd /\ h.calm = g.calm /\ h.gen = g.gen /\ h.at = "calling" /\ h.token = g.token
        /\ h.ask = "sendMessage" /\ h.seen = g.seen /\ h.next = g.next
    BY <1>1 DEF Handlers
  <2>3. Sound(h)
    BY <1>1, <1>2, <2>2 DEF Sound, IsSetup, IsRemoval
  <2>4. h.at \notin Waiting /\ h.at \notin Mutating /\ h.at \notin Watching
    BY <2>2 DEF Waiting, Mutating, Watching
  <2>5. QED
    BY <1>1, <1>2, <2>1, <2>2, <2>3, <2>4, GoesOnMoves
<1>7. CASE g.ask = "getUpdates" /\ g.cmd # "test"
  <2>1. Enqueue(s, g, Stored(g.token, None, None)) /\ line' = line
    BY <1>1, <1>7 DEF AnswerOk
  <2>2. QED
    BY <1>1, <1>2, <1>3, <2>1, EnqueueMoves
<1>8. CASE g.ask = "sendMessage"
  <2> DEFINE k == [g EXCEPT !.accepted = TRUE]
  <2>1. AfterDelivery(s, k)
    BY <1>1, <1>8 DEF AnswerOk
  <2>2. k \in Handlers /\ k.cmd = g.cmd /\ k.calm = g.calm /\ k.gen = g.gen /\ k.at = g.at /\ k.token = g.token
        /\ k.ask = g.ask /\ k.seen = g.seen /\ k.next = g.next
    BY <1>1 DEF Handlers
  <2>3. QED
    BY <1>1, <1>8, <2>1, <2>2, AfterDeliveryMoves
<1>9. QED
  BY <1>2, <1>4, <1>5, <1>6, <1>7, <1>8

\* The provider limits, fails or asks to try again.
LEMMA ProviderLimitsMoves ==
    ASSUME RInv, NEW s \in Slots, ProviderLimits(s)
    PROVE  HandlerMoves(s)
BY Known, AfterDeliveryMoves DEF ProviderLimits

LEMMA ProviderFailsMoves ==
    ASSUME RInv, NEW s \in Slots, ProviderFails(s)
    PROVE  HandlerMoves(s)
<1>1. slot[s].at \notin Waiting
  BY DEF ProviderFails, Waiting
<1>2. QED
  BY <1>1, EndsMoves DEF ProviderFails, secretVars

LEMMA ProviderIsBusyMoves ==
    ASSUME RInv, NEW s \in Slots, ProviderIsBusy(s)
    PROVE  HandlerMoves(s)
<1> DEFINE g == slot[s]  h == [g EXCEPT !.at = "sleeping"]
<1>1. /\ g \in Handlers /\ Sound(g) /\ g.at = "calling" /\ g.at # "idle" /\ g.at \notin Waiting
      /\ Heard(s) /\ UNCHANGED <<generation, disk, tail, line, job>>
  BY Known DEF ProviderIsBusy, secretVars, Waiting, Heard
<1>2. CASE Become(s, h)
  <2>1. h \in Handlers /\ h.cmd = g.cmd /\ h.calm = g.calm /\ h.gen = g.gen /\ h.at = "sleeping" /\ h.token = g.token
        /\ h.seen = g.seen /\ h.next = g.next
    BY <1>1 DEF Handlers, Stations
  <2>2. Sound(h)
    BY <1>1, <2>1 DEF Sound, IsSetup, IsRemoval
  <2>3. h.at \notin Waiting /\ h.at \notin Mutating /\ h.at \notin Watching
    BY <2>1 DEF Waiting, Mutating, Watching
  <2>4. QED
    BY <1>1, <1>2, <2>1, <2>2, <2>3, GoesOnMoves
<1>3. CASE Ends(s)
  BY <1>1, <1>3, EndsMoves
<1>4. QED
  BY <1>2, <1>3 DEF ProviderIsBusy

LEMMA WakesUpMoves ==
    ASSUME RInv, NEW s \in Slots, WakesUp(s)
    PROVE  HandlerMoves(s)
<1> DEFINE g == slot[s]  k == [g EXCEPT !.tries = 2]
<1>1. /\ g \in Handlers /\ Sound(g) /\ g.at = "sleeping" /\ g.at # "idle" /\ g.at \notin Waiting
      /\ Heard(s) /\ UNCHANGED <<generation, disk, tail, line, job>>
      /\ Become(s, Calling(k, "sendMessage", g.token))
  BY Known DEF WakesUp, secretVars, Waiting, Heard
<1>2. /\ g.token # None /\ g.token \in Tokens /\ g.cmd \notin RemovalCommands
      /\ g.cmd \in SetupCommands \/ g.seen # None
  BY <1>1, Known DEF Sound, Token, IsSetup, IsRemoval
<1>3. k \in Handlers /\ k.cmd = g.cmd /\ k.calm = g.calm /\ k.gen = g.gen /\ k.seen = g.seen
  BY <1>1 DEF Handlers
<1>4. QED
  BY <1>1, <1>2, <1>3, CallingMoves

\* Answers of the store.
LEMMA StateReadMoves ==
    ASSUME RInv, NEW s \in Slots, StateRead(s)
    PROVE  HandlerMoves(s)
<1> DEFINE g == slot[s]  v == job.value  k == [g EXCEPT !.seen = v]
<1>1. /\ g \in Handlers /\ Sound(g) /\ g.at = "reading" /\ g.at # "idle" /\ g.gen = g.gen
      /\ Heard(s) /\ UNCHANGED <<generation, disk, line>> /\ WithState(s, k, v)
  BY Known DEF StateRead, Heard, Answered, Answer
<1>2. v \in Record
  BY <1>1, ServedJob DEF StateRead, Answered, RInv, SInv
<1>3. k \in Handlers /\ k.cmd = g.cmd /\ k.calm = g.calm /\ k.gen = g.gen /\ k.seen = v /\ k.token = g.token
      /\ k.at = "reading"
  BY <1>1, <1>2 DEF Handlers
<1>4. /\ g.cmd \notin RemovalCommands
      /\ g.cmd \in SetupCommands => k.token # None /\ k.token \in Tokens
  BY <1>1, <1>3, Known DEF Sound, IsSetup, IsRemoval, Token
<1>5. CASE g.cmd \in SetupCommands /\ IsCurrent(k)
  <2>1. Enqueue(s, k, SetupState(k, v))
    BY <1>1, <1>3, <1>5 DEF WithState, SetupCommands
  <2>2. SetupState(k, v) \in Record
    BY <1>2, <1>4, <1>5 DEF SetupState, Stored, StoredStates, Record, Token
  <2>3. QED
    BY <1>1, <1>3, <1>4, <1>5, <2>1, <2>2, EnqueueMoves
<1>6. CASE g.cmd = "confirm" /\ v # None /\ v.pending # None
  <2>1. v \in StoredStates /\ v.pending \in Tokens
    BY <1>2, <1>6 DEF Record, StoredStates, Token
  <2>2. CASE Enqueue(s, k, WithoutPairing(v))
    <3>1. WithoutPairing(v) \in Record
      BY <2>1 DEF WithoutPairing, Stored, StoredStates, Record, Token
    <3>2. QED
      BY <1>1, <1>3, <1>4, <1>6, <2>2, <3>1, EnqueueMoves
  <2>3. CASE Become(s, Calling(k, "getUpdates", v.pending)) /\ tail' = tail
    BY <1>1, <1>3, <1>4, <1>6, <2>1, <2>3, CallingMoves
  <2>4. QED
    BY <1>1, <1>3, <1>6, <2>2, <2>3 DEF WithState, SetupCommands
<1>7. CASE g.cmd \in {"pairSaved", "test"} /\ Unpaired(v) # None
  <2>1. v # None /\ Unpaired(v) \in Tokens
    BY <1>2, <1>7 DEF Record, StoredStates, Token, Unpaired
  <2>2. Become(s, Calling(k, "getUpdates", Unpaired(v))) /\ tail' = tail
    BY <1>1, <1>3, <1>7 DEF WithState, SetupCommands
  <2>3. QED
    BY <1>1, <1>3, <1>4, <1>7, <2>1, <2>2, CallingMoves
<1>8. CASE \/ g.cmd = "test" /\ v # None /\ Unpaired(v) = None
           \/ g.cmd = "send" /\ v # None /\ v.active # None /\ v.setup = None
  <2> DEFINE q == [k EXCEPT !.tries = 1]
  <2>1. v.active \in Tokens
    BY <1>2, <1>8 DEF Record, StoredStates, Token, Unpaired
  <2>2. Become(s, Calling(q, "sendMessage", v.active)) /\ tail' = tail
    <3>1. /\ ~(k.cmd \in SetupCommands /\ IsCurrent(k))
          /\ ~(k.cmd = "confirm" /\ v # None /\ v.pending # None)
          /\ ~(k.cmd \in {"pairSaved", "test"} /\ Unpaired(v) # None)
          /\ \/ k.cmd = "test" /\ v # None /\ Unpaired(v) = None
             \/ k.cmd = "send" /\ v # None /\ v.active # None /\ v.setup = None
      BY <1>3, <1>8 DEF SetupCommands
    <3>2. QED
      BY <1>1, <3>1 DEF WithState
  <2>3. q \in Handlers /\ q.cmd = g.cmd /\ q.calm = g.calm /\ q.gen = g.gen /\ q.seen = v
    BY <1>3 DEF Handlers
  <2>4. QED
    BY <1>1, <1>4, <1>8, <2>1, <2>2, <2>3, CallingMoves
<1>9. CASE Ends(s) /\ tail' = tail
  BY <1>1, <1>9, EndsMoves DEF Heard
<1>10. QED
  BY <1>1, <1>3, <1>5, <1>6, <1>7, <1>8, <1>9 DEF WithState

LEMMA StateUnreadableMoves ==
    ASSUME RInv, NEW s \in Slots, StateUnreadable(s) \/ StatusReported(s)
    PROVE  HandlerMoves(s)
BY EndsMoves DEF StateUnreadable, StatusReported, Answered, Refused, Answer

\* The turn of a mutation.
LEMMA StartMutationMoves ==
    ASSUME RInv, NEW s \in Slots, StartMutation(s)
    PROVE  HandlerMoves(s)
<1> DEFINE g == slot[s]
<1>1. /\ g \in Handlers /\ Sound(g) /\ g.at = "queued" /\ g.at # "idle" /\ g.at \notin Waiting
      /\ Serves(s) /\ UNCHANGED <<generation, disk, job>> /\ g.gen <= generation
  BY Known DEF StartMutation, Waiting
<1>2. CASE g.cmd \in RemovalCommands
  <2> DEFINE h == [g EXCEPT !.at = "storing"]
  <2>1. Become(s, h) /\ Ask(s, "remove", None) /\ tail' = tail
    BY <1>2 DEF StartMutation
  <2>2. h \in Handlers /\ h.cmd = g.cmd /\ h.calm = g.calm /\ h.gen = g.gen /\ h.at = "storing" /\ h.next = g.next
        /\ h.token = g.token
    BY <1>1 DEF Handlers, Stations
  <2>3. IsRemoval(g) /\ IsRemoval(h) /\ ~IsSetup(h) /\ g.next = None
    BY <1>1, <1>2, <2>2 DEF Sound, IsRemoval, IsSetup, SetupCommands, RemovalCommands
  <2>4. Sound(h) /\ WantedOp(h) = "remove" /\ h.at \in Waiting
    BY <2>2, <2>3 DEF Sound, WantedOp, Waiting
  <2>5. slot' = [slot EXCEPT ![s] = slot'[s]] /\ slot'[s] = h
    BY <2>1, Became
  <2>6. QED
    BY <1>1, <2>1, <2>2, <2>3, <2>4, <2>5 DEF HandlerMoves, Watching
<1>3. CASE g.cmd \notin RemovalCommands /\ IsCurrent(g)
  <2> DEFINE h == [g EXCEPT !.at = "comparing"]
  <2>1. Become(s, h) /\ Ask(s, "read", None) /\ tail' = tail
    BY <1>3 DEF StartMutation
  <2>2. h \in Handlers /\ h.cmd = g.cmd /\ h.calm = g.calm /\ h.gen = g.gen /\ h.at = "comparing" /\ h.seen = g.seen
        /\ h.token = g.token
    BY <1>1 DEF Handlers, Stations
  <2>3. ~IsRemoval(h) /\ (IsSetup(h) => IsSetup(g))
    BY <1>1, <1>3, <2>2 DEF IsRemoval, IsSetup
  <2>4. Sound(h) /\ WantedOp(h) = "read" /\ h.at \in Waiting
    BY <1>1, <1>3, <2>2, <2>3 DEF Sound, WantedOp, Waiting, IsSetup, IsRemoval
  <2>5. slot' = [slot EXCEPT ![s] = slot'[s]] /\ slot'[s] = h
    BY <2>1, Became
  <2>6. QED
    BY <1>1, <1>3, <2>1, <2>2, <2>3, <2>4, <2>5 DEF HandlerMoves, Watching
<1>4. CASE Ends(s) /\ tail' = Tail(tail) /\ line' = line
  BY <1>1, <1>4, EndsMoves
<1>5. QED
  BY <1>2, <1>3, <1>4 DEF StartMutation

\* What is stored was compared with what the handler had read.
LEMMA ComparedMoves ==
    ASSUME RInv, NEW s \in Slots, Compared(s)
    PROVE  HandlerMoves(s)
<1> DEFINE g == slot[s]
<1>1. /\ g \in Handlers /\ Sound(g) /\ g.at = "comparing" /\ g.at # "idle" /\ g.at \in Mutating
      /\ job.who = s /\ job.at = "answer" /\ job' = NoJob
      /\ Serves(s) /\ UNCHANGED <<generation, disk>> /\ g.gen <= generation
  BY Known DEF Compared, Answered, Answer, Mutating, RInv, OneMutates, Serves
<1>2. CASE job.value = g.seen
  <2> DEFINE h == [g EXCEPT !.at = "storing"]
  <2>1. /\ Become(s, h) /\ tail' = tail
        /\ Ask(s, IF g.next = None THEN "remove" ELSE "write", g.next)
    BY <1>2 DEF Compared, Unchanged
  <2>2. h \in Handlers /\ h.cmd = g.cmd /\ h.calm = g.calm /\ h.gen = g.gen /\ h.at = "storing" /\ h.seen = g.seen
        /\ h.next = g.next /\ h.token = g.token
    BY <1>1 DEF Handlers, Stations
  <2>3. ~IsRemoval(h) /\ (IsSetup(h) => IsSetup(g)) /\ (IsSetup(g) => IsSetup(h))
    BY <1>1, <2>2 DEF IsRemoval, IsSetup, Sound
  <2>4. Sound(h) /\ h.at \in Waiting
    BY <1>1, <2>2, <2>3 DEF Sound, Waiting, IsRemoval, IsSetup
  <2>5. slot' = [slot EXCEPT ![s] = slot'[s]] /\ slot'[s] = h
    BY <2>1, Became
  <2>6. \/ WantedOp(h) = "remove" /\ Ask(s, WantedOp(h), None)
        \/ WantedOp(h) = "write" /\ Ask(s, "write", h.next)
    BY <2>1, <2>2 DEF WantedOp
  <2>7. QED
    BY <1>1, <1>2, <2>1, <2>2, <2>3, <2>4, <2>5, <2>6 DEF HandlerMoves, Watching
<1>3. CASE Ends(s) /\ tail' = Tail(tail) /\ line' = line
  BY <1>1, <1>3, EndsMoves
<1>4. QED
  BY <1>2, <1>3 DEF Compared, Unchanged

\* The handler that stores serves its turn.
LEMMA MutatingServes ==
    ASSUME RInv, NEW s \in Slots, slot[s].at \in Mutating
    PROVE  Serves(s)
BY DEF RInv, OneMutates, Serves

\* A mutation is done.
LEMMA MutationDoneMoves ==
    ASSUME RInv, NEW s \in Slots, MutationDone(s)
    PROVE  HandlerMoves(s)
<1> DEFINE g == slot[s]
<1>1. /\ g \in Handlers /\ Sound(g) /\ g.at = "storing" /\ g.at # "idle"
      /\ Heard(s) /\ UNCHANGED <<generation, disk>>
      /\ tail' = Tail(tail) /\ AfterMutation(s, g) /\ g.next \in Record
  BY Known DEF MutationDone, Heard, Answered, Answer
<1>2. Serves(s)
  BY <1>1, MutatingServes DEF Mutating
<1>3. CASE g.cmd = "pair" /\ g.next.setup # None
  <2> DEFINE k == [g EXCEPT !.seen = g.next]
  <2>1. Become(s, Calling(k, "getUpdates", g.token)) /\ line' = line
    BY <1>1, <1>3 DEF AfterMutation, RemovalCommands
  <2>2. g.token \in Tokens /\ g.cmd \in SetupCommands /\ g.cmd \notin RemovalCommands
    BY <1>1, <1>3, Known DEF Sound, IsSetup, SetupCommands, RemovalCommands, Token
  <2>3. k \in Handlers /\ k.cmd = g.cmd /\ k.calm = g.calm /\ k.gen = g.gen
    BY <1>1 DEF Handlers
  <2>4. QED
    BY <1>1, <1>2, <2>1, <2>2, <2>3, CallingMoves
<1>4. CASE g.cmd = "test"
  <2> DEFINE h == [g EXCEPT !.at = "reporting"]
  <2>1. Become(s, h) /\ Ask(s, "read", None)
    BY <1>1, <1>4 DEF AfterMutation, RemovalCommands
  <2>2. h \in Handlers /\ h.cmd = g.cmd /\ h.calm = g.calm /\ h.gen = g.gen /\ h.at = "reporting"
    BY <1>1 DEF Handlers, Stations
  <2>3. Sound(h) /\ h.at \in Waiting /\ h.at \notin Mutating /\ h.at \notin Watching
    BY <1>4, <2>2 DEF Sound, IsSetup, IsRemoval, SetupCommands, RemovalCommands, Waiting, Mutating, Watching
  <2>4. QED
    BY <1>1, <1>2, <2>1, <2>2, <2>3, GoesOnMoves
<1>5. CASE g.cmd \in RemovalCommands
  <2> DEFINE h == [g EXCEPT !.at = "disabling", !.calm = TRUE]
  <2>1. Become(s, h) /\ line' = line
    BY <1>1, <1>5 DEF AfterMutation, RemovalCommands
  <2>2. h \in Handlers /\ h.cmd = g.cmd /\ h.gen = g.gen /\ h.at = "disabling" /\ h.next = g.next
    BY <1>1 DEF Handlers, Stations
  <2>3. Sound(h) /\ h.at \notin Waiting /\ h.at \notin Mutating /\ h.at \notin Watching
    BY <1>1, <1>5, <2>2 DEF Sound, IsSetup, IsRemoval, SetupCommands, RemovalCommands, Waiting, Mutating, Watching
  <2>4. QED
    BY <1>1, <1>2, <2>1, <2>2, <2>3, GoesOnMoves
<1>6. CASE Ends(s) /\ line' = line
  BY <1>1, <1>2, <1>6, EndsMoves DEF Heard
<1>7. QED
  BY <1>1, <1>3, <1>4, <1>5, <1>6 DEF AfterMutation, RemovalCommands

\* The store refused a mutation.
LEMMA MutationFailsMoves ==
    ASSUME RInv, NEW s \in Slots, MutationFails(s)
    PROVE  HandlerMoves(s)
<1> DEFINE g == slot[s]
<1>1. /\ g \in Handlers /\ Sound(g) /\ g.at \in Mutating /\ g.at # "idle"
      /\ Heard(s) /\ UNCHANGED <<generation, disk, line>> /\ tail' = Tail(tail)
  BY Known DEF MutationFails, Heard, Refused, Answer, Mutating
<1>2. Serves(s)
  BY <1>1, MutatingServes
<1>3. CASE g.cmd = "revoke"
  <2> DEFINE h == [g EXCEPT !.at = "disabling"]
  <2>1. Become(s, h)
    BY <1>3 DEF MutationFails
  <2>2. h \in Handlers /\ h.cmd = g.cmd /\ h.calm = g.calm /\ h.gen = g.gen /\ h.at = "disabling" /\ h.next = g.next
    BY <1>1 DEF Handlers, Stations
  <2>3. Sound(h) /\ h.at \notin Waiting /\ h.at \notin Mutating /\ h.at \notin Watching
    BY <1>1, <1>3, <2>2 DEF Sound, IsSetup, IsRemoval, SetupCommands, RemovalCommands, Waiting, Mutating, Watching
  <2>4. QED
    BY <1>1, <1>2, <2>1, <2>2, <2>3, GoesOnMoves
<1>4. CASE g.cmd # "revoke"
  <2>1. Ends(s)
    BY <1>4 DEF MutationFails, Ends
  <2>2. QED
    BY <1>1, <1>2, <2>1, EndsMoves DEF Heard
<1>5. QED
  BY <1>3, <1>4

-------------------------------------------------------------------------------
(* The steps of the runtime.                                               *)

\* A handler moves on in the queue of watch mutations.
LEMMA WatchMoves ==
    ASSUME RInv, NEW s \in Slots, slot[s].at \in {"disabling", "waiting", "gating", "saving"},
           NEW a \in {"waiting", "gating", "saving", "reporting"},
           NEW w \in WatchStates \cup {None}, NEW h,
           h = [slot[s] EXCEPT !.at = a] \/ h = [slot[s] EXCEPT !.at = a, !.want = w],
           Become(s, h), UNCHANGED <<generation, disk, tail>>, Heard(s),
           \/ a \in {"waiting", "saving"} /\ line' = line
           \/ a \in {"gating", "reporting"} /\ Ask(s, "read", None)
    PROVE  HandlerMoves(s)
<1> DEFINE g == slot[s]
<1>1. g \in Handlers /\ Sound(g) /\ g.at # "idle"
  BY Known
<1>2. h \in Handlers /\ h.cmd = g.cmd /\ h.calm = g.calm /\ h.gen = g.gen /\ h.at = a /\ h.next = g.next /\ h.token = g.token
  BY <1>1 DEF Handlers, Stations
<1>3. Sound(h)
  BY <1>1, <1>2 DEF Sound, IsSetup, IsRemoval
<1>4. /\ h.at \notin Mutating /\ g.at \in Watchers
      /\ h.at \in Waiting <=> a \in {"gating", "reporting"}
  BY <1>2 DEF Waiting, Mutating, Watching, Watchers
<1>5. QED
  BY <1>1, <1>2, <1>3, <1>4, GoesOnMoves

LEMMA JoinWatchQueueMoves ==
    ASSUME RInv, NEW s \in Slots, JoinWatchQueue(s)
    PROVE  HandlerMoves(s)
<1>1. Heard(s)
  BY DEF JoinWatchQueue, Heard, Waiting, secretVars
<1>2. QED
  BY <1>1, WatchMoves DEF JoinWatchQueue, secretVars

LEMMA StartWatchMutationMoves ==
    ASSUME RInv, NEW s \in Slots, StartWatchMutation(s)
    PROVE  HandlerMoves(s)
<1>1. Heard(s)
  BY DEF StartWatchMutation, Heard, Waiting
<1>2. QED
  BY <1>1, WatchMoves DEF StartWatchMutation

LEMMA GateAnsweredMoves ==
    ASSUME RInv, NEW s \in Slots, GateAnswered(s)
    PROVE  HandlerMoves(s)
<1> DEFINE w == Gated(slot[s].want, Answered(s) /\ Connected(job.value))
<1>1. Heard(s)
  BY DEF GateAnswered, Heard, Answer, Answered, Refused
<1>2. w \in WatchStates \cup {None}
  BY Known DEF Gated, WatchStates, Handlers
<1>3. Become(s, [slot[s] EXCEPT !.at = "saving", !.want = w])
  BY DEF GateAnswered
<1>4. QED
  BY <1>1, <1>2, <1>3, WatchMoves DEF GateAnswered, Answer

LEMMA WatchSavedMoves ==
    ASSUME RInv, NEW s \in Slots, WatchSaved(s) \/ WatchNotSaved(s)
    PROVE  HandlerMoves(s)
<1>1. Heard(s) /\ slot[s].at \notin Waiting /\ UNCHANGED <<generation, disk, tail, job>>
  BY DEF WatchSaved, WatchNotSaved, Heard, Waiting, secretVars
<1>2. CASE Ends(s) /\ line' = line
  BY <1>1, <1>2, EndsMoves
<1>3. CASE Become(s, [slot[s] EXCEPT !.at = "reporting"]) /\ Ask(s, "read", None)
  BY <1>1, <1>3, WatchMoves DEF WatchSaved, WatchNotSaved
<1>4. QED
  BY <1>2, <1>3 DEF WatchSaved, WatchNotSaved, secretVars

LEMMA EditWatchMoves ==
    ASSUME RInv, NEW s \in Slots, EditWatch(s)
    PROVE  HandlerMoves(s)
<1>1. slot[s].at = "idle" /\ UNCHANGED <<generation, disk, tail, line, job>>
  BY DEF EditWatch, Arrives, Free, secretVars
<1>2. PICK cmd \in WatchCommands, want \in WatchStates :
         Become(s, [Handler(cmd, "waiting", 0, None) EXCEPT !.want = want])
  BY DEF EditWatch
<1> DEFINE k == Handler(cmd, "waiting", 0, None)  h == [k EXCEPT !.want = want]
<1>3. k \in Handlers /\ k.cmd = cmd /\ k.at = "waiting" /\ k.gen = 0 /\ ~k.calm
  BY NewHandler DEF Stations, Token
<1>4. h \in Handlers /\ h.cmd = cmd /\ h.at = "waiting" /\ h.gen = 0 /\ ~h.calm
  BY <1>3 DEF Handlers
<1>5. ~IsSetup(h) /\ ~IsRemoval(h)
  BY <1>4 DEF IsSetup, IsRemoval, WatchCommands, SetupCommands, RemovalCommands
<1>6. Sound(h) /\ h.at \notin Waiting /\ h.at \notin Mutating /\ slot[s].at \in Watchers /\ slot[s].at \notin Waiting
  BY <1>1, <1>4, <1>5 DEF Sound, Waiting, Mutating, Watchers
<1>7. slot' = [slot EXCEPT ![s] = slot'[s]] /\ slot'[s] = h
  BY <1>2, Became
<1>8. 0 <= generation
  BY Known
<1>9. QED
  BY <1>1, <1>4, <1>5, <1>6, <1>7, <1>8 DEF HandlerMoves

-------------------------------------------------------------------------------
(* The steps that are more than one handler's: those that abort provider   *)
(* calls, the disconnect that is acknowledged, the store and the death.    *)

\* A setup or a removal begins: it has the next generation, and every call to the
\* provider ends.
LEMMA AdvanceKeeps ==
    ASSUME RInv, NEW s \in Slots, slot[s].at = "idle",
           NEW h \in Handlers, Sound(h), h.gen = generation + 1,
           h.at \notin Waiting, h.at \notin Mutating,
           generation' = generation + 1, slot' = [Aborted EXCEPT ![s] = h],
           tail' = tail \/ tail' = Append(tail, s), UNCHANGED secretVars,
           \/ revoked' = FALSE
           \/ revoked' = revoked /\ ~IsSetup(h)
    PROVE  RInv'
<1>1. /\ slot \in [Slots -> Handlers] /\ \A x \in Slots : Sound(slot[x])
      /\ generation \in Nat /\ \A x \in Slots : slot[x].gen \in Nat /\ slot[x].gen <= generation
      /\ UNCHANGED <<disk, line, job>>
  BY Known DEF RInv, HandlersSound, GenerationsDiffer, secretVars
<1>2. /\ slot' \in [Slots -> Handlers] /\ slot'[s] = h
      /\ \A x \in Slots \ {s} :
            slot'[x] = slot[x] \/ (slot'[x] = NoHandler /\ slot[x].at = "calling")
  BY <1>1, HandlerTypes DEF Aborted
<1>3. HandlersSound'
  BY <1>1, <1>2, HandlerTypes DEF HandlersSound
<1>4. CallsOwned'
  <2>1. \A x \in Slots : slot[x].at \in Waiting => slot'[x] = slot[x]
    BY <1>2 DEF Waiting
  <2>2. /\ \A i \in 1 .. Len(line) : line[i].who \in Slots /\ slot[line[i].who].at \in Waiting
        /\ job # NoJob => job.who \in Slots /\ slot[job.who].at \in Waiting
    BY LineTypes DEF RInv, CallsOwned
  <2>3. QED
    BY <1>1, <2>1, <2>2 DEF RInv, CallsOwned, WantedOp
<1>5. OneMutates'
  <2>1. \A x \in Slots : slot'[x].at \in Mutating => slot[x].at \in Mutating
    BY <1>2, HandlerTypes DEF Mutating
  <2>2. tail \in Seq(Slots)
    BY DEF RInv, OneMutates
  <2>3. tail' \in Seq(Slots) /\ (tail # <<>> => tail' # <<>> /\ Head(tail') = Head(tail))
    BY <2>2
  <2>4. QED
    BY <2>1, <2>3 DEF RInv, OneMutates
<1>6. GenerationsDiffer'
  <2>1. \A x \in Slots : slot'[x].gen <= generation + 1
    BY <1>1, <1>2, HandlerTypes
  <2>2. \A x \in Slots \ {s} : slot'[x].gen <= generation
    BY <1>1, <1>2, HandlerTypes
  <2>3. \A x \in Slots \ {s} : IsSetup(slot'[x]) \/ IsRemoval(slot'[x]) => slot'[x] = slot[x]
    BY <1>2, HandlerTypes
  <2>4. QED
    BY <1>1, <1>2, <2>1, <2>2, <2>3 DEF RInv, GenerationsDiffer
<1>7. NothingReturns'
  <2>1. SUFFICES ASSUME revoked, revoked' = revoked, ~IsSetup(h) PROVE NothingReturns'
    BY DEF NothingReturns
  <2>2. \A x \in Slots : IsSetup(slot'[x]) => slot'[x] = slot[x]
    BY <1>2, <2>1, HandlerTypes
  <2>3. \A x \in Slots : IsSetup(slot'[x]) =>
           slot'[x].gen # generation' /\ slot'[x].at \notin Mutating
    BY <1>1, <2>1, <2>2 DEF RInv, NothingReturns
  <2>4. QED
    BY <1>1, <2>1, <2>3 DEF RInv, NothingReturns
<1>8. SInv' /\ revoked' \in BOOLEAN
  BY <1>1, StepKeepsSInv DEF RInv, secretVars
<1>9. QED
  BY <1>3, <1>4, <1>5, <1>6, <1>7, <1>8 DEF RInv

LEMMA BeginSetupKeeps ==
    ASSUME RInv, NEW s \in Slots, slot[s].at = "idle", NEW cmd, NEW t \in Tokens,
           BeginSetup(s, cmd, t)
    PROVE  RInv'
<1> DEFINE k == Handler(cmd, "calling", generation + 1, t)  h == [k EXCEPT !.ask = "getMe"]
<1>1. generation + 1 \in Nat /\ cmd \in TelegramCommands /\ t \in Token /\ t # None
      /\ cmd \in SetupCommands
  BY Known, SecretsConstants DEF BeginSetup, TelegramCommands, Token
<1>2. k \in Handlers /\ k.cmd = cmd /\ k.at = "calling" /\ k.gen = generation + 1 /\ k.token = t
  BY <1>1, NewHandler DEF Stations
<1>3. /\ h \in Handlers /\ h.cmd = cmd /\ h.at = "calling" /\ h.gen = generation + 1
      /\ h.token = t /\ h.ask = "getMe"
  BY <1>2 DEF Handlers
<1>4. IsSetup(h) /\ ~IsRemoval(h)
  BY <1>1, <1>3 DEF IsSetup, IsRemoval, SetupCommands, RemovalCommands
<1>5. Sound(h) /\ h.at \notin Waiting /\ h.at \notin Mutating
  BY <1>1, <1>3, <1>4 DEF Sound, Waiting, Mutating
<1>6. QED
  BY <1>3, <1>5, AdvanceKeeps DEF BeginSetup

LEMMA BeginRemovalKeeps ==
    ASSUME RInv, NEW s \in Slots, slot[s].at = "idle", NEW cmd, BeginRemoval(s, cmd)
    PROVE  RInv'
<1> DEFINE h == Handler(cmd, "queued", generation + 1, None)
<1>1. generation + 1 \in Nat /\ cmd \in TelegramCommands /\ None \in Token /\ cmd \in RemovalCommands
  BY Known DEF BeginRemoval, TelegramCommands, Token
<1>2. /\ h \in Handlers /\ h.cmd = cmd /\ h.at = "queued" /\ h.gen = generation + 1
      /\ h.next = None
  BY <1>1, NewHandler DEF Stations
<1>3. ~IsSetup(h) /\ IsRemoval(h)
  BY <1>1, <1>2 DEF IsSetup, IsRemoval, SetupCommands, RemovalCommands
<1>4. Sound(h) /\ h.at \notin Waiting /\ h.at \notin Mutating
  BY <1>2, <1>3 DEF Sound, Waiting, Mutating
<1>5. QED
  BY <1>2, <1>3, <1>4, AdvanceKeeps DEF BeginRemoval

\* When the store acknowledges a removal and no setup is newer, nothing is stored
\* and nobody is left who could store.
LEMMA AcknowledgedKeepsNothing ==
    ASSUME RInv, NEW s \in Slots, MutationDone(s)
    PROVE  NothingReturns' /\ revoked' \in BOOLEAN
<1> DEFINE g == slot[s]
<1>1. HandlerMoves(s)
  BY MutationDoneMoves
<1>2. CASE g.cmd \notin RemovalCommands
  <2>1. revoked' = revoked
    BY <1>2 DEF MutationDone
  <2>2. QED
    BY <1>1, <2>1, MovesKeepNothing DEF RInv
<1>3. CASE g.cmd \in RemovalCommands
  <2>1. /\ g \in Handlers /\ Sound(g) /\ g.at = "storing" /\ g.next = None /\ IsRemoval(g)
        /\ job.who = s /\ job.at = "answer" /\ job' = NoJob /\ disk' = disk
        /\ generation' = generation /\ g.gen \in Nat /\ g.gen <= generation /\ generation \in Nat
        /\ revoked' = ~NewerSetup(s)
    BY <1>3, Known DEF MutationDone, Answered, Answer, Sound, IsRemoval
  <2>2. SUFFICES ASSUME ~NewerSetup(s) PROVE NothingReturns'
    BY <2>1 DEF NothingReturns
  <2>3. job # NoJob /\ job.op = "remove"
    BY <2>1 DEF RInv, CallsOwned, WantedOp, NoJob
  <2>4. disk.enc = None /\ disk.legacy = None
    BY <2>1, <2>3 DEF RInv, SInv, JobIsOnCourse
  <2>5. \A x \in Slots : slot[x].at \in Mutating => x = s
    BY <2>1 DEF RInv, OneMutates, Mutating
  <2>6. \A i \in 1 .. Len(line) : line[i].op # "write"
    <3>1. SUFFICES ASSUME NEW i \in 1 .. Len(line), line[i].op = "write" PROVE FALSE
      OBVIOUS
    <3>2. slot[line[i].who].at = "storing" /\ line[i].who \in Slots /\ line[i].who # s
      BY <2>1, <2>3, <3>1, LineTypes DEF RInv, CallsOwned, WantedOp
    <3>3. QED
      BY <2>5, <3>2 DEF Mutating
  <2>7. line' = line /\ ~IsSetup(slot'[s]) /\ \A x \in Slots \ {s} : slot'[x] = slot[x]
    <3>1. line' = line
      BY <1>3 DEF MutationDone, AfterMutation, RemovalCommands
    <3>2. slot' = [slot EXCEPT ![s] = slot'[s]] /\ slot'[s] = [g EXCEPT !.at = "disabling", !.calm = TRUE]
      <4>1. Become(s, [g EXCEPT !.at = "disabling", !.calm = TRUE])
        BY <1>3 DEF MutationDone, AfterMutation, RemovalCommands
      <4>2. QED
        BY <4>1, Became
    <3>3. slot'[s].cmd = g.cmd
      BY <2>1, <3>2 DEF Handlers
    <3>4. QED
      BY <1>3, <3>1, <3>2, <3>3 DEF IsSetup, SetupCommands, RemovalCommands, RInv, HandlersSound
  <2>8. \A x \in Slots : IsSetup(slot'[x]) =>
           slot'[x].gen # generation /\ slot'[x].at \notin Mutating
    <3>1. SUFFICES ASSUME NEW x \in Slots \ {s}, IsSetup(slot[x])
                   PROVE  slot[x].gen # generation /\ slot[x].at \notin Mutating
      BY <2>7
    <3>2. slot[x].gen # g.gen /\ slot[x].gen \in Nat
      BY <2>1, <3>1, Known DEF RInv, GenerationsDiffer
    <3>3. ~(slot[x].gen > g.gen)
      BY <2>2, <3>1 DEF NewerSetup, IsSetup
    <3>4. QED
      BY <2>1, <2>5, <3>1, <3>2, <3>3
  <2>9. QED
    BY <2>1, <2>4, <2>6, <2>7, <2>8, NoJobIsIdle, SecretsConstants DEF NothingReturns
<1>4. QED
  BY <1>2, <1>3

\* The store goes on with the call it serves, which stays the call of its handler.
LEMMA StoreServes ==
    ASSUME RInv, SecretsStep \/ Reject
    PROVE  \/ /\ line' = line /\ job # NoJob /\ job' # NoJob
              /\ job'.who = job.who /\ job'.op = job.op
           \/ /\ job = NoJob /\ line # <<>> /\ line' = Tail(line) /\ job' # NoJob /\ disk' = disk
              /\ job'.who = Head(line).who /\ job'.op = Head(line).op
              /\ job'.value = Head(line).value
<1>1. job.at = "idle" <=> job = NoJob
  BY LineTypes
<1>2. CASE TakeUp
  <2>1. job' # NoJob
    BY <1>2 DEF TakeUp, NoJob
  <2>2. QED
    BY <1>1, <1>2, <2>1 DEF TakeUp
<1>3. CASE ~TakeUp
  <2>1. job \in Jobs /\ line' = line /\ job # NoJob
    BY <1>1, <1>3, ServedJob DEF SecretsStep, Reject, Open, FetchKey, Seal, Verify, DropLegacy, DropEnc,
       DropKey, Stages, RInv, SInv
  <2>2. PICK j \in Jobs, a \in Stages : job' = [j EXCEPT !.at = a] /\ j.who = job.who /\ j.op = job.op
    <3>1. CASE Open
      <4> DEFINE at(j) == j.who = job.who /\ j.op = job.op
      <4>1. \A v \in Record : /\ [job EXCEPT !.value = v] \in Jobs
                              /\ [job EXCEPT !.value = v].who = job.who
                              /\ [job EXCEPT !.value = v].op = job.op
        BY <2>1 DEF Jobs, Record
      <4>2. \A v \in Record, a \in Stages :
               [job EXCEPT !.value = v, !.at = a] = [[job EXCEPT !.value = v] EXCEPT !.at = a]
        BY <2>1 DEF Jobs, Record
      <4>3. disk.enc \in Record /\ disk.legacy \in Record
        BY DEF RInv, SInv, TypeInv
      <4>4. \/ job' = [job EXCEPT !.at = "key"] \/ job' = [job EXCEPT !.at = "answer"]
            \/ job' = [job EXCEPT !.value = disk.enc, !.at = "dropLegacy"]
            \/ job' = [job EXCEPT !.value = disk.legacy, !.at = "key"]
        BY <3>1 DEF Open
      <4>5. QED
        BY <2>1, <4>1, <4>2, <4>3, <4>4 DEF Stages
    <3>2. CASE ~Open
      BY <1>3, <2>1, <3>2 DEF SecretsStep, Reject, FetchKey, Seal, Verify, DropLegacy, DropEnc,
         DropKey, Stages
    <3>3. QED
      BY <3>1, <3>2
  <2>3. job'.who = j.who /\ job'.op = j.op /\ job'.at = a
    BY <2>2 DEF Jobs
  <2>4. job' # NoJob
    BY <2>2, <2>3, NoJobIsIdle
  <2>5. QED
    BY <2>1, <2>2, <2>3, <2>4
<1>4. QED
  BY <1>2, <1>3

\* Every handler waits as it did: at most the ghost of a removal changes.
Steady ==
    \/ slot' = slot
    \/ slot' = [s \in Slots |-> [slot[s] EXCEPT !.calm = FALSE]]

LEMMA SteadyKeeps ==
    ASSUME RInv, Steady, UNCHANGED <<generation, tail>>
    PROVE  /\ HandlersSound' /\ OneMutates' /\ GenerationsDiffer'
           /\ \A x \in Slots : /\ slot'[x].at = slot[x].at /\ slot'[x].gen = slot[x].gen
                               /\ IsSetup(slot'[x]) <=> IsSetup(slot[x])
                               /\ WantedOp(slot'[x]) = WantedOp(slot[x])
<1>1. /\ slot \in [Slots -> Handlers] /\ \A x \in Slots : Sound(slot[x])
  BY DEF RInv, HandlersSound
<1>2. /\ slot' \in [Slots -> Handlers]
      /\ \A x \in Slots : /\ slot'[x].cmd = slot[x].cmd /\ slot'[x].at = slot[x].at
                          /\ slot'[x].gen = slot[x].gen /\ slot'[x].token = slot[x].token
                          /\ slot'[x].ask = slot[x].ask
                          /\ slot'[x].seen = slot[x].seen /\ slot'[x].next = slot[x].next
  <2>1. CASE slot' = slot
    BY <1>1, <2>1
  <2>2. CASE slot' = [s \in Slots |-> [slot[s] EXCEPT !.calm = FALSE]]
    BY <1>1, <2>2 DEF Handlers
  <2>3. QED
    BY <2>1, <2>2 DEF Steady
<1>3. \A x \in Slots : /\ IsSetup(slot'[x]) <=> IsSetup(slot[x])
                       /\ IsRemoval(slot'[x]) <=> IsRemoval(slot[x])
                       /\ WantedOp(slot'[x]) = WantedOp(slot[x])
  BY <1>2 DEF IsSetup, IsRemoval, WantedOp
<1>4. HandlersSound'
  <2>1. \A x \in Slots : Sound(slot'[x])
    BY <1>1, <1>2, <1>3 DEF Sound
  <2>2. QED
    BY <1>2, <2>1 DEF HandlersSound
<1>5. OneMutates'
  BY <1>2 DEF RInv, OneMutates
<1>6. GenerationsDiffer'
  BY <1>2, <1>3 DEF RInv, GenerationsDiffer
<1>7. QED
  BY <1>2, <1>3, <1>4, <1>5, <1>6

LEMMA ServesKeepsCalls ==
    ASSUME RInv, Steady, UNCHANGED <<generation, tail>>, SecretsStep \/ Reject
    PROVE  CallsOwned'
<1>1. \A x \in Slots : slot'[x].at = slot[x].at /\ WantedOp(slot'[x]) = WantedOp(slot[x])
  BY SteadyKeeps
<1>2. CASE /\ line' = line /\ job # NoJob /\ job' # NoJob
           /\ job'.who = job.who /\ job'.op = job.op
  BY <1>1, <1>2, LineTypes DEF RInv, CallsOwned
<1>3. CASE /\ job = NoJob /\ line # <<>> /\ line' = Tail(line) /\ job' # NoJob
           /\ job'.who = Head(line).who /\ job'.op = Head(line).op
  <2>1. /\ Len(line') = Len(line) - 1 /\ Head(line) = line[1] /\ 1 \in 1 .. Len(line)
        /\ \A i \in 1 .. Len(line') : line'[i] = line[i + 1] /\ i + 1 \in 1 .. Len(line) /\ i + 1 # 1
    BY <1>3, LineTypes
  <2>2. \A i \in 1 .. Len(line') :
           /\ slot'[line'[i].who].at \in Waiting /\ line'[i].op = WantedOp(slot'[line'[i].who])
           /\ line'[i].who # line[1].who
    <3>1. TAKE i \in 1 .. Len(line')
    <3>2. i + 1 \in 1 .. Len(line) /\ i + 1 # 1 /\ line'[i] = line[i + 1] /\ line[i + 1].who \in Slots
      BY <2>1, LineTypes
    <3>3. slot[line[i + 1].who].at \in Waiting /\ line[i + 1].op = WantedOp(slot[line[i + 1].who])
      BY <3>2 DEF RInv, CallsOwned
    <3>4. line[i + 1].who # line[1].who
      BY <2>1, <3>2 DEF RInv, CallsOwned
    <3>5. QED
      BY <1>1, <3>2, <3>3, <3>4
  <2>3. \A i, j \in 1 .. Len(line') : line'[i].who = line'[j].who => i = j
    <3>1. SUFFICES ASSUME NEW i \in 1 .. Len(line'), NEW j \in 1 .. Len(line'),
                          line'[i].who = line'[j].who
                   PROVE  i = j
      OBVIOUS
    <3>2. i + 1 = j + 1
      BY <2>1, <3>1 DEF RInv, CallsOwned
    <3>3. QED
      BY <2>1, <3>2, LineTypes
  <2>4. slot'[job'.who].at \in Waiting /\ job'.op = WantedOp(slot'[job'.who])
    BY <1>1, <1>3, <2>1, LineTypes DEF RInv, CallsOwned
  <2>5. QED
    BY <1>3, <2>1, <2>2, <2>3, <2>4 DEF CallsOwned
<1>4. QED
  BY <1>2, <1>3, StoreServes

\* After a disconnect the store finds nothing to read and has nothing to write.
LEMMA ServesKeepsNothing ==
    ASSUME RInv, Steady, UNCHANGED <<generation, tail, revoked>>, SecretsStep \/ Reject
    PROVE  NothingReturns'
<1> SUFFICES ASSUME revoked PROVE NothingReturns'
  BY DEF NothingReturns
<1>1. /\ disk.enc = None /\ disk.legacy = None
      /\ \A i \in 1 .. Len(line) : line[i].op # "write"
      /\ job.op # "write" /\ (job.op = "read" => job.value = None)
  BY DEF RInv, NothingReturns
<1>2. \A x \in Slots : IsSetup(slot'[x]) =>
         slot'[x].gen # generation' /\ slot'[x].at \notin Mutating
  BY SteadyKeeps DEF RInv, NothingReturns
<1>3. /\ \A i \in 1 .. Len(line') : line'[i].op # "write"
      /\ job'.op # "write"
  <2>1. CASE line' = line /\ job'.op = job.op
    BY <1>1, <2>1
  <2>2. CASE line # <<>> /\ line' = Tail(line) /\ job'.op = Head(line).op
    <3>1. /\ Head(line) = line[1] /\ 1 \in 1 .. Len(line)
          /\ \A i \in 1 .. Len(line') : line'[i] = line[i + 1] /\ i + 1 \in 1 .. Len(line)
      BY <2>2, LineTypes
    <3>2. QED
      BY <1>1, <2>2, <3>1
  <2>3. QED
    BY <2>1, <2>2, StoreServes
<1>4. disk'.enc = None /\ disk'.legacy = None /\ (job'.op = "read" => job'.value = None)
  <2>1. CASE TakeUp
    <3>1. Head(line) \in Calls
      BY <2>1, LineTypes DEF TakeUp
    <3>2. QED
      BY <1>1, <2>1, <3>1 DEF TakeUp, Calls
  <2>2. CASE ~TakeUp
    <3>1. /\ job \in Jobs /\ disk \in [enc : Record, legacy : Record, key : BOOLEAN]
          /\ job.op \in {"read", "remove"} /\ (job.op = "remove" => job.value = None)
      BY <1>1, <2>2, ServedJob DEF SecretsStep, Reject, Open, FetchKey, Seal, Verify, DropLegacy, DropEnc,
         DropKey, Stages, RInv, SInv, TypeInv, JobIsOnCourse
    <3>2. job'.op = job.op
      BY <2>2, StoreServes, LineTypes DEF SecretsStep, Reject, TakeUp, Open, FetchKey, Seal, Verify,
         DropLegacy, DropEnc, DropKey, Stages
    <3>3. CASE Open
      <4>1. job' = [job EXCEPT !.at = "answer"] \/ (job.op = "remove")
        BY <1>1, <3>1, <3>3 DEF Open
      <4>2. disk' = disk
        BY <3>3 DEF Open
      <4>3. QED
        BY <1>1, <3>1, <3>2, <4>1, <4>2 DEF Jobs
    <3>4. CASE ~Open
      <4>1. job'.value = job.value
        BY <2>2, <3>1, <3>4 DEF SecretsStep, Reject, FetchKey, Seal, Verify, DropLegacy, DropEnc,
           DropKey, Jobs
      <4>2. disk'.enc = None /\ disk'.legacy = None
        BY <1>1, <2>2, <3>1, <3>4 DEF SecretsStep, Reject, FetchKey, Seal, Verify, DropLegacy, DropEnc,
           DropKey
      <4>3. QED
        BY <1>1, <3>2, <4>1, <4>2
    <3>5. QED
      BY <3>3, <3>4
  <2>3. QED
    BY <2>1, <2>2
<1>5. QED
  BY <1>2, <1>3, <1>4 DEF NothingReturns

LEMMA StoreKeeps ==
    ASSUME RInv, StoreWorks \/ StoreRejects
    PROVE  RInv' /\ SecretsNext
<1>1. SecretsStep \/ Reject
  BY DEF StoreWorks, StoreRejects
<1>2. Steady /\ UNCHANGED <<generation, tail, revoked>>
  BY DEF StoreWorks, StoreRejects, Steady, controllerVars
<1>3. SecretsNext
  BY <1>1 DEF SecretsNext
<1>4. SInv'
  BY <1>3, StepKeepsSInv DEF RInv
<1>5. QED
  BY <1>1, <1>2, <1>3, <1>4, SteadyKeeps, ServesKeepsCalls, ServesKeepsNothing DEF RInv

\* A death takes the handlers with it.
LEMMA DeathKeeps ==
    ASSUME RInv, ControllerDie
    PROVE  RInv' /\ SecretsNext
<1>1. /\ SecretsDie /\ generation' = 0 /\ tail' = <<>> /\ revoked' = revoked
      /\ slot' = [s \in Slots |-> NoHandler]
      /\ line' = <<>> /\ job' = NoJob /\ disk' = disk
  BY DEF ControllerDie, SecretsDie
<1>2. SecretsNext
  BY <1>1 DEF SecretsNext
<1>3. SInv'
  BY <1>2, StepKeepsSInv DEF RInv
<1>4. HandlersSound'
  BY <1>1, HandlerTypes DEF HandlersSound
<1>5. CallsOwned'
  BY <1>1 DEF CallsOwned
<1>6. OneMutates' /\ GenerationsDiffer'
  BY <1>1, HandlerTypes DEF OneMutates, GenerationsDiffer, Mutating
<1>7. NothingReturns'
  BY <1>1, HandlerTypes, NoJobIsIdle, SecretsConstants DEF RInv, NothingReturns
<1>8. QED
  BY <1>1, <1>2, <1>3, <1>4, <1>5, <1>6, <1>7 DEF RInv

-------------------------------------------------------------------------------
(* The specification.                                                      *)

LEMMA InitRInv == Init => RInv
<1> SUFFICES ASSUME Init PROVE RInv
  OBVIOUS
<1>1. /\ SecretsInit /\ generation = 0 /\ slot = [s \in Slots |-> NoHandler]
      /\ tail = <<>> /\ revoked = FALSE /\ line = <<>> /\ job = NoJob
  BY DEF Init, ControllerInit, SecretsInit
<1>2. SInv
  BY <1>1, InitSInv
<1>3. HandlersSound
  BY <1>1, HandlerTypes DEF HandlersSound
<1>4. CallsOwned
  BY <1>1 DEF CallsOwned
<1>5. OneMutates /\ GenerationsDiffer
  BY <1>1, HandlerTypes DEF OneMutates, GenerationsDiffer, Mutating
<1>6. QED
  BY <1>1, <1>2, <1>3, <1>4, <1>5 DEF RInv, NothingReturns

\* Steps that have nothing to do with Telegram.
LEMMA OthersKeepRInv ==
    ASSUME RInv, UNCHANGED telegramVars
    PROVE  RInv' /\ UNCHANGED secretVars
<1>1. UNCHANGED <<disk, line, job, generation, slot, tail, revoked>> /\ UNCHANGED secretVars
  BY DEF telegramVars, controllerVars, secretVars
<1>2. SInv'
  BY <1>1, StepKeepsSInv DEF RInv
<1>3. HandlersSound' /\ CallsOwned' /\ OneMutates' /\ GenerationsDiffer' /\ NothingReturns'
  BY <1>1 DEF RInv, HandlersSound, CallsOwned, OneMutates, GenerationsDiffer, NothingReturns
<1>4. QED
  BY <1>1, <1>2, <1>3 DEF RInv

\* What a handler does by itself.
LEMMA ControllerStepKeeps ==
    ASSUME RInv, NEW s \in Slots, ControllerStep(s)
    PROVE  RInv' /\ SecretsNext
<1>1. CASE MutationDone(s)
  BY <1>1, MutationDoneMoves, AcknowledgedKeepsNothing, MovesKeepRInv
<1>2. CASE ~MutationDone(s)
  <2>1. HandlerMoves(s)
    BY <1>2, ProviderAcceptsMoves, ProviderFailsMoves, ProviderLimitsMoves, ProviderIsBusyMoves,
       WakesUpMoves, StateReadMoves, StateUnreadableMoves, StartMutationMoves, ComparedMoves,
       MutationFailsMoves DEF ControllerStep
  <2>2. revoked' = revoked
    BY <1>2 DEF ControllerStep, ProviderAccepts, ProviderFails, ProviderLimits, ProviderIsBusy,
       WakesUp, StateRead, StateUnreadable, StatusReported, StartMutation, Compared, MutationFails
  <2>3. QED
    BY <2>1, <2>2, MovesKeepNothing, MovesKeepRInv DEF RInv
<1>3. QED
  BY <1>1, <1>2

\* What a handler does in the queue of watch mutations.
LEMMA WatchStepKeeps ==
    ASSUME RInv, NEW s \in Slots,
           \/ JoinWatchQueue(s) \/ StartWatchMutation(s) \/ GateAnswered(s)
           \/ WatchSaved(s) \/ WatchNotSaved(s) \/ EditWatch(s)
    PROVE  RInv' /\ SecretsNext
<1>1. HandlerMoves(s)
  BY JoinWatchQueueMoves, StartWatchMutationMoves, GateAnsweredMoves, WatchSavedMoves, EditWatchMoves
<1>2. revoked' = revoked
  BY DEF JoinWatchQueue, StartWatchMutation, GateAnswered, WatchSaved, WatchNotSaved, EditWatch
<1>3. QED
  BY <1>1, <1>2, MovesKeepNothing, MovesKeepRInv DEF RInv

\* A command about Telegram begins, or an alert is to be delivered.
LEMMA CommandKeeps ==
    ASSUME RInv, NEW s \in Slots, TelegramCommand(s) \/ TelegramAlert(s)
    PROVE  RInv' /\ (SecretsNext \/ UNCHANGED secretVars)
<1>1. slot[s].at = "idle"
  BY DEF TelegramCommand, TelegramAlert, Arrives, Free
<1>2. CASE \E cmd \in SetupCommands, t \in Tokens : BeginSetup(s, cmd, t)
  BY <1>1, <1>2, BeginSetupKeeps DEF BeginSetup
<1>3. CASE \E cmd \in RemovalCommands : BeginRemoval(s, cmd)
  BY <1>1, <1>3, BeginRemovalKeeps DEF BeginRemoval
<1>4. ASSUME NEW cmd, BeginWithState(s, cmd)
      PROVE  RInv' /\ SecretsNext
  <2>1. HandlerMoves(s) /\ revoked' = revoked
    BY <1>1, <1>4, BeginWithStateMoves DEF BeginWithState
  <2>2. QED
    BY <2>1, MovesKeepNothing, MovesKeepRInv DEF RInv
<1>5. QED
  BY <1>2, <1>3, <1>4 DEF TelegramCommand, TelegramAlert

\* The kinds of steps.
LEMMA StepKinds ==
    ASSUME [Next]_vars
    PROVE  \/ UNCHANGED telegramVars \/ StoreWorks \/ StoreRejects \/ ControllerDie
           \/ \E s \in Slots :
                 \/ ControllerStep(s)
                 \/ JoinWatchQueue(s) \/ StartWatchMutation(s) \/ GateAnswered(s)
                 \/ WatchSaved(s) \/ WatchNotSaved(s) \/ EditWatch(s)
                 \/ TelegramCommand(s) \/ TelegramAlert(s)
<1>1. CASE Next
  BY <1>1 DEF Next, SystemStep, DesktopAlert, DesktopCommand, ResetWatches, StoreFails, DesktopFails,
     DesktopPasses, TimePasses, WorkerDies
<1>2. CASE UNCHANGED vars
  BY <1>2 DEF vars, telegramVars
<1>3. QED
  BY <1>1, <1>2

LEMMA StepKeepsRInv == RInv /\ [Next]_vars => RInv' /\ [SecretsNext]_secretVars
<1> SUFFICES ASSUME RInv, [Next]_vars PROVE RInv' /\ [SecretsNext]_secretVars
  OBVIOUS
<1>1. CASE UNCHANGED telegramVars
  BY <1>1, OthersKeepRInv
<1>2. CASE StoreWorks \/ StoreRejects
  BY <1>2, StoreKeeps
<1>3. CASE ControllerDie
  BY <1>3, DeathKeeps
<1>4. CASE \E s \in Slots : ControllerStep(s)
  BY <1>4, ControllerStepKeeps
<1>5. CASE \E s \in Slots : \/ JoinWatchQueue(s) \/ StartWatchMutation(s) \/ GateAnswered(s)
                            \/ WatchSaved(s) \/ WatchNotSaved(s) \/ EditWatch(s)
  BY <1>5, WatchStepKeeps
<1>6. CASE \E s \in Slots : TelegramCommand(s) \/ TelegramAlert(s)
  BY <1>6, CommandKeeps
<1>7. QED
  BY <1>1, <1>2, <1>3, <1>4, <1>5, <1>6, StepKinds

\* The invariant of the controller, the runtime and the store.
THEOREM RInvAlways == Spec => []RInv
<1>1. QED
  BY InitRInv, StepKeepsRInv, PTL DEF Spec

\* The controller and the runtime use the store as it is meant to be used: each
\* call is asked for by one handler, and a write only by a handler that has just
\* heard what is stored (telegram.ts:545-600).
THEOREM RuntimeUsesTheStore == Spec => SecretsSpec
<1>1. Init => SecretsInit
  BY DEF Init, ControllerInit
<1>2. QED
  BY <1>1, StepKeepsRInv, RInvAlways, PTL DEF Spec, SecretsSpec

\* So a new worker can decipher what the extension left behind.
THEOREM RuntimeKeepsCiphertextReadable == Spec => []CiphertextIsReadable
BY RuntimeUsesTheStore, CiphertextIsAlwaysReadable, PTL

\* ... and the extension sees one value and calls that take effect at once or not
\* at all.
THEOREM RuntimeSeesThePromise == Spec => KeepsPromise
BY RuntimeUsesTheStore, StorePromiseIsKept, PTL

\* A disconnect that the store has acknowledged stays: whatever was under way when
\* it was asked for, and however often the worker dies, nothing is stored until
\* another setup begins (telegram.ts:1142).
THEOREM DisconnectAlwaysSticks == Spec => []DisconnectSticks
<1>1. RInv => DisconnectSticks
  BY DEF RInv, NothingReturns, DisconnectSticks
<1>2. QED
  BY <1>1, RInvAlways, PTL

-------------------------------------------------------------------------------
(* The order of the writes.                                                *)

\* Whoever has its turn to compare and store is newer than all that was stored.
WritersInOrder ==
    /\ lastWriter \in Nat /\ lastWriter <= generation
    /\ \A s \in Slots :
          slot[s].at \in Mutating /\ ~IsRemoval(slot[s]) => lastWriter <= slot[s].gen

\* A handler begins that makes all the others obsolete.
Supersedes(s) ==
    /\ generation' = generation + 1
    /\ slot'[s].at \in {"calling", "queued"} /\ ~slot'[s].calm
    /\ \A x \in Slots \ {s} : slot'[x] = slot[x] \/ slot'[x] = NoHandler
    /\ UNCHANGED <<secretVars, quiet, lastWriter>>

LEMMA BeginsSuperseding ==
    ASSUME RInv, NEW s \in Slots, NEW cmd,
           BeginRemoval(s, cmd) \/ \E t \in Tokens : BeginSetup(s, cmd, t)
    PROVE  Supersedes(s)
<1>1. slot \in [Slots -> Handlers] /\ generation + 1 \in Nat /\ generation' = generation + 1
      /\ UNCHANGED <<secretVars, quiet, lastWriter>>
  BY DEF RInv, HandlersSound, GenerationsDiffer, BeginRemoval, BeginSetup
<1>2. PICK h : /\ slot' = [Aborted EXCEPT ![s] = h]
               /\ h.at \in {"calling", "queued"} /\ ~h.calm
  <2>1. CASE BeginRemoval(s, cmd)
    <3>1. cmd \in TelegramCommands /\ None \in Token
      BY <2>1 DEF BeginRemoval, TelegramCommands, Token
    <3>2. /\ Handler(cmd, "queued", generation + 1, None).at = "queued"
          /\ ~Handler(cmd, "queued", generation + 1, None).calm
      BY <1>1, <3>1, NewHandler DEF Stations
    <3>3. QED
      BY <2>1, <3>2 DEF BeginRemoval
  <2>2. ASSUME NEW t \in Tokens, BeginSetup(s, cmd, t)
        PROVE  \E h : /\ slot' = [Aborted EXCEPT ![s] = h]
                      /\ h.at \in {"calling", "queued"} /\ ~h.calm
    <3> DEFINE k == Handler(cmd, "calling", generation + 1, t)  h == [k EXCEPT !.ask = "getMe"]
    <3>1. cmd \in TelegramCommands /\ t \in Token
      BY <2>2 DEF BeginSetup, TelegramCommands, Token
    <3>2. k \in Handlers /\ k.at = "calling" /\ ~k.calm
      BY <1>1, <3>1, NewHandler DEF Stations
    <3>3. h.at = "calling" /\ ~h.calm
      BY <3>2 DEF Handlers
    <3>4. slot' = [Aborted EXCEPT ![s] = h]
      BY <2>2 DEF BeginSetup
    <3>5. QED
      BY <3>3, <3>4
  <2>3. QED
    BY <2>1, <2>2
<1>3. slot'[s] = h /\ \A x \in Slots \ {s} : slot'[x] = slot[x] \/ slot'[x] = NoHandler
  BY <1>1, <1>2 DEF Aborted
<1>4. QED
  BY <1>1, <1>2, <1>3 DEF Supersedes

\* What a handler does by itself, and the beginning of a command.
LEMMA ControllerMoves ==
    ASSUME RInv, NEW s \in Slots, ControllerStep(s)
    PROVE  HandlerMoves(s) /\ lastWriter' = lastWriter
<1>1. HandlerMoves(s)
  BY ProviderAcceptsMoves, ProviderFailsMoves, ProviderLimitsMoves, ProviderIsBusyMoves, WakesUpMoves,
     StateReadMoves, StateUnreadableMoves, StartMutationMoves, ComparedMoves, MutationDoneMoves,
     MutationFailsMoves DEF ControllerStep
<1>2. lastWriter' = lastWriter
  BY DEF ControllerStep, ProviderAccepts, ProviderFails, ProviderLimits, ProviderIsBusy,
     WakesUp, StateRead, StateUnreadable, StatusReported, StartMutation, Compared, MutationDone,
     MutationFails
<1>3. QED
  BY <1>1, <1>2

LEMMA CommandMoves ==
    ASSUME RInv, NEW s \in Slots, TelegramCommand(s) \/ TelegramAlert(s)
    PROVE  Supersedes(s) \/ (HandlerMoves(s) /\ UNCHANGED <<quiet, lastWriter>>)
<1>1. slot[s].at = "idle"
  BY DEF TelegramCommand, TelegramAlert, Arrives, Free
<1>2. ASSUME NEW cmd, BeginWithState(s, cmd)
      PROVE  HandlerMoves(s) /\ UNCHANGED <<quiet, lastWriter>>
  BY <1>1, <1>2, BeginWithStateMoves DEF BeginWithState
<1>3. QED
  BY <1>2, BeginsSuperseding DEF TelegramCommand, TelegramAlert

LEMMA HandlerKeepsOrder ==
    ASSUME RInv, WritersInOrder, NEW s \in Slots, HandlerMoves(s), lastWriter' = lastWriter
    PROVE  WritersInOrder'
<1> DEFINE g == slot[s]  h == slot'[s]
<1>1. /\ \A x \in Slots \ {s} : slot'[x] = slot[x]
      /\ generation' = generation
  BY DEF RInv, HandlersSound, HandlerMoves
<1>2. h.at \in Mutating /\ ~IsRemoval(h) => lastWriter <= h.gen
  <2>1. SUFFICES ASSUME h.at \in Mutating, ~IsRemoval(h) PROVE lastWriter <= h.gen
    OBVIOUS
  <2>2. h.gen = g.gen /\ h.cmd = g.cmd /\ (g.at \in Mutating \/ IsRemoval(g) \/ IsCurrent(g))
    BY <2>1 DEF HandlerMoves
  <2>3. ~IsRemoval(g)
    BY <2>1, <2>2 DEF IsRemoval, Mutating
  <2>4. QED
    BY <2>2, <2>3 DEF WritersInOrder, IsCurrent
<1>3. QED
  BY <1>1, <1>2 DEF WritersInOrder

LEMMA SupersedingKeepsOrder ==
    ASSUME RInv, WritersInOrder, NEW s \in Slots, Supersedes(s)
    PROVE  WritersInOrder'
<1>1. lastWriter' = lastWriter /\ generation' = generation + 1 /\ generation \in Nat
  BY DEF Supersedes, RInv, GenerationsDiffer
<1>2. \A x \in Slots : slot'[x].at \in Mutating => slot'[x] = slot[x]
  BY HandlerTypes DEF Supersedes, Mutating
<1>3. QED
  BY <1>1, <1>2 DEF WritersInOrder

\* A write is of the handler that has its turn.
LEMMA WriterHasItsTurn ==
    ASSUME RInv, job.op = "write", job.at = "seal"
    PROVE  /\ job.who \in Slots /\ slot[job.who].at = "storing" /\ ~IsRemoval(slot[job.who])
           /\ \A x \in Slots : slot[x].at \in Mutating => x = job.who
<1>1. job # NoJob /\ job.who \in Slots
  BY LineTypes
<1>2. slot[job.who].at = "storing" /\ slot[job.who].next # None
  BY <1>1 DEF RInv, CallsOwned, WantedOp
<1>3. ~IsRemoval(slot[job.who])
  BY <1>1, <1>2, Known DEF Sound
<1>4. QED
  BY <1>1, <1>2, <1>3 DEF RInv, OneMutates, Mutating

LEMMA StoreKeepsOrder ==
    ASSUME RInv, WritersInOrder, StoreWorks \/ StoreRejects
    PROVE  WritersInOrder'
<1>1. Steady /\ UNCHANGED <<generation, tail>>
  BY DEF StoreWorks, StoreRejects, Steady, controllerVars
<1>2. \A x \in Slots : /\ slot'[x].at = slot[x].at /\ slot'[x].gen = slot[x].gen
                       /\ slot'[x].cmd = slot[x].cmd
  <2>1. CASE slot' = slot
    BY <2>1
  <2>2. CASE slot' = [s \in Slots |-> [slot[s] EXCEPT !.calm = FALSE]]
    BY <2>2, Known DEF Handlers
  <2>3. QED
    BY <1>1, <2>1, <2>2 DEF Steady
<1>3. \A x \in Slots : IsRemoval(slot'[x]) <=> IsRemoval(slot[x])
  BY <1>2 DEF IsRemoval
<1>4. CASE lastWriter' = lastWriter
  BY <1>1, <1>2, <1>3, <1>4 DEF WritersInOrder
<1>5. CASE job.at = "seal" /\ job.op = "write" /\ lastWriter' = slot[job.who].gen
  <2>1. job.who \in Slots /\ \A x \in Slots : slot[x].at \in Mutating => x = job.who
    BY <1>5, WriterHasItsTurn
  <2>2. lastWriter' \in Nat /\ lastWriter' <= generation
    BY <1>5, <2>1, Known
  <2>3. \A x \in Slots : slot'[x].at \in Mutating => lastWriter' <= slot'[x].gen
    BY <1>2, <1>5, <2>1, <2>2
  <2>4. QED
    BY <1>1, <2>2, <2>3 DEF WritersInOrder
<1>6. QED
  BY <1>4, <1>5 DEF StoreWorks, StoreRejects, controllerVars

LEMMA StepKeepsOrder == RInv /\ WritersInOrder /\ [Next]_vars => WritersInOrder'
<1> SUFFICES ASSUME RInv, WritersInOrder, [Next]_vars PROVE WritersInOrder'
  OBVIOUS
<1>1. CASE UNCHANGED telegramVars
  BY <1>1 DEF telegramVars, controllerVars, WritersInOrder
<1>2. CASE StoreWorks \/ StoreRejects
  BY <1>2, StoreKeepsOrder
<1>3. CASE ControllerDie
  BY <1>3, HandlerTypes DEF ControllerDie, WritersInOrder, Mutating
<1>4. CASE \E s \in Slots : ControllerStep(s)
  BY <1>4, ControllerMoves, HandlerKeepsOrder
<1>5. ASSUME NEW s \in Slots,
             \/ JoinWatchQueue(s) \/ StartWatchMutation(s) \/ GateAnswered(s)
             \/ WatchSaved(s) \/ WatchNotSaved(s) \/ EditWatch(s)
      PROVE  WritersInOrder'
  <2>1. HandlerMoves(s)
    BY <1>5, JoinWatchQueueMoves, StartWatchMutationMoves, GateAnsweredMoves, WatchSavedMoves,
       EditWatchMoves
  <2>2. lastWriter' = lastWriter
    BY <1>5 DEF JoinWatchQueue, StartWatchMutation, GateAnswered, WatchSaved, WatchNotSaved, EditWatch
  <2>3. QED
    BY <2>1, <2>2, HandlerKeepsOrder
<1>6. CASE \E s \in Slots : TelegramCommand(s) \/ TelegramAlert(s)
  BY <1>6, CommandMoves, SupersedingKeepsOrder, HandlerKeepsOrder
<1>7. QED
  BY <1>1, <1>2, <1>3, <1>4, <1>5, <1>6, StepKinds

\* Writes that take effect do so in the order of their generations, whatever else
\* is under way: a setup that was overtaken never replaces what a newer one stored
\* (telegram.ts:562-580).
THEOREM NewestSetupAlwaysWins == Spec => NewestSetupWins
<1>1. Init => WritersInOrder
  BY HandlerTypes DEF Init, ControllerInit, WritersInOrder, Mutating
<1>2. RInv /\ WritersInOrder =>
         (job.at = "seal" /\ job.op = "write" /\ disk'.enc # disk.enc
             => slot[job.who].gen >= lastWriter)
  <2>1. SUFFICES ASSUME RInv, WritersInOrder, job.at = "seal", job.op = "write"
                 PROVE  slot[job.who].gen >= lastWriter
    OBVIOUS
  <2>2. QED
    BY <2>1, WriterHasItsTurn, Known DEF WritersInOrder, Mutating
<1>3. QED
  BY <1>1, <1>2, StepKeepsOrder, RInvAlways, PTL DEF Spec, NewestSetupWins

-------------------------------------------------------------------------------
(***************************************************************************)
(* After a disconnect has run to its end no watch alerts on Telegram until *)
(* a connection is stored again, for any number of handlers and tokens and *)
(* any bounds: whatever edits were in the queue or at its gate.            *)
(***************************************************************************)


\* No connection is stored, and nobody is about to hear of one.
NothingConnected ==
    /\ ~Connected(disk.enc) /\ ~Connected(disk.legacy)
    /\ job.op = "read" => ~Connected(job.value)

\* While the ghosts of a disconnect last there is no connection.
CalmMeansGone ==
    /\ quiet \in BOOLEAN
    /\ quiet \/ (\E s \in Slots : slot[s].calm) => NothingConnected

\* Who waits for the watches is in their queue, and who is at the gate or saves is
\* its first.
EachInTurn ==
    /\ watchTail \in Seq(Slots)
    /\ \A s \in Slots : slot[s].at \in Watching => \E i \in 1 .. Len(watchTail) : watchTail[i] = s
    /\ \A s \in Slots : slot[s].at \in {"gating", "saving"} => Head(watchTail) = s

\* An edit that has passed its gate does not bring Telegram back.
QuietMeansOff ==
    quiet => /\ watch # "on"
             /\ \A s \in Slots : slot[s].at = "saving" /\ slot[s].cmd \in WatchCommands
                                    => slot[s].want # "on"

WInv == RInv /\ CalmMeansGone /\ EachInTurn /\ QuietMeansOff

-------------------------------------------------------------------------------
(* Whether a connection is stored.                                         *)

LEMMA NoneIsNotConnected == ~Connected(None)
BY DEF Connected

\* The store brings a connection back only where it seals one.
LEMMA StoreKeepsGone ==
    ASSUME SInv, SecretsStep \/ Reject, NothingConnected, ~(job.at = "seal" /\ Connected(job.value))
    PROVE  NothingConnected'
<1>1. /\ disk \in [enc : Record, legacy : Record, key : BOOLEAN] /\ line \in Seq(Calls)
      /\ job \in Jobs \cup {NoJob}
  BY DEF SInv, TypeInv
<1>2. CASE TakeUp
  <2>1. /\ disk' = disk /\ job'.op = Head(line).op /\ job'.value = Head(line).value
        /\ Head(line) \in Calls
    BY <1>1, <1>2 DEF TakeUp
  <2>2. job'.op = "read" => job'.value = None
    BY <2>1 DEF Calls
  <2>3. QED
    BY <2>1, <2>2, NoneIsNotConnected DEF NothingConnected, Connected
<1>3. CASE ~TakeUp
  <2>1. /\ job \in Jobs /\ job.at \in Stages
    BY <1>3, ServedJob DEF SecretsStep, Reject, Open, FetchKey, Seal, Verify, DropLegacy, DropEnc,
       DropKey, Stages, SInv
  <2>2. /\ \A a \in Stages : [job EXCEPT !.at = a].op = job.op /\ [job EXCEPT !.at = a].value = job.value
        /\ \A v \in Record, a \in Stages : /\ [job EXCEPT !.value = v, !.at = a].op = job.op
                                           /\ [job EXCEPT !.value = v, !.at = a].value = v
    BY <2>1 DEF Jobs, Record
  <2>3. disk.enc \in Record /\ disk.legacy \in Record
    BY <1>1
  <2>4. CASE Open
    <3>1. disk' = disk
      BY <2>4 DEF Open
    <3>2. CASE job.op = "read" /\ disk.enc # None
      <4>1. job' = [job EXCEPT !.value = disk.enc, !.at = "dropLegacy"]
        BY <2>4, <3>2 DEF Open
      <4>2. job'.value = disk.enc
        BY <2>2, <2>3, <4>1 DEF Stages
      <4>3. QED
        BY <3>1, <4>2 DEF NothingConnected, Connected
    <3>3. CASE job.op = "read" /\ disk.enc = None /\ disk.legacy # None
      <4>1. job' = [job EXCEPT !.value = disk.legacy, !.at = "key"]
        BY <2>4, <3>3 DEF Open
      <4>2. job'.value = disk.legacy
        BY <2>2, <2>3, <4>1 DEF Stages
      <4>3. QED
        BY <3>1, <4>2 DEF NothingConnected, Connected
    <3>4. CASE ~(job.op = "read" /\ disk.enc # None) /\ ~(job.op = "read" /\ disk.enc = None /\ disk.legacy # None)
      <4>1. job' = [job EXCEPT !.at = "key"] \/ job' = [job EXCEPT !.at = "answer"]
        BY <2>4, <3>4 DEF Open
      <4>2. job'.op = job.op /\ job'.value = job.value
        BY <2>2, <4>1 DEF Stages
      <4>3. QED
        BY <3>1, <4>2 DEF NothingConnected, Connected
    <3>5. QED
      BY <3>2, <3>3, <3>4
  <2>5. CASE ~Open
    <3>1. /\ job'.op = job.op /\ job'.value = job.value
      <4>1. \E a \in Stages : job' = [job EXCEPT !.at = a]
        BY <1>3, <2>5 DEF SecretsStep, Reject, FetchKey, Seal, Verify, DropLegacy, DropEnc, DropKey, Stages
      <4>2. QED
        BY <2>2, <4>1
    <3>2. ~Connected(disk'.enc) /\ ~Connected(disk'.legacy)
      <4>1. CASE UNCHANGED disk
        BY <4>1 DEF NothingConnected
      <4>2. CASE FetchKey
        <5>1. disk'.enc = disk.enc /\ disk'.legacy = disk.legacy
          BY <1>1, <4>2 DEF FetchKey
        <5>2. QED
          BY <5>1 DEF NothingConnected
      <4>3. CASE Seal
        <5>1. disk'.enc = job.value /\ disk'.legacy = disk.legacy /\ job.at = "seal"
          BY <1>1, <4>3 DEF Seal
        <5>2. QED
          BY <5>1 DEF NothingConnected
      <4>4. CASE DropLegacy
        <5>1. disk'.enc = disk.enc /\ disk'.legacy = None
          BY <1>1, <4>4 DEF DropLegacy
        <5>2. QED
          BY <5>1, NoneIsNotConnected DEF NothingConnected
      <4>5. CASE DropEnc
        <5>1. disk'.enc = None /\ disk'.legacy = disk.legacy
          BY <1>1, <4>5 DEF DropEnc
        <5>2. QED
          BY <5>1, NoneIsNotConnected DEF NothingConnected
      <4>6. CASE DropKey
        <5>1. job.at = "dropKey" /\ job.op = "remove"
          BY <4>6 DEF DropKey, SInv, JobIsOnCourse
        <5>2. disk.enc = None
          BY <5>1 DEF SInv, JobIsOnCourse
        <5>3. disk'.enc = None /\ disk'.legacy = disk.legacy
          BY <1>1, <4>6, <5>2 DEF DropKey
        <5>4. QED
          BY <5>3, NoneIsNotConnected DEF NothingConnected
      <4>7. QED
        BY <1>3, <2>5, <4>1, <4>2, <4>3, <4>4, <4>5, <4>6 DEF SecretsStep, Reject, Verify
    <3>3. QED
      BY <3>1, <3>2 DEF NothingConnected, Connected
  <2>6. QED
    BY <2>4, <2>5
<1>4. QED
  BY <1>2, <1>3

LEMMA StoreKeepsCalm ==
    ASSUME RInv, CalmMeansGone, StoreWorks \/ StoreRejects
    PROVE  CalmMeansGone'
<1>1. CASE StoreWorks /\ job.at = "seal" /\ Connected(job.value)
  <2>1. quiet' = FALSE /\ slot' = [s \in Slots |-> [slot[s] EXCEPT !.calm = FALSE]]
    BY <1>1 DEF StoreWorks
  <2>2. \A s \in Slots : ~slot'[s].calm
    BY <2>1, Known DEF Handlers
  <2>3. QED
    BY <2>1, <2>2 DEF CalmMeansGone
<1>2. CASE StoreRejects \/ ~(job.at = "seal" /\ Connected(job.value))
  <2>1. UNCHANGED <<quiet, slot>>
    BY <1>2 DEF StoreWorks, StoreRejects, controllerVars
  <2>2. NothingConnected => NothingConnected'
    <3>1. CASE StoreRejects
      <4>1. Reject
        BY <3>1 DEF StoreRejects
      <4>2. disk' = disk /\ job \in Jobs /\ job' = [job EXCEPT !.at = "failed"]
        BY <4>1, ServedJob DEF Reject, RInv, SInv, Stages
      <4>3. job'.op = job.op /\ job'.value = job.value
        BY <4>2 DEF Jobs
      <4>4. QED
        BY <4>2, <4>3 DEF NothingConnected, Connected
    <3>2. CASE StoreWorks
      BY <1>2, <3>1, <3>2, StoreKeepsGone DEF StoreWorks, RInv
    <3>3. QED
      BY <3>1, <3>2
  <2>3. QED
    BY <2>1, <2>2 DEF CalmMeansGone
<1>3. QED
  BY <1>1, <1>2

\* A removal that the store acknowledges leaves no connection; other mutations that
\* are done pass no calm on.
LEMMA DoneKeepsCalm ==
    ASSUME RInv, CalmMeansGone, NEW s \in Slots, MutationDone(s)
    PROVE  CalmMeansGone'
<1> DEFINE g == slot[s]
<1>1. /\ HandlerMoves(s) /\ disk' = disk /\ quiet' = quiet /\ job' = NoJob
      /\ g \in Handlers /\ Sound(g) /\ g.at = "storing"
      /\ job.who = s /\ job.at = "answer"
      /\ \A x \in Slots \ {s} : slot'[x] = slot[x]
  BY MutationDoneMoves, Known DEF MutationDone, Answered, Answer, HandlerMoves, RInv, HandlersSound
<1>2. job'.op # "read"
  BY <1>1, NoJobIsIdle, SecretsConstants
<1>3. CASE g.cmd \in RemovalCommands
  <2>1. job # NoJob /\ job.op = "remove"
    BY <1>1, <1>3 DEF RInv, CallsOwned, WantedOp, NoJob, Sound, IsRemoval
  <2>2. disk.enc = None /\ disk.legacy = None
    BY <1>1, <2>1 DEF RInv, SInv, JobIsOnCourse
  <2>3. QED
    BY <1>1, <1>2, <2>2, NoneIsNotConnected DEF CalmMeansGone, NothingConnected
<1>4. CASE g.cmd \notin RemovalCommands
  <2>1. slot'[s].calm => g.calm
    <3>1. \/ Become(s, Calling([g EXCEPT !.seen = g.next], "getUpdates", g.token))
          \/ Become(s, [g EXCEPT !.at = "reporting"])
          \/ Become(s, NoHandler)
      BY <1>4 DEF MutationDone, AfterMutation, Ends
    <3>2. \A ask, t : Calling([g EXCEPT !.seen = g.next], ask, t).calm => g.calm
      BY <1>1, HandlerTypes DEF Calling, Handlers
    <3>3. [g EXCEPT !.at = "reporting"].calm = g.calm
      BY <1>1 DEF Handlers
    <3>4. \/ slot'[s] = Calling([g EXCEPT !.seen = g.next], "getUpdates", g.token)
          \/ slot'[s] = [g EXCEPT !.at = "reporting"]
          \/ slot'[s] = NoHandler
      BY <3>1 DEF Become, RInv, HandlersSound
    <3>5. QED
      BY <3>2, <3>3, <3>4, HandlerTypes
  <2>2. QED
    BY <1>1, <1>2, <2>1 DEF CalmMeansGone, NothingConnected
<1>5. QED
  BY <1>3, <1>4

\* What any other move of a handler does.
LEMMA MoveKeepsCalm ==
    ASSUME RInv, CalmMeansGone, NEW s \in Slots, HandlerMoves(s), ~MutationDone(s),
           quiet' \in BOOLEAN, quiet' => quiet \/ slot[s].calm
    PROVE  CalmMeansGone'
<1>1. /\ disk' = disk /\ (job' = job \/ job' = NoJob)
      /\ slot'[s].calm => slot[s].calm
      /\ \A x \in Slots \ {s} : slot'[x] = slot[x]
  BY DEF HandlerMoves, RInv, HandlersSound
<1>2. NothingConnected => NothingConnected'
  BY <1>1, NoJobIsIdle, SecretsConstants DEF NothingConnected, Connected
<1>3. QED
  BY <1>1, <1>2 DEF CalmMeansGone

LEMMA SupersedingKeepsCalm ==
    ASSUME RInv, CalmMeansGone, NEW s \in Slots, Supersedes(s)
    PROVE  CalmMeansGone'
<1>1. /\ UNCHANGED <<disk, job, quiet>>
      /\ \A x \in Slots : slot'[x].calm => slot[x].calm
  BY HandlerTypes DEF Supersedes, secretVars
<1>2. QED
  BY <1>1 DEF CalmMeansGone, NothingConnected

-------------------------------------------------------------------------------
(* The queue of watch mutations.                                           *)

\* A handler that is not in the queue and does not join it.
LEMMA AwayKeepsWatch ==
    ASSUME EachInTurn, QuietMeansOff, UNCHANGED <<watch, watchTail, quiet>>,
           \A x \in Slots : slot'[x].at \in Watching =>
              slot'[x].at = slot[x].at /\ slot'[x].cmd = slot[x].cmd /\ slot'[x].want = slot[x].want
    PROVE  EachInTurn' /\ QuietMeansOff'
<1>1. EachInTurn'
  BY DEF EachInTurn, Watching
<1>2. QuietMeansOff'
  BY DEF QuietMeansOff, Watching
<1>3. QED
  BY <1>1, <1>2

\* A handler joins the queue.
LEMMA JoiningKeepsWatch ==
    ASSUME EachInTurn, QuietMeansOff, NEW s \in Slots,
           slot'[s].at = "waiting", \A x \in Slots \ {s} : slot'[x] = slot[x],
           watchTail' = Append(watchTail, s), UNCHANGED <<watch, quiet>>
    PROVE  EachInTurn' /\ QuietMeansOff'
<1>1. /\ watchTail' \in Seq(Slots) /\ Len(watchTail) \in Nat /\ Len(watchTail') = Len(watchTail) + 1
      /\ \A i \in 1 .. Len(watchTail) : watchTail'[i] = watchTail[i] /\ i \in 1 .. Len(watchTail')
      /\ watchTail'[Len(watchTail) + 1] = s /\ Len(watchTail) + 1 \in 1 .. Len(watchTail')
      /\ watchTail # <<>> => Head(watchTail') = Head(watchTail)
  BY DEF EachInTurn
<1>2. \A x \in Slots : slot'[x].at \in Watching => \E i \in 1 .. Len(watchTail') : watchTail'[i] = x
  BY <1>1 DEF EachInTurn
<1>3. \A x \in Slots : slot'[x].at \in {"gating", "saving"} => Head(watchTail') = x
  <2>1. \A x \in Slots : slot'[x].at \in {"gating", "saving"} =>
           x # s /\ slot[x].at \in {"gating", "saving"} /\ watchTail # <<>>
    BY DEF EachInTurn, Watching
  <2>2. QED
    BY <1>1, <2>1 DEF EachInTurn
<1>4. QuietMeansOff'
  BY DEF QuietMeansOff
<1>5. QED
  BY <1>1, <1>2, <1>3, <1>4 DEF EachInTurn

\* The first of the queue goes on within it.
LEMMA FirstKeepsWatch ==
    ASSUME EachInTurn, QuietMeansOff, NEW s \in Slots,
           slot[s].at \in Watching, Head(watchTail) = s,
           slot'[s].at = "saving" /\ slot'[s].cmd \in WatchCommands => quiet = FALSE \/ slot'[s].want # "on",
           \A x \in Slots \ {s} : slot'[x] = slot[x], UNCHANGED <<watch, watchTail, quiet>>
    PROVE  EachInTurn' /\ QuietMeansOff'
<1>1. EachInTurn'
  BY DEF EachInTurn, Watching
<1>2. QuietMeansOff'
  BY DEF QuietMeansOff
<1>3. QED
  BY <1>1, <1>2

\* The first of the queue has saved or failed, and the others move up.
LEMMA LeavingKeepsTurns ==
    ASSUME EachInTurn, NEW s \in Slots,
           slot[s].at = "saving", slot'[s].at \notin Watching,
           \A x \in Slots \ {s} : slot'[x] = slot[x], watchTail' = Tail(watchTail)
    PROVE  EachInTurn' /\ \A x \in Slots : slot'[x].at # "saving"
<1>1. Head(watchTail) = s /\ watchTail \in Seq(Slots) /\ Len(watchTail) \in Nat
      /\ \A x \in Slots : slot[x].at \in {"gating", "saving"} => x = s
  BY DEF EachInTurn
<1>2. watchTail # <<>> /\ watchTail[1] = s
  <2>1. PICK i \in 1 .. Len(watchTail) : watchTail[i] = s
    BY DEF EachInTurn, Watching
  <2>2. QED
    BY <1>1, <2>1
<1>3. /\ watchTail' \in Seq(Slots) /\ Len(watchTail') = Len(watchTail) - 1
      /\ \A i \in 1 .. Len(watchTail') : watchTail'[i] = watchTail[i + 1]
      /\ \A i \in 1 .. Len(watchTail) : i # 1 => i - 1 \in 1 .. Len(watchTail') /\ watchTail'[i - 1] = watchTail[i]
  BY <1>1, <1>2
<1>4. \A x \in Slots : slot'[x].at \in Watching => x # s /\ slot[x].at \in Watching
  OBVIOUS
<1>5. ASSUME NEW x \in Slots, slot'[x].at \in Watching
      PROVE  \E i \in 1 .. Len(watchTail') : watchTail'[i] = x
  <2>1. PICK i \in 1 .. Len(watchTail) : watchTail[i] = x
    BY <1>4, <1>5 DEF EachInTurn
  <2>2. i # 1
    BY <1>2, <1>4, <1>5, <2>1
  <2>3. QED
    BY <1>3, <2>1, <2>2
<1>6. \A x \in Slots : slot'[x].at \notin {"gating", "saving"}
  BY <1>1, <1>4 DEF Watching
<1>7. QED
  BY <1>3, <1>5, <1>6 DEF EachInTurn

LEMMA WatchSteps ==
    ASSUME WInv, NEW s \in Slots,
           \/ JoinWatchQueue(s) \/ StartWatchMutation(s) \/ GateAnswered(s)
           \/ WatchSaved(s) \/ WatchNotSaved(s) \/ EditWatch(s)
    PROVE  CalmMeansGone' /\ EachInTurn' /\ QuietMeansOff'
<1> DEFINE g == slot[s]
<1>1. /\ HandlerMoves(s) /\ g \in Handlers
      /\ \A x \in Slots \ {s} : slot'[x] = slot[x]
      /\ \A h : Become(s, h) => slot'[s] = h
  BY JoinWatchQueueMoves, StartWatchMutationMoves, GateAnsweredMoves, WatchSavedMoves, EditWatchMoves,
     Known, Became DEF WInv, HandlerMoves, RInv, HandlersSound
<1>2. ~MutationDone(s)
  BY DEF MutationDone, JoinWatchQueue, StartWatchMutation, GateAnswered, WatchSaved, WatchNotSaved,
     EditWatch, Arrives, Free
<1>3. quiet' \in BOOLEAN /\ (quiet' => quiet \/ g.calm)
  <2>1. g.calm \in BOOLEAN /\ quiet \in BOOLEAN
    BY <1>1 DEF Handlers, WInv, CalmMeansGone
  <2>2. CASE WatchSaved(s)
    BY <2>1, <2>2 DEF WatchSaved
  <2>3. CASE ~WatchSaved(s)
    BY <2>1, <2>3 DEF JoinWatchQueue, StartWatchMutation, GateAnswered, WatchNotSaved, EditWatch
  <2>4. QED
    BY <2>2, <2>3
<1>4. CalmMeansGone'
  BY <1>1, <1>2, <1>3, MoveKeepsCalm DEF WInv
<1>5. CASE JoinWatchQueue(s)
  <2>1. slot'[s].at = "waiting"
    BY <1>1, <1>5 DEF JoinWatchQueue, Handlers
  <2>2. QED
    BY <1>1, <1>4, <1>5, <2>1, JoiningKeepsWatch DEF JoinWatchQueue, WInv
<1>6. CASE EditWatch(s)
  <2>1. slot'[s].at = "waiting"
    <3>1. PICK cmd \in WatchCommands, want \in WatchStates :
             Become(s, [Handler(cmd, "waiting", 0, None) EXCEPT !.want = want])
      BY <1>6 DEF EditWatch
    <3>2. Handler(cmd, "waiting", 0, None) \in Handlers /\ Handler(cmd, "waiting", 0, None).at = "waiting"
      BY NewHandler DEF Stations, Token
    <3>3. [Handler(cmd, "waiting", 0, None) EXCEPT !.want = want].at = "waiting"
      BY <3>2 DEF Handlers
    <3>4. QED
      BY <1>1, <3>1, <3>3
  <2>2. QED
    BY <1>1, <1>4, <1>6, <2>1, JoiningKeepsWatch DEF EditWatch, WInv
<1>7. CASE StartWatchMutation(s)
  <2>1. /\ g.at = "waiting" /\ Head(watchTail) = s /\ UNCHANGED <<watch, watchTail, quiet>>
    BY <1>7 DEF StartWatchMutation, runtimeVars
  <2>2. slot'[s].at = "saving" => slot'[s].want # "on"
    <3>1. CASE g.want \in {"on", "off"}
      <4>1. slot'[s] = [g EXCEPT !.at = "gating"]
        BY <1>1, <1>7, <3>1 DEF StartWatchMutation
      <4>2. QED
        BY <1>1, <4>1 DEF Handlers
    <3>2. CASE g.want \notin {"on", "off"}
      <4>1. slot'[s] = [g EXCEPT !.at = "saving"]
        BY <1>1, <1>7, <3>2 DEF StartWatchMutation
      <4>2. QED
        BY <1>1, <3>2, <4>1 DEF Handlers
    <3>3. QED
      BY <3>1, <3>2
  <2>3. QED
    BY <1>1, <1>4, <2>1, <2>2, FirstKeepsWatch DEF WInv, Watching
<1>8. CASE GateAnswered(s)
  <2> DEFINE w == Gated(g.want, Answered(s) /\ Connected(job.value))
  <2>1. /\ g.at = "gating" /\ (Answered(s) \/ Refused(s)) /\ UNCHANGED <<watch, watchTail, quiet>>
        /\ slot'[s] = [g EXCEPT !.at = "saving", !.want = w]
    BY <1>1, <1>8 DEF GateAnswered, runtimeVars
  <2>2. slot'[s].want = w /\ Head(watchTail) = s
    BY <1>1, <2>1 DEF Handlers, WInv, EachInTurn
  <2>3. job.op = "read"
    <3>1. job # NoJob /\ job.who = s
      BY <2>1 DEF Answered, Refused, NoJob
    <3>2. QED
      BY <2>1, <3>1 DEF WInv, RInv, CallsOwned, WantedOp
  <2>4. quiet => w = "off"
    BY <2>3 DEF WInv, CalmMeansGone, NothingConnected, Gated
  <2>5. QED
    BY <1>1, <1>4, <2>1, <2>2, <2>4, FirstKeepsWatch DEF WInv, Watching, CalmMeansGone
<1>9. CASE WatchSaved(s)
  <2>1. /\ g.at = "saving" /\ watchTail' = Tail(watchTail) /\ watch' = SavedWatch(g)
        /\ quiet' = IF g.cmd \in WatchCommands THEN quiet ELSE g.calm
    BY <1>9 DEF WatchSaved
  <2>2. slot'[s].at \notin Watching
    <3>1. slot'[s] = [g EXCEPT !.at = "reporting"] \/ slot'[s] = NoHandler
      BY <1>1, <1>9 DEF WatchSaved, Ends
    <3>2. [g EXCEPT !.at = "reporting"].at = "reporting"
      BY <1>1 DEF Handlers
    <3>3. QED
      BY <3>1, <3>2, HandlerTypes DEF Watching
  <2>3. EachInTurn' /\ \A x \in Slots : slot'[x].at # "saving"
    BY <1>1, <2>1, <2>2, LeavingKeepsTurns DEF WInv
  <2>4. quiet' => watch' # "on"
    <3>1. CASE g.cmd \in WatchCommands
      <4>1. quiet' => watch # "on" /\ g.want # "on"
        BY <2>1, <3>1 DEF WInv, QuietMeansOff
      <4>2. QED
        BY <2>1, <3>1, <4>1 DEF SavedWatch, WatchCommands
    <3>2. CASE g.cmd \notin WatchCommands
      BY <2>1, <3>2 DEF SavedWatch, WatchCommands
    <3>3. QED
      BY <3>1, <3>2
  <2>5. QED
    BY <1>4, <2>3, <2>4 DEF QuietMeansOff
<1>10. CASE WatchNotSaved(s)
  <2>1. g.at = "saving" /\ watchTail' = Tail(watchTail) /\ UNCHANGED <<watch, quiet>> /\ slot'[s] = NoHandler
    BY <1>1, <1>10 DEF WatchNotSaved, Ends
  <2>2. EachInTurn' /\ \A x \in Slots : slot'[x].at # "saving"
    BY <1>1, <2>1, HandlerTypes, LeavingKeepsTurns DEF WInv, Watching
  <2>3. QED
    BY <1>4, <2>1, <2>2 DEF WInv, QuietMeansOff
<1>11. QED
  BY <1>5, <1>6, <1>7, <1>8, <1>9, <1>10

-------------------------------------------------------------------------------
(* The other steps.                                                        *)

LEMMA ControllerKeepsWInv ==
    ASSUME WInv, NEW s \in Slots, ControllerStep(s), UNCHANGED <<watch, watchTail>>
    PROVE  CalmMeansGone' /\ EachInTurn' /\ QuietMeansOff'
<1>1. HandlerMoves(s) /\ \A x \in Slots \ {s} : slot'[x] = slot[x]
  BY ControllerMoves DEF WInv, HandlerMoves, RInv, HandlersSound
<1>2. quiet' = quiet
  BY DEF ControllerStep, ProviderAccepts, ProviderFails, ProviderLimits, ProviderIsBusy,
     WakesUp, StateRead, StateUnreadable, StatusReported, StartMutation, Compared, MutationDone,
     MutationFails
<1>3. slot[s].at \notin Watchers
  BY DEF ControllerStep, ProviderAccepts, ProviderFails, ProviderLimits, ProviderIsBusy,
     WakesUp, StateRead, StateUnreadable, StatusReported, StartMutation, Compared, MutationDone,
     MutationFails, Watchers, Watching
<1>4. slot'[s].at \notin Watching
  BY <1>1, <1>3 DEF HandlerMoves
<1>5. EachInTurn' /\ QuietMeansOff'
  BY <1>1, <1>2, <1>4, AwayKeepsWatch DEF WInv
<1>6. CalmMeansGone'
  <2>1. CASE MutationDone(s)
    BY <2>1, DoneKeepsCalm DEF WInv
  <2>2. CASE ~MutationDone(s)
    BY <1>1, <1>2, <2>2, MoveKeepsCalm DEF WInv, CalmMeansGone
  <2>3. QED
    BY <2>1, <2>2
<1>7. QED
  BY <1>5, <1>6

LEMMA CommandKeepsWInv ==
    ASSUME WInv, NEW s \in Slots, TelegramCommand(s) \/ TelegramAlert(s)
    PROVE  CalmMeansGone' /\ EachInTurn' /\ QuietMeansOff'
<1>1. slot[s].at = "idle" /\ UNCHANGED <<watch, watchTail>>
  BY DEF TelegramCommand, TelegramAlert, Arrives, Free
<1>2. ASSUME Supersedes(s) PROVE CalmMeansGone' /\ EachInTurn' /\ QuietMeansOff'
  <2>1. \A x \in Slots : slot'[x].at \in Watching => slot'[x] = slot[x]
    BY <1>2, HandlerTypes DEF Supersedes, Watching
  <2>2. quiet' = quiet
    BY <1>2 DEF Supersedes
  <2>3. QED
    BY <1>1, <1>2, <2>1, <2>2, SupersedingKeepsCalm, AwayKeepsWatch DEF WInv
<1>3. ASSUME NEW cmd, BeginWithState(s, cmd) PROVE CalmMeansGone' /\ EachInTurn' /\ QuietMeansOff'
  <2>1. HandlerMoves(s) /\ quiet' = quiet /\ \A x \in Slots \ {s} : slot'[x] = slot[x]
    BY <1>1, <1>3, BeginWithStateMoves DEF WInv, BeginWithState, HandlerMoves, RInv, HandlersSound
  <2>2. slot'[s].at \in {"reporting", "reading"}
    <3>1. PICK a \in {"reporting", "reading"} : Become(s, Handler(cmd, a, generation, None))
      BY <1>3 DEF BeginWithState
    <3>2. Handler(cmd, a, generation, None).at = a
      BY DEF Handler, NoHandler
    <3>3. QED
      BY <3>1, <3>2, Became DEF WInv
  <2>3. ~MutationDone(s)
    BY <1>1 DEF MutationDone
  <2>4. CalmMeansGone'
    BY <2>1, <2>3, MoveKeepsCalm DEF WInv, CalmMeansGone
  <2>5. QED
    BY <1>1, <2>1, <2>2, <2>4, AwayKeepsWatch DEF WInv, Watching
<1>4. QED
  BY <1>1, <1>2, <1>3, BeginsSuperseding DEF TelegramCommand, TelegramAlert, WInv

\* What the steps do to the watch and to its queue.
LEMMA WatchKinds ==
    ASSUME [Next]_vars
    PROVE  \/ UNCHANGED <<telegramVars, watchTail>> /\ watch' \in {watch, "none"}
           \/ (StoreWorks \/ StoreRejects) /\ UNCHANGED <<watch, watchTail>>
           \/ ControllerDie /\ watchTail' = <<>> /\ watch' = watch
           \/ \E s \in Slots :
                 \/ ControllerStep(s) /\ UNCHANGED <<watch, watchTail>>
                 \/ JoinWatchQueue(s) \/ StartWatchMutation(s) \/ GateAnswered(s)
                 \/ WatchSaved(s) \/ WatchNotSaved(s) \/ EditWatch(s)
                 \/ TelegramCommand(s) \/ TelegramAlert(s)
<1>1. CASE SystemStep
  BY <1>1 DEF SystemStep, runtimeVars
<1>2. CASE \E s \in Slots : TelegramCommand(s) \/ TelegramAlert(s) \/ EditWatch(s) \/ WatchNotSaved(s)
  BY <1>2
<1>3. CASE DesktopAlert \/ DesktopCommand \/ DesktopFails \/ DesktopPasses \/ TimePasses
  BY <1>3 DEF DesktopAlert, DesktopCommand, DesktopFails, DesktopPasses, TimePasses, runtimeVars
<1>4. CASE ResetWatches \/ StoreFails \/ WorkerDies
  BY <1>4 DEF ResetWatches, StoreFails, WorkerDies
<1>5. CASE UNCHANGED vars
  BY <1>5 DEF vars, telegramVars, runtimeVars
<1>6. QED
  BY <1>1, <1>2, <1>3, <1>4, <1>5 DEF Next

LEMMA StepKeepsWInv == WInv /\ [Next]_vars => WInv'
<1> SUFFICES ASSUME WInv, [Next]_vars PROVE CalmMeansGone' /\ EachInTurn' /\ QuietMeansOff'
  BY StepKeepsRInv DEF WInv
<1>1. CASE UNCHANGED <<telegramVars, watchTail>> /\ watch' \in {watch, "none"}
  BY <1>1 DEF telegramVars, secretVars, controllerVars, WInv, CalmMeansGone, NothingConnected, EachInTurn,
     QuietMeansOff, Connected
<1>2. CASE (StoreWorks \/ StoreRejects) /\ UNCHANGED <<watch, watchTail>>
  <2>1. CalmMeansGone'
    BY <1>2, StoreKeepsCalm DEF WInv
  <2>2. /\ quiet' = quiet \/ quiet' = FALSE
        /\ slot' = slot \/ slot' = [s \in Slots |-> [slot[s] EXCEPT !.calm = FALSE]]
    BY <1>2 DEF StoreWorks, StoreRejects, controllerVars
  <2>3. \A x \in Slots : slot'[x].at = slot[x].at /\ slot'[x].cmd = slot[x].cmd /\ slot'[x].want = slot[x].want
    BY <2>2, Known DEF WInv, Handlers
  <2>4. EachInTurn'
    BY <1>2, <2>3 DEF WInv, EachInTurn
  <2>5. QuietMeansOff'
    BY <1>2, <2>2, <2>3 DEF WInv, QuietMeansOff
  <2>6. QED
    BY <2>1, <2>4, <2>5
<1>3. CASE ControllerDie /\ watchTail' = <<>> /\ watch' = watch
  <2>1. /\ disk' = disk /\ job' = NoJob /\ quiet' = quiet /\ \A s \in Slots : slot'[s] = NoHandler
    BY <1>3 DEF ControllerDie, SecretsDie
  <2>2. CalmMeansGone'
    BY <2>1, NoJobIsIdle, HandlerTypes, SecretsConstants DEF WInv, CalmMeansGone, NothingConnected, Connected
  <2>3. EachInTurn' /\ QuietMeansOff'
    BY <1>3, <2>1, HandlerTypes DEF WInv, EachInTurn, QuietMeansOff, Watching
  <2>4. QED
    BY <2>2, <2>3
<1>4. ASSUME NEW s \in Slots, ControllerStep(s) /\ UNCHANGED <<watch, watchTail>>
      PROVE  CalmMeansGone' /\ EachInTurn' /\ QuietMeansOff'
  BY <1>4, ControllerKeepsWInv
<1>5. ASSUME NEW s \in Slots,
             \/ JoinWatchQueue(s) \/ StartWatchMutation(s) \/ GateAnswered(s)
             \/ WatchSaved(s) \/ WatchNotSaved(s) \/ EditWatch(s)
      PROVE  CalmMeansGone' /\ EachInTurn' /\ QuietMeansOff'
  BY <1>5, WatchSteps
<1>6. ASSUME NEW s \in Slots, TelegramCommand(s) \/ TelegramAlert(s)
      PROVE  CalmMeansGone' /\ EachInTurn' /\ QuietMeansOff'
  BY <1>6, CommandKeepsWInv
<1>7. QED
  BY <1>1, <1>2, <1>3, <1>4, <1>5, <1>6, WatchKinds

\* When a disconnect has run to its end, watches included, no watch alerts on
\* Telegram until a connection is stored again: no edit that was in the queue or at
\* its gate slips in (telegram-messages.ts:267, local-monitor-runtime.ts:385).
THEOREM WatchesStayDisconnected == Spec => []DisconnectedWatchesStayOff
<1>1. Init => WInv
  <2>1. SUFFICES ASSUME Init PROVE CalmMeansGone /\ EachInTurn /\ QuietMeansOff
    BY InitRInv DEF WInv
  <2>2. quiet = FALSE /\ watchTail = <<>> /\ \A s \in Slots : slot[s] = NoHandler
    BY <2>1 DEF Init, ControllerInit
  <2>3. CalmMeansGone
    BY <2>2, HandlerTypes DEF CalmMeansGone
  <2>4. EachInTurn
    BY <2>2, HandlerTypes DEF EachInTurn, Watching
  <2>5. QuietMeansOff
    BY <2>2 DEF QuietMeansOff
  <2>6. QED
    BY <2>3, <2>4, <2>5
<1>2. WInv => DisconnectedWatchesStayOff
  BY DEF WInv, QuietMeansOff, DisconnectedWatchesStayOff
<1>3. QED
  BY <1>1, <1>2, StepKeepsWInv, PTL DEF Spec
===============================================================================
