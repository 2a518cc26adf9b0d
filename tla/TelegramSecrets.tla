--------------------------- MODULE TelegramSecrets ---------------------------
(***************************************************************************)
(* The encrypted store of the personal Telegram channel                    *)
(* (apps/extension/src/storage/telegram-secrets.ts), over                  *)
(* chrome.storage.local and the key in IndexedDB (telegram-key-store.ts).  *)
(* Calls are served one at a time; each await of a call is a step of its   *)
(* own, which may fail, and before which the worker may die.  A value      *)
(* that an older release left in the clear is moved into the ciphertext    *)
(* by the first read.                                                      *)
(***************************************************************************)
EXTENDS Naturals, Sequences

CONSTANTS
    None,        \* the code's null
    Unreadable,  \* a ciphertext whose key is gone
    Tokens,      \* bot tokens; each stands for the bot and its one private chat
    Slots        \* the handlers that may be under way at the same time

ASSUME SecretsConstants ==
    /\ None \notin Tokens \cup {"read", "write", "remove"}
    /\ Slots \subseteq Nat

VARIABLES
    disk,  \* the two stored records and the key
    line,  \* the calls that wait for their turn (tail)
    job    \* the call that is being served

secretVars == <<disk, line, job>>

Token == Tokens \cup {None}

\* StoredTelegramState as the controller writes it: an active connection, a pairing
\* that waits for its confirmation or both, or a token that waits for its chat.
StoredStates ==
    {v \in [active : Token, pending : Token, setup : Token] :
        v.setup # None <=> v.active = None /\ v.pending = None}

ASSUME StatesAssumption ==
    /\ None \notin StoredStates
    /\ Unreadable \notin StoredStates \cup {None}

Stored(active, pending, setup) ==
    [active |-> active, pending |-> pending, setup |-> setup]

Call(who, op, v) == [who |-> who, op |-> op, value |-> v]

\* Only a write brings a value.
Calls == {c \in [who : Slots, op : {"read", "write", "remove"},
                 value : StoredStates \cup {None}] :
            c.op = "write" <=> c.value # None}

NoJob == [who |-> None, op |-> None, value |-> None, at |-> "idle"]

Stages == {"open", "key", "seal", "verify", "dropEnc", "dropLegacy", "dropKey",
           "answer", "failed"}

Jobs == [who : Slots, op : {"read", "write", "remove"},
         value : StoredStates \cup {None}, at : Stages]

-------------------------------------------------------------------------------
\* A fresh profile, or one that an older release left with a plain record.
SecretsInit ==
    /\ \E v \in StoredStates \cup {None} :
          disk = [enc |-> None, legacy |-> v, key |-> FALSE]
    /\ line = <<>>
    /\ job = NoJob

\* A call joins the line.
Ask(who, op, v) == line' = Append(line, Call(who, op, v))

TakeUp ==
    /\ job.at = "idle" /\ line # <<>>
    /\ job' = [who |-> Head(line).who, op |-> Head(line).op, value |-> Head(line).value,
               at |-> IF Head(line).op = "remove" THEN "dropEnc" ELSE "open"]
    /\ line' = Tail(line)
    /\ UNCHANGED disk

Readable == disk.enc # None => disk.enc # Unreadable /\ disk.key

\* The ciphertext is read and, when there is one, deciphered.  A read goes on to
\* the plain record only when there is none.
Open ==
    /\ job.at = "open" /\ Readable
    /\ job' = CASE job.op = "write" -> [job EXCEPT !.at = "key"]
                [] job.op = "read" /\ disk.enc # None ->
                       [job EXCEPT !.value = disk.enc, !.at = "dropLegacy"]
                [] job.op = "read" /\ disk.enc = None /\ disk.legacy # None ->
                       [job EXCEPT !.value = disk.legacy, !.at = "key"]
                [] OTHER -> [job EXCEPT !.at = "answer"]
    /\ UNCHANGED <<disk, line>>

\* Mutant: every write makes a key of its own and replaces the one in the database.
RekeyingFetchKey ==
    /\ job.at = "key"
    /\ disk' = [disk EXCEPT !.key = TRUE,
                            !.enc = IF @ = None THEN None ELSE Unreadable]
    /\ job' = [job EXCEPT !.at = "seal"]
    /\ UNCHANGED line

\* persist: the key is read, or made when there is none ...
FetchKey ==
    /\ job.at = "key"
    /\ disk' = [disk EXCEPT !.key = TRUE]
    /\ job' = [job EXCEPT !.at = "seal"]
    /\ UNCHANGED line

\* ... the ciphertext is stored ...
Seal ==
    /\ job.at = "seal"
    /\ disk' = [disk EXCEPT !.enc = job.value]
    /\ job' = [job EXCEPT !.at = "verify"]
    /\ UNCHANGED line

\* ... and read back.  Nobody else writes it, so a difference is a failure.
Verify ==
    /\ job.at = "verify" /\ Readable
    /\ job' = [job EXCEPT !.at = "dropLegacy"]
    /\ UNCHANGED <<disk, line>>

DropLegacy ==
    /\ job.at = "dropLegacy"
    /\ disk' = [disk EXCEPT !.legacy = None]
    /\ job' = [job EXCEPT !.at = IF job.op = "remove" THEN "dropKey" ELSE "answer"]
    /\ UNCHANGED line

\* Mutant: a removal forgets the plain record.
ForgetfulDropEnc ==
    /\ job.at = "dropEnc"
    /\ disk' = [disk EXCEPT !.enc = None]
    /\ job' = [job EXCEPT !.at = "dropKey"]
    /\ UNCHANGED line

DropEnc ==
    /\ job.at = "dropEnc"
    /\ disk' = [disk EXCEPT !.enc = None]
    /\ job' = [job EXCEPT !.at = "dropLegacy"]
    /\ UNCHANGED line

\* A ciphertext that is left behind can never be read again.
DropKey ==
    /\ job.at = "dropKey"
    /\ disk' = [disk EXCEPT !.key = FALSE,
                            !.enc = IF @ = None THEN None ELSE Unreadable]
    /\ job' = [job EXCEPT !.at = "answer"]
    /\ UNCHANGED line

SecretsStep == TakeUp \/ Open \/ FetchKey \/ Seal \/ Verify \/ DropLegacy \/ DropEnc \/ DropKey

\* An await of the call rejects.
Reject ==
    /\ job.at \in Stages \ {"answer", "failed"}
    /\ job' = [job EXCEPT !.at = "failed"]
    /\ UNCHANGED <<disk, line>>

\* The caller hears the outcome (used together with what the caller does then).
Answer ==
    /\ job.at \in {"answer", "failed"}
    /\ job' = NoJob
    /\ UNCHANGED disk

\* The worker dies: what is on disk stays.
SecretsDie == disk' = disk /\ line' = <<>> /\ job' = NoJob

-------------------------------------------------------------------------------
\* What a new worker would read.
Credentials == IF disk.enc # None THEN disk.enc ELSE disk.legacy

\* The step at which a call takes effect: a read when it has its value, a write
\* with the ciphertext, a removal with the last of the two records; a call that
\* is about to be answered claims to have had its effect.
TookEffect ==
    CASE job.op = "read"  -> job.at # "open"
      [] job.op = "write" -> job.at \in {"verify", "dropLegacy", "answer"}
      [] OTHER            -> (job.at # "dropEnc" /\ Credentials = None) \/ job.at = "answer"

PromisedCall ==
    IF job = NoJob
    THEN [op |-> None, value |-> None, status |-> None]
    ELSE [op |-> job.op, value |-> job.value,
          status |-> IF job.at = "failed" THEN "failed"
                     ELSE IF TookEffect THEN "done" ELSE "taken"]

\* The steps of the store: its own, and the calls that others begin and hear of,
\* where hearing of one may begin the next.  The controller asks for a write only
\* when it has just heard what is stored: a write over a plain record that no call
\* has met would be undone by a removal that fails half-way.
SecretsNext ==
    \/ SecretsStep \/ Reject \/ SecretsDie
    \/ /\ Answer \/ UNCHANGED <<disk, job>>
       /\ \/ UNCHANGED line
          \/ \E c \in Calls : /\ c.op = "write" => job.at = "answer" /\ job' = NoJob
                              /\ Ask(c.who, c.op, c.value)

SecretsSpec == SecretsInit /\ [][SecretsNext]_secretVars

\* A ciphertext can be deciphered at every moment at which the worker may die: a
\* write never replaces the key of the one that is stored, and a removal destroys
\* the key last (telegram-secrets.ts:84-140, telegram-key-store.ts).
CiphertextIsReadable == disk.enc # None => disk.enc # Unreadable /\ disk.key

\* Two records, a key, a migration and awaits that fail in between look to the
\* controller like one value and calls that take effect at once or not at all.
Promise == INSTANCE CredentialStore WITH
              Values <- StoredStates, creds <- Credentials, call <- PromisedCall

KeepsPromise == Promise!Spec
===============================================================================
