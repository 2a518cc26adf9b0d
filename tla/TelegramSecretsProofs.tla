------------------------ MODULE TelegramSecretsProofs ------------------------
(***************************************************************************)
(* The encrypted store of the Telegram credentials can always read what    *)
(* it holds, and implements CredentialStore, for any set of tokens and any *)
(* number of calls, rejected awaits and worker deaths.                     *)
(***************************************************************************)
EXTENDS TelegramSecrets, TLAPS

Record == StoredStates \cup {None}

TypeInv ==
    /\ disk \in [enc : Record, legacy : Record, key : BOOLEAN]
    /\ line \in Seq(Calls)
    /\ job \in Jobs \cup {NoJob}

\* The plain record that a migration leaves behind says what the ciphertext says.
RecordsAgree == disk.enc # None /\ disk.legacy # None => disk.enc = disk.legacy

\* Whoever writes has met the plain record before, so it is gone.
WritesFollowMigration ==
    \/ disk.legacy = None
    \/ job.op # "write" /\ \A i \in 1 .. Len(line) : line[i].op # "write"

\* What each await of a call can count on.
JobIsOnCourse ==
    /\ job.op = "write" => job.value # None
    /\ job.op = "remove" => job.value = None
    /\ job.at \in {"open", "key", "seal", "verify"} => job.op # "remove"
    /\ job.at \in {"dropEnc", "dropKey"} => job.op = "remove"
    /\ job.at = "open" /\ job.op = "read" => job.value = None
    /\ job.at \in {"key", "seal"} /\ job.op = "read" =>
          disk.enc = None /\ job.value = disk.legacy /\ job.value # None
    /\ job.at = "seal" => disk.key
    /\ job.at \in {"verify", "dropLegacy"} /\ job.op # "remove" =>
          disk.enc = job.value /\ job.value # None
    /\ job.at \in {"dropLegacy", "dropKey", "answer"} /\ job.op = "remove" => disk.enc = None
    /\ job.at \in {"dropKey", "answer"} => disk.legacy = None

SInv == /\ TypeInv /\ CiphertextIsReadable
        /\ RecordsAgree /\ WritesFollowMigration /\ JobIsOnCourse

\* A new profile, or one of an older release.
LEMMA InitSInv == SecretsInit => SInv
<1> SUFFICES ASSUME SecretsInit PROVE SInv
  OBVIOUS
<1>1. PICK v \in Record : disk = [enc |-> None, legacy |-> v, key |-> FALSE]
  BY DEF SecretsInit, Record
<1>2. /\ disk \in [enc : Record, legacy : Record, key : BOOLEAN]
      /\ disk.enc = None
  BY <1>1 DEF Record
<1>3. /\ line = <<>> /\ job = NoJob
      /\ job.op = None /\ job.at = "idle"
      /\ line \in Seq(Calls) /\ Len(line) = 0
  BY DEF SecretsInit, NoJob
<1>4. QED
  BY <1>2, <1>3, SecretsConstants DEF SInv, TypeInv, CiphertextIsReadable, RecordsAgree,
     WritesFollowMigration, JobIsOnCourse

-------------------------------------------------------------------------------
(* Records: what a step makes of the job and of the disk.                  *)

\* A job that is being served has all its fields.
LEMMA ServedJob ==
    ASSUME TypeInv, job.at # "idle"
    PROVE  /\ job \in Jobs
           /\ job.op \in {"read", "write", "remove"}
           /\ job.value \in Record
           /\ job.at \in Stages
BY DEF TypeInv, NoJob, Jobs, Record

\* A job that goes on to another stage.
LEMMA JobMoves ==
    ASSUME NEW j \in Jobs, NEW a \in Stages
    PROVE  /\ [j EXCEPT !.at = a] \in Jobs
           /\ [j EXCEPT !.at = a].at = a
           /\ [j EXCEPT !.at = a].op = j.op
           /\ [j EXCEPT !.at = a].value = j.value
BY DEF Jobs, Record

\* One record or the key changes.
LEMMA DiskMoves ==
    ASSUME NEW d \in [enc : Record, legacy : Record, key : BOOLEAN]
    PROVE  /\ \A v \in Record :
                 /\ [d EXCEPT !.enc = v] = [enc |-> v, legacy |-> d.legacy, key |-> d.key]
                 /\ [d EXCEPT !.legacy = v] = [enc |-> d.enc, legacy |-> v, key |-> d.key]
           /\ \A k \in BOOLEAN :
                 [d EXCEPT !.key = k] = [enc |-> d.enc, legacy |-> d.legacy, key |-> k]
           /\ d.enc \in Record /\ d.legacy \in Record /\ d.key \in BOOLEAN
OBVIOUS

\* No job is under way in the stage of a job that is.
LEMMA NoJobIsIdle == /\ NoJob.at = "idle" /\ NoJob.op = None /\ NoJob.value = None
              /\ "idle" \notin Stages
BY DEF NoJob, Stages

-------------------------------------------------------------------------------
(* One lemma for each step.                                                *)

\* The job goes on to a stage, and the disk holds the given values.
Goes(stage, enc, legacy, key) ==
    /\ job' \in Jobs
    /\ job'.op = job.op /\ job'.value = job.value /\ job'.at = stage
    /\ disk' = [enc |-> enc, legacy |-> legacy, key |-> key]

\* The first call of the line is taken up.
LEMMA TakeUpKeeps == SInv /\ TakeUp => SInv' /\ UNCHANGED disk /\ job' \in Jobs
<1> SUFFICES ASSUME SInv, TakeUp PROVE SInv' /\ UNCHANGED disk /\ job' \in Jobs
  OBVIOUS
<1> DEFINE c == Head(line)
<1>1. /\ line \in Seq(Calls) /\ line # <<>> /\ c \in Calls /\ Tail(line) \in Seq(Calls)
      /\ line' = Tail(line) /\ disk' = disk /\ c = line[1] /\ Len(line) \in Nat /\ Len(line) > 0
  BY DEF SInv, TypeInv, TakeUp
<1>2. /\ c.who \in Slots /\ c.op \in {"read", "write", "remove"} /\ c.value \in Record
      /\ c.op = "write" <=> c.value # None
  BY <1>1 DEF Calls, Record
<1>3. /\ job' \in Jobs
      /\ job'.op = c.op /\ job'.value = c.value
      /\ job'.at = IF c.op = "remove" THEN "dropEnc" ELSE "open"
  BY <1>2 DEF TakeUp, Jobs, Stages, Record
<1>4. TypeInv'
  BY <1>1, <1>3 DEF SInv, TypeInv
<1>5. WritesFollowMigration'
  <2>1. CASE disk.legacy = None
    BY <2>1, <1>1 DEF WritesFollowMigration
  <2>2. CASE \A i \in 1 .. Len(line) : line[i].op # "write"
    <3>1. c.op # "write"
      BY <2>2, <1>1
    <3>2. \A i \in 1 .. Len(Tail(line)) : Tail(line)[i] = line[i + 1] /\ i + 1 \in 1 .. Len(line)
      BY <1>1
    <3>3. QED
      BY <2>2, <3>1, <3>2, <1>1, <1>3 DEF WritesFollowMigration
  <2>3. QED
    BY <2>1, <2>2 DEF SInv, WritesFollowMigration
<1>6. JobIsOnCourse'
  BY <1>2, <1>3 DEF JobIsOnCourse
<1>7. QED
  BY <1>1, <1>3, <1>4, <1>5, <1>6 DEF SInv, CiphertextIsReadable, RecordsAgree

\* The ciphertext is read.
LEMMA OpenKeeps == SInv /\ Open => SInv'
<1> SUFFICES ASSUME SInv, Open PROVE SInv'
  OBVIOUS
<1>1. /\ job \in Jobs /\ job.op \in {"read", "write"} /\ job.value \in Record
      /\ disk' = disk /\ line' = line /\ job.at = "open"
      /\ disk \in [enc : Record, legacy : Record, key : BOOLEAN]
      /\ disk.enc \in Record /\ disk.legacy \in Record
  BY ServedJob DEF SInv, TypeInv, Open, JobIsOnCourse
<1>2. CASE job.op = "write"
  <2>1. job' = [job EXCEPT !.at = "key"]
    BY <1>2 DEF Open
  <2>2. job' \in Jobs /\ job'.at = "key" /\ job'.op = "write" /\ job'.value = job.value
    BY <2>1, <1>1, <1>2, JobMoves DEF Stages
  <2>3. JobIsOnCourse'
    BY <1>1, <1>2, <2>2 DEF SInv, CiphertextIsReadable, JobIsOnCourse
  <2>4. QED
    BY <1>1, <1>2, <2>2, <2>3 DEF SInv, TypeInv, CiphertextIsReadable, RecordsAgree,
       WritesFollowMigration
<1>3. CASE job.op = "read" /\ disk.enc # None
  <2>1. job' = [who |-> job.who, op |-> job.op, value |-> disk.enc, at |-> "dropLegacy"]
    BY <1>1, <1>3 DEF Open, Jobs
  <2>2. job' \in Jobs /\ job'.at = "dropLegacy" /\ job'.op = "read" /\ job'.value = disk.enc
    BY <2>1, <1>1, <1>3 DEF Jobs, Stages, Record
  <2>3. JobIsOnCourse'
    BY <1>1, <1>3, <2>2 DEF SInv, CiphertextIsReadable, JobIsOnCourse
  <2>4. QED
    BY <1>1, <1>3, <2>2, <2>3 DEF SInv, TypeInv, CiphertextIsReadable, RecordsAgree,
       WritesFollowMigration
<1>4. CASE job.op = "read" /\ disk.enc = None /\ disk.legacy # None
  <2>1. job' = [who |-> job.who, op |-> job.op, value |-> disk.legacy, at |-> "key"]
    BY <1>1, <1>4 DEF Open, Jobs
  <2>2. job' \in Jobs /\ job'.at = "key" /\ job'.op = "read" /\ job'.value = disk.legacy
    BY <2>1, <1>1, <1>4 DEF Jobs, Stages, Record
  <2>3. JobIsOnCourse'
    BY <1>1, <1>4, <2>2 DEF SInv, CiphertextIsReadable, JobIsOnCourse
  <2>4. QED
    BY <1>1, <1>4, <2>2, <2>3 DEF SInv, TypeInv, CiphertextIsReadable, RecordsAgree,
       WritesFollowMigration
<1>5. CASE job.op = "read" /\ disk.enc = None /\ disk.legacy = None
  <2>1. job' = [job EXCEPT !.at = "answer"]
    BY <1>5 DEF Open
  <2>2. job' \in Jobs /\ job'.at = "answer" /\ job'.op = "read" /\ job'.value = job.value
    BY <2>1, <1>1, <1>5, JobMoves DEF Stages
  <2>3. JobIsOnCourse'
    BY <1>1, <1>5, <2>2 DEF SInv, CiphertextIsReadable, JobIsOnCourse
  <2>4. QED
    BY <1>1, <1>5, <2>2, <2>3 DEF SInv, TypeInv, CiphertextIsReadable, RecordsAgree,
       WritesFollowMigration
<1>6. QED
  BY <1>1, <1>2, <1>3, <1>4, <1>5

\* The key is there from now on.
LEMMA FetchKeyKeeps ==
    SInv /\ FetchKey => SInv' /\ Goes("seal", disk.enc, disk.legacy, TRUE)
<1> SUFFICES ASSUME SInv, FetchKey
             PROVE  SInv' /\ Goes("seal", disk.enc, disk.legacy, TRUE)
  OBVIOUS
<1>1. /\ job \in Jobs /\ job.op \in {"read", "write", "remove"} /\ job.value \in Record
      /\ line' = line /\ job.at = "key"
      /\ disk \in [enc : Record, legacy : Record, key : BOOLEAN]
  BY ServedJob DEF SInv, TypeInv, FetchKey
<1>2. /\ job' \in Jobs /\ job'.op = job.op /\ job'.value = job.value
      /\ job'.at = "seal"
  BY <1>1, JobMoves DEF FetchKey, Stages
<1>3. disk' = [enc |-> disk.enc, legacy |-> disk.legacy, key |-> TRUE]
  BY <1>1, DiskMoves DEF FetchKey, Record
<1>4. disk' \in [enc : Record, legacy : Record, key : BOOLEAN]
  BY <1>1, <1>3, DiskMoves DEF Record
<1>5. JobIsOnCourse'
  BY <1>1, <1>2, <1>3 DEF SInv, JobIsOnCourse
<1>6. CiphertextIsReadable'
  BY <1>1, <1>3, <1>4, StatesAssumption DEF SInv, CiphertextIsReadable, JobIsOnCourse, Record
<1>7. RecordsAgree' /\ WritesFollowMigration'
  BY <1>1, <1>2, <1>3 DEF SInv, RecordsAgree, WritesFollowMigration, JobIsOnCourse
<1>8. Goes("seal", disk.enc, disk.legacy, TRUE)
  BY <1>1, <1>2, <1>3 DEF Goes
<1>9. QED
  BY <1>1, <1>2, <1>4, <1>5, <1>6, <1>7, <1>8 DEF SInv, TypeInv

\* The ciphertext is stored, over none or over one of the same key.
LEMMA SealKeeps ==
    SInv /\ Seal => SInv' /\ Goes("verify", job.value, disk.legacy, disk.key)
<1> SUFFICES ASSUME SInv, Seal
             PROVE  SInv' /\ Goes("verify", job.value, disk.legacy, disk.key)
  OBVIOUS
<1>1. /\ job \in Jobs /\ job.op \in {"read", "write", "remove"} /\ job.value \in Record
      /\ line' = line /\ job.at = "seal"
      /\ disk \in [enc : Record, legacy : Record, key : BOOLEAN]
  BY ServedJob DEF SInv, TypeInv, Seal
<1>2. /\ job' \in Jobs /\ job'.op = job.op /\ job'.value = job.value
      /\ job'.at = "verify"
  BY <1>1, JobMoves DEF Seal, Stages
<1>3. disk' = [enc |-> job.value, legacy |-> disk.legacy, key |-> disk.key]
  BY <1>1, DiskMoves DEF Seal, Record
<1>4. disk' \in [enc : Record, legacy : Record, key : BOOLEAN]
  BY <1>1, <1>3, DiskMoves DEF Record
<1>5. JobIsOnCourse'
  BY <1>1, <1>2, <1>3 DEF SInv, JobIsOnCourse
<1>6. CiphertextIsReadable'
  BY <1>1, <1>3, <1>4, StatesAssumption DEF SInv, CiphertextIsReadable, JobIsOnCourse, Record
<1>7. RecordsAgree' /\ WritesFollowMigration'
  BY <1>1, <1>2, <1>3 DEF SInv, RecordsAgree, WritesFollowMigration, JobIsOnCourse
<1>8. Goes("verify", job.value, disk.legacy, disk.key)
  BY <1>1, <1>2, <1>3 DEF Goes
<1>9. QED
  BY <1>1, <1>2, <1>4, <1>5, <1>6, <1>7, <1>8 DEF SInv, TypeInv

\* The ciphertext is read back.
LEMMA VerifyKeeps ==
    SInv /\ Verify => SInv' /\ Goes("dropLegacy", disk.enc, disk.legacy, disk.key)
<1> SUFFICES ASSUME SInv, Verify
             PROVE  SInv' /\ Goes("dropLegacy", disk.enc, disk.legacy, disk.key)
  OBVIOUS
<1>1. /\ job \in Jobs /\ job.op \in {"read", "write", "remove"} /\ job.value \in Record
      /\ line' = line /\ job.at = "verify"
      /\ disk \in [enc : Record, legacy : Record, key : BOOLEAN]
  BY ServedJob DEF SInv, TypeInv, Verify
<1>2. /\ job' \in Jobs /\ job'.op = job.op /\ job'.value = job.value
      /\ job'.at = "dropLegacy"
  BY <1>1, JobMoves DEF Verify, Stages
<1>3. disk' = disk
  BY <1>1, DiskMoves DEF Verify, Record
<1>4. disk' \in [enc : Record, legacy : Record, key : BOOLEAN]
  BY <1>1, <1>3, DiskMoves DEF Record
<1>5. JobIsOnCourse'
  BY <1>1, <1>2, <1>3 DEF SInv, JobIsOnCourse
<1>6. CiphertextIsReadable'
  BY <1>1, <1>3, <1>4, StatesAssumption DEF SInv, CiphertextIsReadable, JobIsOnCourse, Record
<1>7. RecordsAgree' /\ WritesFollowMigration'
  BY <1>1, <1>2, <1>3 DEF SInv, RecordsAgree, WritesFollowMigration, JobIsOnCourse
<1>8. Goes("dropLegacy", disk.enc, disk.legacy, disk.key)
  BY <1>1, <1>2, <1>3 DEF Goes
<1>9. QED
  BY <1>1, <1>2, <1>4, <1>5, <1>6, <1>7, <1>8 DEF SInv, TypeInv

\* The plain record goes.
LEMMA DropLegacyKeeps ==
    SInv /\ DropLegacy => SInv' /\ Goes(IF job.op = "remove" THEN "dropKey" ELSE "answer", disk.enc, None, disk.key)
<1> SUFFICES ASSUME SInv, DropLegacy
             PROVE  SInv' /\ Goes(IF job.op = "remove" THEN "dropKey" ELSE "answer", disk.enc, None, disk.key)
  OBVIOUS
<1>1. /\ job \in Jobs /\ job.op \in {"read", "write", "remove"} /\ job.value \in Record
      /\ line' = line /\ job.at = "dropLegacy"
      /\ disk \in [enc : Record, legacy : Record, key : BOOLEAN]
  BY ServedJob DEF SInv, TypeInv, DropLegacy
<1>2. /\ job' \in Jobs /\ job'.op = job.op /\ job'.value = job.value
      /\ job'.at = IF job.op = "remove" THEN "dropKey" ELSE "answer"
  <2>1. PICK a \in Stages : /\ a = IF job.op = "remove" THEN "dropKey" ELSE "answer"
                            /\ job' = [job EXCEPT !.at = a]
    BY DEF DropLegacy, Stages
  <2>2. QED
    BY <1>1, <2>1, JobMoves
<1>3. disk' = [enc |-> disk.enc, legacy |-> None, key |-> disk.key]
  BY <1>1, DiskMoves DEF DropLegacy, Record
<1>4. disk' \in [enc : Record, legacy : Record, key : BOOLEAN]
  BY <1>1, <1>3, DiskMoves DEF Record
<1>5. JobIsOnCourse'
  BY <1>1, <1>2, <1>3 DEF SInv, JobIsOnCourse
<1>6. CiphertextIsReadable'
  BY <1>1, <1>3, <1>4, StatesAssumption DEF SInv, CiphertextIsReadable, JobIsOnCourse, Record
<1>7. RecordsAgree' /\ WritesFollowMigration'
  BY <1>1, <1>2, <1>3 DEF SInv, RecordsAgree, WritesFollowMigration, JobIsOnCourse
<1>8. Goes(IF job.op = "remove" THEN "dropKey" ELSE "answer", disk.enc, None, disk.key)
  BY <1>1, <1>2, <1>3 DEF Goes
<1>9. QED
  BY <1>1, <1>2, <1>4, <1>5, <1>6, <1>7, <1>8 DEF SInv, TypeInv

\* A removal begins with the ciphertext.
LEMMA DropEncKeeps ==
    SInv /\ DropEnc => SInv' /\ Goes("dropLegacy", None, disk.legacy, disk.key)
<1> SUFFICES ASSUME SInv, DropEnc
             PROVE  SInv' /\ Goes("dropLegacy", None, disk.legacy, disk.key)
  OBVIOUS
<1>1. /\ job \in Jobs /\ job.op \in {"read", "write", "remove"} /\ job.value \in Record
      /\ line' = line /\ job.at = "dropEnc"
      /\ disk \in [enc : Record, legacy : Record, key : BOOLEAN]
  BY ServedJob DEF SInv, TypeInv, DropEnc
<1>2. /\ job' \in Jobs /\ job'.op = job.op /\ job'.value = job.value
      /\ job'.at = "dropLegacy"
  BY <1>1, JobMoves DEF DropEnc, Stages
<1>3. disk' = [enc |-> None, legacy |-> disk.legacy, key |-> disk.key]
  BY <1>1, DiskMoves DEF DropEnc, Record
<1>4. disk' \in [enc : Record, legacy : Record, key : BOOLEAN]
  BY <1>1, <1>3, DiskMoves DEF Record
<1>5. JobIsOnCourse'
  BY <1>1, <1>2, <1>3 DEF SInv, JobIsOnCourse
<1>6. CiphertextIsReadable'
  BY <1>1, <1>3, <1>4, StatesAssumption DEF SInv, CiphertextIsReadable, JobIsOnCourse, Record
<1>7. RecordsAgree' /\ WritesFollowMigration'
  BY <1>1, <1>2, <1>3 DEF SInv, RecordsAgree, WritesFollowMigration, JobIsOnCourse
<1>8. Goes("dropLegacy", None, disk.legacy, disk.key)
  BY <1>1, <1>2, <1>3 DEF Goes
<1>9. QED
  BY <1>1, <1>2, <1>4, <1>5, <1>6, <1>7, <1>8 DEF SInv, TypeInv

\* A removal ends with the key, when there is no ciphertext to lose.
LEMMA DropKeyKeeps ==
    SInv /\ DropKey => SInv' /\ Goes("answer", None, disk.legacy, FALSE)
<1> SUFFICES ASSUME SInv, DropKey
             PROVE  SInv' /\ Goes("answer", None, disk.legacy, FALSE)
  OBVIOUS
<1>1. /\ job \in Jobs /\ job.op \in {"read", "write", "remove"} /\ job.value \in Record
      /\ line' = line /\ job.at = "dropKey"
      /\ disk \in [enc : Record, legacy : Record, key : BOOLEAN]
  BY ServedJob DEF SInv, TypeInv, DropKey
<1>2. /\ job' \in Jobs /\ job'.op = job.op /\ job'.value = job.value
      /\ job'.at = "answer"
  BY <1>1, JobMoves DEF DropKey, Stages
<1>3. disk' = [enc |-> None, legacy |-> disk.legacy, key |-> FALSE]
  BY <1>1, DiskMoves DEF DropKey, Record, SInv, JobIsOnCourse
<1>4. disk' \in [enc : Record, legacy : Record, key : BOOLEAN]
  BY <1>1, <1>3, DiskMoves DEF Record
<1>5. JobIsOnCourse'
  BY <1>1, <1>2, <1>3 DEF SInv, JobIsOnCourse
<1>6. CiphertextIsReadable'
  BY <1>1, <1>3, <1>4, StatesAssumption DEF SInv, CiphertextIsReadable, JobIsOnCourse, Record
<1>7. RecordsAgree' /\ WritesFollowMigration'
  BY <1>1, <1>2, <1>3 DEF SInv, RecordsAgree, WritesFollowMigration, JobIsOnCourse
<1>8. Goes("answer", None, disk.legacy, FALSE)
  BY <1>1, <1>2, <1>3 DEF Goes
<1>9. QED
  BY <1>1, <1>2, <1>4, <1>5, <1>6, <1>7, <1>8 DEF SInv, TypeInv

\* An await rejects.
LEMMA RejectKeeps == SInv /\ Reject => SInv'
<1> SUFFICES ASSUME SInv, Reject PROVE SInv'
  OBVIOUS
<1>1. /\ job \in Jobs /\ disk' = disk /\ line' = line
      /\ job' = [job EXCEPT !.at = "failed"]
  BY ServedJob DEF SInv, TypeInv, Reject, Stages
<1>2. job' \in Jobs /\ job'.op = job.op /\ job'.value = job.value /\ job'.at = "failed"
  BY <1>1, JobMoves DEF Stages
<1>3. JobIsOnCourse'
  BY <1>1, <1>2 DEF SInv, JobIsOnCourse
<1>4. QED
  BY <1>1, <1>2, <1>3 DEF SInv, TypeInv, CiphertextIsReadable, RecordsAgree, WritesFollowMigration

\* The worker dies.
LEMMA DieKeeps == SInv /\ SecretsDie => SInv'
<1> SUFFICES ASSUME SInv, SecretsDie PROVE SInv'
  OBVIOUS
<1>1. /\ disk' = disk /\ line' = <<>> /\ job' = NoJob
      /\ line' \in Seq(Calls) /\ Len(line') = 0 /\ job'.op = None
  BY NoJobIsIdle DEF SecretsDie
<1>2. JobIsOnCourse'
  BY <1>1, NoJobIsIdle, SecretsConstants DEF JobIsOnCourse
<1>3. WritesFollowMigration'
  BY <1>1, SecretsConstants DEF WritesFollowMigration
<1>4. QED
  BY <1>1, <1>2, <1>3 DEF SInv, TypeInv, CiphertextIsReadable, RecordsAgree

\* Others hear of a call, begin one, or both.
Others ==
    /\ Answer \/ UNCHANGED <<disk, job>>
    /\ \/ UNCHANGED line
       \/ \E c \in Calls : /\ c.op = "write" => job.at = "answer" /\ job' = NoJob
                           /\ Ask(c.who, c.op, c.value)

LEMMA OthersKeep == SInv /\ Others => SInv'
<1> SUFFICES ASSUME SInv, Others PROVE SInv'
  OBVIOUS
<1>1. disk' = disk /\ (job' = NoJob \/ job' = job)
  BY DEF Others, Answer
<1>2. job' \in Jobs \cup {NoJob} /\ JobIsOnCourse'
  <2>1. CASE job' = NoJob
    BY <2>1, NoJobIsIdle, SecretsConstants DEF JobIsOnCourse
  <2>2. CASE job' = job
    BY <2>2, <1>1 DEF SInv, TypeInv, JobIsOnCourse
  <2>3. QED
    BY <1>1, <2>1, <2>2
<1>3. job'.op # "write" \/ job'.op = job.op
  BY <1>1, NoJobIsIdle, SecretsConstants
<1>4. CASE line' = line
  BY <1>1, <1>2, <1>3, <1>4 DEF SInv, TypeInv, CiphertextIsReadable, RecordsAgree,
     WritesFollowMigration
<1>5. ASSUME NEW c \in Calls, c.op = "write" => job.at = "answer" /\ job' = NoJob,
             Ask(c.who, c.op, c.value)
      PROVE  SInv'
  <2>1. /\ Call(c.who, c.op, c.value) \in Calls
        /\ Call(c.who, c.op, c.value).op = c.op
    BY DEF Calls, Call
  <2>2. /\ line \in Seq(Calls) /\ Len(line) \in Nat
        /\ line' = Append(line, Call(c.who, c.op, c.value))
    BY <1>5 DEF SInv, TypeInv, Ask
  <2>3. line' \in Seq(Calls)
    BY <2>1, <2>2
  <2>4. WritesFollowMigration'
    <3>1. CASE disk.legacy = None
      BY <3>1, <1>1 DEF WritesFollowMigration
    <3>2. CASE disk.legacy # None
      <4>1. c.op # "write"
        BY <3>2, <1>5 DEF SInv, JobIsOnCourse
      <4>2. /\ Len(line') = Len(line) + 1
            /\ \A i \in 1 .. Len(line') :
                  line'[i] = IF i = Len(line) + 1 THEN Call(c.who, c.op, c.value) ELSE line[i]
        BY <2>2
      <4>3. \A i \in 1 .. Len(line') : i = Len(line) + 1 \/ i \in 1 .. Len(line)
        BY <4>2, <2>2
      <4>4. QED
        BY <3>2, <4>1, <4>2, <4>3, <2>1, <1>3 DEF SInv, WritesFollowMigration
    <3>3. QED
      BY <3>1, <3>2
  <2>5. QED
    BY <1>1, <1>2, <2>3, <2>4 DEF SInv, TypeInv, CiphertextIsReadable, RecordsAgree
<1>6. QED
  BY <1>4, <1>5 DEF Others

LEMMA StepKeepsSInv == SInv /\ [SecretsNext]_secretVars => SInv'
<1> SUFFICES ASSUME SInv, [SecretsNext]_secretVars PROVE SInv'
  OBVIOUS
<1>1. CASE SecretsStep
  BY <1>1, TakeUpKeeps, OpenKeeps, FetchKeyKeeps, SealKeeps, VerifyKeeps, DropLegacyKeeps,
     DropEncKeeps, DropKeyKeeps DEF SecretsStep
<1>2. CASE Reject
  BY <1>2, RejectKeeps
<1>3. CASE SecretsDie
  BY <1>3, DieKeeps
<1>4. CASE Others
  BY <1>4, OthersKeep
<1>5. CASE UNCHANGED secretVars
  <2>1. disk' = disk /\ line' = line /\ job' = job
    BY <1>5 DEF secretVars
  <2>2. QED
    BY <2>1 DEF SInv, TypeInv, CiphertextIsReadable, RecordsAgree, WritesFollowMigration,
       JobIsOnCourse
<1>6. QED
  BY <1>1, <1>2, <1>3, <1>4, <1>5 DEF SecretsNext, Others

\* The store is sound at all times.
THEOREM SInvAlways == SecretsSpec => []SInv
<1>1. QED
  BY InitSInv, StepKeepsSInv, PTL DEF SecretsSpec

\* A new worker can decipher what it finds, whenever the old one died.
THEOREM CiphertextIsAlwaysReadable == SecretsSpec => []CiphertextIsReadable
<1>1. SInv => CiphertextIsReadable
  BY DEF SInv
<1>2. QED
  BY <1>1, SInvAlways, PTL

-------------------------------------------------------------------------------
(* The store implements CredentialStore.                                   *)

Status == IF job.at = "failed" THEN "failed" ELSE IF TookEffect THEN "done" ELSE "taken"

\* A job that is being served is a call of the abstract store.
IsCallOfJob == PromisedCall = [op |-> job.op, value |-> job.value, status |-> Status]

LEMMA CallOfJob == (job \in Jobs => IsCallOfJob) /\ (job' \in Jobs => IsCallOfJob')
<1>1. \A j \in Jobs : j # NoJob
  BY DEF Jobs, NoJob, Stages
<1>2. QED
  BY <1>1 DEF IsCallOfJob, PromisedCall, Status

LEMMA NoCallOfNoJob == /\ job = NoJob => PromisedCall = Promise!NoCall
                       /\ job' = NoJob => PromisedCall' = Promise!NoCall
BY DEF PromisedCall, Promise!NoCall

\* Its state at the beginning.
LEMMA InitPromised == SecretsInit => Promise!Init
<1> SUFFICES ASSUME SecretsInit PROVE Promise!Init
  OBVIOUS
<1>1. Credentials \in StoredStates \cup {None}
  BY DEF SecretsInit, Credentials
<1>2. QED
  BY <1>1, NoCallOfNoJob DEF SecretsInit, Promise!Init

\* A call that is taken up has had no effect.
LEMMA TakeUpPromised == SInv /\ TakeUp => Promise!TakeUp
<1> SUFFICES ASSUME SInv, TakeUp PROVE Promise!TakeUp
  OBVIOUS
<1> DEFINE c == Head(line)
<1>1. /\ c \in Calls /\ job = NoJob /\ disk' = disk /\ job' \in Jobs
      /\ job' = [who |-> c.who, op |-> c.op, value |-> c.value,
                 at |-> IF c.op = "remove" THEN "dropEnc" ELSE "open"]
  BY TakeUpKeeps DEF SInv, TypeInv, TakeUp, Jobs, Stages
<1>2. /\ c.op \in {"read", "remove", "write"} /\ c.value \in StoredStates \cup {None}
      /\ c.op = "write" <=> c.value # None
  BY <1>1 DEF Calls
<1>3. PromisedCall = Promise!NoCall
  BY <1>1, NoCallOfNoJob
<1>4. PromisedCall' = [op |-> c.op, value |-> c.value, status |-> "taken"]
  <2>1. PromisedCall' = [op |-> job'.op, value |-> job'.value, status |-> Status']
    BY <1>1, CallOfJob DEF IsCallOfJob
  <2>2. ~TookEffect'
    BY <1>1, <1>2 DEF TookEffect
  <2>3. Status' = "taken"
    BY <1>1, <2>2 DEF Status
  <2>4. QED
    BY <1>1, <2>1, <2>3
<1>5. Credentials' = Credentials
  BY <1>1 DEF Credentials
<1>6. QED
  BY <1>2, <1>3, <1>4, <1>5 DEF Promise!TakeUp

\* What the steps of a served job do to the abstract store.
LEMMA ServedPromised ==
    SInv /\ (SecretsStep \/ Reject) /\ ~TakeUp => Promise!Next \/ UNCHANGED <<Credentials, PromisedCall>>
<1> SUFFICES ASSUME SInv, SecretsStep \/ Reject, ~TakeUp
             PROVE  Promise!Next \/ UNCHANGED <<Credentials, PromisedCall>>
  OBVIOUS
<1> DEFINE call(j, s) == [op |-> j.op, value |-> j.value, status |-> s]
<1>1. /\ job \in Jobs /\ job.op \in {"read", "write", "remove"}
      /\ job.at \in Stages \ {"answer", "failed"}
      /\ job.value \in Record /\ PromisedCall = call(job, Status)
  <2>1. job.at \in Stages \ {"answer", "failed"}
    BY DEF SecretsStep, Reject, Open, FetchKey, Seal, Verify, DropLegacy, DropEnc, DropKey, Stages
  <2>2. QED
    BY <2>1, ServedJob, CallOfJob, NoJobIsIdle DEF SInv, IsCallOfJob
<1>2. CASE Reject
  <2>1. /\ job' \in Jobs /\ job'.op = job.op /\ job'.value = job.value
        /\ job'.at = "failed" /\ disk' = disk
    BY <1>1, <1>2, JobMoves DEF Reject, Stages
  <2>2. PromisedCall' = call(job, "failed")
    BY <2>1, CallOfJob DEF Status, IsCallOfJob
  <2>3. PromisedCall.status \in {"taken", "done"}
    BY <1>1 DEF Status
  <2>4. Promise!GiveUp
    BY <1>1, <2>1, <2>2, <2>3 DEF Promise!GiveUp, Credentials
  <2>5. QED
    BY <2>4 DEF Promise!Next
<1>3. CASE Open
  <2>1. job.at = "open" /\ disk' = disk /\ Credentials' = Credentials /\ Status = "taken"
    BY <1>1, <1>3 DEF Open, Credentials, Status, TookEffect, SInv, JobIsOnCourse
  <2>2. CASE job.op = "write"
    <3>1. job' = [job EXCEPT !.at = "key"]
      BY <1>3, <2>2 DEF Open
    <3>2. job' \in Jobs /\ job'.op = job.op /\ job'.value = job.value /\ job'.at = "key"
      BY <1>1, <3>1, JobMoves DEF Stages
    <3>3. PromisedCall' = call(job, "taken")
      BY <2>2, <3>2, CallOfJob DEF IsCallOfJob, Status, TookEffect
    <3>4. QED
      BY <1>1, <2>1, <3>3
  <2>3. CASE job.op = "read"
    <3>1. job.value = None
      BY <2>1, <2>3 DEF SInv, JobIsOnCourse
    <3>2. PICK a \in {"dropLegacy", "key", "answer"} :
             job' = [who |-> job.who, op |-> job.op, value |-> Credentials, at |-> a]
      BY <1>1, <1>3, <2>3, <3>1 DEF Open, Credentials, Jobs
    <3>3. job' \in Jobs
      BY <1>3, OpenKeeps, <3>2, NoJobIsIdle DEF SInv, TypeInv
    <3>4. PromisedCall' = [op |-> "read", value |-> Credentials, status |-> "done"]
      BY <2>3, <3>2, <3>3, CallOfJob DEF IsCallOfJob, Status, TookEffect
    <3>5. Promise!Read
      BY <1>1, <2>1, <2>3, <3>4 DEF Promise!Read
    <3>6. QED
      BY <3>5 DEF Promise!Next
  <2>4. QED
    BY <1>3, <2>1, <2>2, <2>3, <1>1 DEF SInv, JobIsOnCourse
<1>4. CASE FetchKey
  <2>1. Goes("seal", disk.enc, disk.legacy, TRUE)
    BY <1>4, FetchKeyKeeps
  <2>2. /\ PromisedCall' = call(job, Status')
        /\ Credentials' = Credentials
    BY <2>1, CallOfJob DEF Goes, IsCallOfJob, Credentials
  <2>3. Status' = Status
    BY <1>1, <2>1, <1>4 DEF Status, TookEffect, Goes, FetchKey, SInv, JobIsOnCourse
  <2>4. QED
    BY <1>1, <2>2, <2>3
<1>5. CASE Seal
  <2>1. Goes("verify", job.value, disk.legacy, disk.key) /\ job.at = "seal"
    BY <1>5, SealKeeps DEF Seal
  <2>2. PromisedCall' = call(job, "done")
    BY <2>1, <1>1, CallOfJob DEF Goes, IsCallOfJob, Status, TookEffect, SInv, JobIsOnCourse
  <2>3. job.value # None /\ Credentials' = job.value
    BY <2>1, <1>1 DEF Goes, Credentials, SInv, JobIsOnCourse
  <2>4. CASE job.op = "read"
    <3>1. Credentials = job.value /\ Status = "done"
      BY <2>1, <2>4 DEF Status, TookEffect, SInv, JobIsOnCourse, Credentials
    <3>2. QED
      BY <1>1, <2>2, <2>3, <3>1
  <2>5. CASE job.op = "write"
    <3>1. Status = "taken"
      BY <2>1, <2>5 DEF Status, TookEffect
    <3>2. Promise!Write
      BY <1>1, <2>2, <2>3, <2>5, <3>1 DEF Promise!Write
    <3>3. QED
      BY <3>2 DEF Promise!Next
  <2>6. QED
    BY <2>1, <2>4, <2>5, <1>1 DEF SInv, JobIsOnCourse
<1>6. CASE Verify
  <2>1. Goes("dropLegacy", disk.enc, disk.legacy, disk.key) /\ job.at = "verify"
    BY <1>6, VerifyKeeps DEF Verify
  <2>2. PromisedCall' = call(job, "done") /\ Status = "done"
    BY <2>1, <1>1, CallOfJob DEF Goes, IsCallOfJob, Status, TookEffect, SInv, JobIsOnCourse
  <2>3. Credentials' = Credentials
    BY <2>1 DEF Goes, Credentials
  <2>4. QED
    BY <1>1, <2>2, <2>3
<1>7. CASE DropLegacy
  <2>1. /\ Goes(IF job.op = "remove" THEN "dropKey" ELSE "answer", disk.enc, None, disk.key)
        /\ job.at = "dropLegacy"
    BY <1>7, DropLegacyKeeps DEF DropLegacy
  <2>2. CASE job.op # "remove"
    <3>1. disk.enc # None
      BY <2>1, <2>2 DEF SInv, JobIsOnCourse
    <3>2. PromisedCall' = call(job, "done") /\ Status = "done"
      BY <2>1, <2>2, <1>1, CallOfJob DEF Goes, IsCallOfJob, Status, TookEffect
    <3>3. Credentials' = Credentials
      BY <2>1, <3>1 DEF Goes, Credentials
    <3>4. QED
      BY <1>1, <3>2, <3>3
  <2>3. CASE job.op = "remove"
    <3>1. disk.enc = None
      BY <2>1, <2>3 DEF SInv, JobIsOnCourse
    <3>2. Credentials' = None /\ Credentials = disk.legacy
      BY <2>1, <3>1 DEF Goes, Credentials
    <3>3. PromisedCall' = call(job, "done")
      BY <2>1, <2>3, <3>2, CallOfJob DEF Goes, IsCallOfJob, Status, TookEffect
    <3>4. Status = IF Credentials = None THEN "done" ELSE "taken"
      BY <2>1, <2>3 DEF Status, TookEffect
    <3>5. CASE Credentials = None
      BY <1>1, <3>2, <3>3, <3>4, <3>5
    <3>6. CASE Credentials # None
      <4>1. Promise!Remove
        BY <1>1, <2>3, <3>2, <3>3, <3>4, <3>6 DEF Promise!Remove
      <4>2. QED
        BY <4>1 DEF Promise!Next
    <3>7. QED
      BY <3>5, <3>6
  <2>4. QED
    BY <2>2, <2>3
<1>8. CASE DropEnc
  <2>1. /\ Goes("dropLegacy", None, disk.legacy, disk.key) /\ job.at = "dropEnc"
        /\ job.op = "remove" /\ Status = "taken"
    BY <1>1, <1>8, DropEncKeeps DEF DropEnc, SInv, JobIsOnCourse, Status, TookEffect
  <2>2. Credentials' = disk.legacy
    BY <2>1 DEF Goes, Credentials
  <2>3. CASE disk.legacy # None
    <3>1. Credentials = disk.legacy
      BY <2>3 DEF SInv, RecordsAgree, Credentials
    <3>2. PromisedCall' = call(job, "taken")
      BY <2>1, <2>2, <2>3, CallOfJob DEF Goes, IsCallOfJob, Status, TookEffect
    <3>3. QED
      BY <1>1, <2>1, <2>2, <3>1, <3>2
  <2>4. CASE disk.legacy = None
    <3>1. PromisedCall' = call(job, "done")
      BY <2>1, <2>2, <2>4, CallOfJob DEF Goes, IsCallOfJob, Status, TookEffect
    <3>2. Promise!Remove
      BY <1>1, <2>1, <2>2, <2>4, <3>1 DEF Promise!Remove
    <3>3. QED
      BY <3>2 DEF Promise!Next
  <2>5. QED
    BY <2>3, <2>4
<1>9. CASE DropKey
  <2>1. /\ Goes("answer", None, disk.legacy, FALSE) /\ job.at = "dropKey"
        /\ job.op = "remove" /\ disk.enc = None /\ disk.legacy = None
    BY <1>9, DropKeyKeeps DEF DropKey, SInv, JobIsOnCourse
  <2>2. Credentials = None /\ Credentials' = None
    BY <2>1 DEF Goes, Credentials
  <2>3. PromisedCall' = call(job, "done") /\ Status = "done"
    BY <2>1, <2>2, CallOfJob DEF Goes, IsCallOfJob, Status, TookEffect
  <2>4. QED
    BY <1>1, <2>2, <2>3
<1>10. QED
  BY <1>2, <1>3, <1>4, <1>5, <1>6, <1>7, <1>8, <1>9 DEF SecretsStep

\* The worker dies, or others hear of calls and begin some.
LEMMA OthersPromised ==
    SInv /\ (SecretsDie \/ Others) => Promise!Next \/ UNCHANGED <<Credentials, PromisedCall>>
<1> SUFFICES ASSUME SInv, SecretsDie \/ Others
             PROVE  Promise!Next \/ UNCHANGED <<Credentials, PromisedCall>>
  OBVIOUS
<1>1. Credentials' = Credentials
  BY DEF SecretsDie, Others, Answer, Credentials
<1>2. CASE UNCHANGED <<disk, job>>
  BY <1>2 DEF Credentials, PromisedCall, TookEffect
<1>3. CASE job' = NoJob /\ (SecretsDie \/ Answer)
  <2>1. PromisedCall' = Promise!NoCall
    BY <1>3, NoCallOfNoJob
  <2>2. CASE PromisedCall = Promise!NoCall
    BY <1>1, <2>1, <2>2
  <2>3. CASE PromisedCall # Promise!NoCall /\ SecretsDie
    <3>1. Promise!Die
      BY <1>1, <2>1, <2>3 DEF Promise!Die
    <3>2. QED
      BY <3>1 DEF Promise!Next
  <2>4. CASE Answer
    <3>1. job \in Jobs /\ job.at \in {"answer", "failed"} /\ job.op \in {"read", "write", "remove"}
      BY <2>4, ServedJob DEF SInv, Answer
    <3>2. PromisedCall.status \in {"done", "failed"}
      BY <3>1, CallOfJob DEF IsCallOfJob, Status, TookEffect
    <3>3. Promise!Answer
      BY <1>1, <2>1, <3>2 DEF Promise!Answer
    <3>4. QED
      BY <3>3 DEF Promise!Next
  <2>5. QED
    BY <1>3, <2>2, <2>3, <2>4
<1>4. QED
  BY <1>2, <1>3 DEF SecretsDie, Others, Answer

\* Two records, a key and a migration look like one value, and every call takes
\* effect at once or not at all, whatever awaits reject and wherever a worker dies.
THEOREM StorePromiseIsKept == SecretsSpec => KeepsPromise
<1>1. SInv /\ [SecretsNext]_secretVars => [Promise!Next]_<<Credentials, PromisedCall>>
  <2> SUFFICES ASSUME SInv, [SecretsNext]_secretVars
               PROVE  Promise!Next \/ UNCHANGED <<Credentials, PromisedCall>>
    OBVIOUS
  <2>1. CASE TakeUp
    BY <2>1, TakeUpPromised DEF Promise!Next
  <2>2. CASE (SecretsStep \/ Reject) /\ ~TakeUp
    BY <2>2, ServedPromised
  <2>3. CASE SecretsDie \/ Others
    BY <2>3, OthersPromised
  <2>4. CASE UNCHANGED secretVars
    BY <2>4 DEF secretVars, Credentials, PromisedCall, TookEffect
  <2>5. QED
    BY <2>1, <2>2, <2>3, <2>4 DEF SecretsNext, Others
<1>2. QED
  BY <1>1, InitPromised, SInvAlways, PTL DEF SecretsSpec, KeepsPromise, Promise!Spec
==============================================================================
