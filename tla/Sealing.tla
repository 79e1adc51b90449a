------------------------------- MODULE Sealing -------------------------------
(***************************************************************************)
(* How a chunk recorded by the capture helper becomes evidence             *)
(* (src-tauri/src/capture/seal.rs, catalog/capture.rs): an intent file is  *)
(* written, the audio is renamed from the staging directory to its final   *)
(* name, the catalog row is inserted and the intent removed; a failure     *)
(* renames the audio back.  One request is sealed at a time; every step    *)
(* can fail, the process can die between any two steps and the power can   *)
(* go.  Start is what EvidenceService::initialize does to these files.     *)
(*                                                                         *)
(* fs is what the running programs see.  disk is the set of states a power *)
(* loss may leave: directory operations reach the disk in the order they   *)
(* were made (a journalling file system), and those before a successful    *)
(* directory sync have reached it.  The catalog commits durably.           *)
(***************************************************************************)
EXTENDS Naturals, FiniteSets

CONSTANTS
    Chunks,     \* chunk ids, which are also the names of the files
    Claims,     \* requests: a chunk with its hash, length, session, source and timing
    Slots,      \* (capture source, sequence number) pairs, unique in the catalog
    ChunkOf,    \* the chunk a request names
    SlotOf,     \* the slot its timing names
    Truthful,   \* requests whose hash and length are those of the recorded bytes
    Sourced,    \* requests whose capture source is registered, of that session and kind
    None

ASSUME SealingAssumption ==
    /\ ChunkOf \in [Claims -> Chunks]
    /\ SlotOf \in [Claims -> Slots]
    /\ Truthful \subseteq Claims
    /\ Sourced \subseteq Claims
    /\ None \notin Claims

VARIABLES
    fs,         \* per chunk: where its audio is, which file it is, its intent and temporary
    disk,       \* the states of fs a power loss may leave
    row,        \* rows of chunks and capture_chunk_timing: the request that was inserted
    at,         \* the next step of the sealer, "idle", or "down" while no process runs
    claim,      \* the request being sealed
    acked,      \* requests that were answered Ok
    warned      \* chunks whose seal reported RecoveryRequired or was cut off by a crash

vars == <<fs, disk, row, at, claim, acked, warned>>

Entry == [place : {"unborn", "staging", "final", "gone"},
          file : {"recorded", "replaced"},
          intent : Claims \cup {None},
          temp : BOOLEAN]

Steps == {"reconcile", "lookup", "adopt", "insertAdopted", "open", "writeIntent",
          "nameIntent", "syncIntent", "check", "publish", "validate", "syncAudio",
          "insert", "retire", "withdraw", "restore", "syncRestore", "abandon"}

TypeOK ==
    /\ fs \in [Chunks -> Entry]
    /\ disk \in SUBSET [Chunks -> Entry]
    /\ row \in [Chunks -> Claims \cup {None}]
    /\ at \in Steps \cup {"idle", "down"}
    /\ claim \in Claims \cup {None}
    /\ acked \subseteq Claims
    /\ warned \subseteq Chunks

Init ==
    /\ fs = [c \in Chunks |-> [place |-> "unborn", file |-> "recorded",
                               intent |-> None, temp |-> FALSE]]
    /\ disk = {fs}
    /\ row = [c \in Chunks |-> None]
    /\ at = "idle"
    /\ claim = None
    /\ acked = {}
    /\ warned = {}

(***************************************************************************)
(* Steps of a call                                                         *)
(***************************************************************************)
Mine == ChunkOf[claim]

\* A directory operation, not yet synced.
Alter(new) == fs' = new /\ disk' = disk \cup {new}

\* A directory operation (or none) followed by a sync of its directory.
Persist(new) == fs' = new /\ disk' = {new}

Files == <<fs, disk>>
Outcome == <<acked, warned>>

Step(from, to) == at = from /\ at' = to /\ UNCHANGED <<claim, Outcome>>

Return == at' = "idle" /\ claim' = None
ReturnOk == Return /\ acked' = acked \cup {claim} /\ UNCHANGED warned
ReturnError == Return /\ UNCHANGED Outcome
ReturnRecoveryRequired == Return /\ warned' = warned \cup {Mine} /\ UNCHANGED acked

\* Mutant: only the file is looked at, the request's hash and length are believed.
VerifiedByName == fs[Mine].file = "recorded"

\* verify_file: the bytes under the chunk's name are those the request describes.
Verified == fs[Mine].file = "recorded" /\ claim \in Truthful

\* seal is called.
Call(r) ==
    /\ at = "idle"
    /\ at' = "reconcile" /\ claim' = r
    /\ UNCHANGED <<Files, row, Outcome>>

\* Stale temporaries of every chunk are removed, then the directory is synced.
Reconcile ==
    /\ Step("reconcile", "lookup")
    /\ Persist([c \in Chunks |-> [fs[c] EXCEPT !.temp = FALSE]])
    /\ UNCHANGED row

\* Mutant: any request for a registered chunk whose audio is sound is answered Ok.
AnswerKnownLoosely ==
    LET sound == fs[Mine].place = "final" /\ fs[Mine].file = "recorded"
    IN  /\ at = "lookup" /\ row[Mine] # None
        /\ \/ sound /\ fs[Mine].intent = claim /\ Step("lookup", "retire")
           \/ sound /\ fs[Mine].intent = None /\ ReturnOk
           \/ ~(sound /\ fs[Mine].intent \in {claim, None}) /\ ReturnError
        /\ UNCHANGED <<Files, row>>

\* Mutant: the answer leaves the intent where it is.
AnswerKnownEarly ==
    LET sound == row[Mine] = claim /\ fs[Mine].place = "final" /\ Verified
    IN  /\ at = "lookup" /\ row[Mine] # None
        /\ \/ sound /\ fs[Mine].intent \in {claim, None} /\ ReturnOk
           \/ ~(sound /\ fs[Mine].intent \in {claim, None}) /\ ReturnError
        /\ UNCHANGED <<Files, row>>

\* The chunk is in the catalog already: the request must be the registered one.
AnswerKnown ==
    LET sound == row[Mine] = claim /\ fs[Mine].place = "final" /\ Verified
    IN  /\ at = "lookup" /\ row[Mine] # None
        /\ \/ sound /\ fs[Mine].intent = claim /\ Step("lookup", "retire")
           \/ sound /\ fs[Mine].intent = None /\ ReturnOk
           \/ ~(sound /\ fs[Mine].intent \in {claim, None}) /\ ReturnError
        /\ UNCHANGED <<Files, row>>

\* It is not: the final name is taken, or the staging file is to be opened.
FindAudio ==
    /\ at = "lookup" /\ row[Mine] = None
    /\ Step("lookup", IF fs[Mine].place = "final" THEN "adopt" ELSE "open")
    /\ UNCHANGED <<Files, row>>

\* A final file without a row belongs to the request whose intent is there, to no other.
Adopt ==
    \/ /\ at = "adopt"
       /\ fs[Mine].intent = claim /\ Verified
       /\ Step("adopt", "insertAdopted")
       /\ Persist(fs)
       /\ UNCHANGED row
    \/ /\ at = "adopt"
       /\ ~(fs[Mine].intent = claim /\ Verified)
       /\ ReturnError
       /\ UNCHANGED <<Files, row>>

\* Mutant: the audio is published without an intent.
OpenUnrecorded ==
    LET found == fs[Mine].place = "staging" /\ Verified
    IN  /\ at = "open"
        /\ \/ found /\ fs[Mine].intent \in {claim, None} /\ Step("open", "check")
           \/ ~(found /\ fs[Mine].intent \in {claim, None}) /\ ReturnError
        /\ UNCHANGED <<Files, row>>

Open ==
    LET found == fs[Mine].place = "staging" /\ Verified
    IN  /\ at = "open"
        /\ \/ found /\ fs[Mine].intent = None /\ Step("open", "writeIntent")
           \/ found /\ fs[Mine].intent = claim /\ Step("open", "check")
           \/ ~(found /\ fs[Mine].intent \in {claim, None}) /\ ReturnError
        /\ UNCHANGED <<Files, row>>

WriteIntent ==
    /\ Step("writeIntent", "nameIntent")
    /\ Alter([fs EXCEPT ![Mine].temp = TRUE])
    /\ UNCHANGED row

NameIntent ==
    /\ Step("nameIntent", "syncIntent")
    /\ Alter([fs EXCEPT ![Mine].temp = FALSE, ![Mine].intent = claim])
    /\ UNCHANGED row

SyncIntent ==
    /\ Step("syncIntent", "check")
    /\ Persist(fs)
    /\ UNCHANGED row

\* The staging entry must still be the file that was verified.
Check ==
    /\ at = "check"
    /\ \/ fs[Mine].file = "recorded" /\ Step("check", "publish")
       \/ fs[Mine].file # "recorded" /\ ReturnError
    /\ UNCHANGED <<Files, row>>

\* rename_to_final
Publish ==
    /\ Step("publish", "validate")
    /\ Alter([fs EXCEPT ![Mine].place = "final"])
    /\ UNCHANGED row

\* What was published must be the file that was verified.
Validate ==
    /\ at = "validate"
    /\ Step("validate", IF Verified THEN "syncAudio" ELSE "restore")
    /\ UNCHANGED <<Files, row>>

\* Mutant: the audio directory is not synced before the row is inserted.
SyncAudioNever == Step("syncAudio", "insert") /\ UNCHANGED <<Files, row>>

SyncAudio ==
    /\ Step("syncAudio", "insert")
    /\ Persist(fs)
    /\ UNCHANGED row

\* insert_native_capture_chunk: the capture source must match, the slot be free.
Registered == {c \in Chunks : row[c] # None}
Admissible(r) == r \in Sourced /\ SlotOf[r] \notin {SlotOf[row[c]] : c \in Registered}

Register == Admissible(claim) /\ row' = [row EXCEPT ![Mine] = claim] /\ UNCHANGED Files
Refused == ~Admissible(claim) /\ UNCHANGED <<Files, row>>

Insert ==
    \/ Step("insert", "retire") /\ Register
    \/ Step("insert", "restore") /\ Refused

InsertAdopted ==
    \/ Step("insertAdopted", "retire") /\ Register
    \/ at = "insertAdopted" /\ ReturnError /\ Refused

RemoveIntent == Persist([fs EXCEPT ![Mine].intent = None])

Retire == at = "retire" /\ RemoveIntent /\ ReturnOk /\ UNCHANGED row

\* The rename failed: the intent goes.
Withdraw == at = "withdraw" /\ RemoveIntent /\ ReturnError /\ UNCHANGED row

\* restore_or_recovery: rename back, sync both directories, remove the intent.
Restore ==
    /\ Step("restore", "syncRestore")
    /\ Alter([fs EXCEPT ![Mine].place = "staging"])
    /\ UNCHANGED row

SyncRestore ==
    /\ Step("syncRestore", "abandon")
    /\ Persist(fs)
    /\ UNCHANGED row

Abandon == at = "abandon" /\ RemoveIntent /\ ReturnError /\ UNCHANGED row

Advance ==
    \/ Reconcile \/ AnswerKnown \/ FindAudio \/ Adopt \/ InsertAdopted
    \/ Open \/ WriteIntent \/ NameIntent \/ SyncIntent \/ Check \/ Publish
    \/ Validate \/ SyncAudio \/ Insert \/ Retire
    \/ Withdraw \/ Restore \/ SyncRestore \/ Abandon

(***************************************************************************)
(* Failures of a step                                                      *)
(***************************************************************************)
\* Nothing was changed yet, or nothing has to be undone.
PlainFailure ==
    /\ at \in {"reconcile", "lookup", "adopt", "insertAdopted", "open", "check"}
    /\ ReturnError
    /\ UNCHANGED <<Files, row>>

\* write_intent before its rename: the temporary is removed, or stays behind.
TempFailure ==
    /\ at \in {"writeIntent", "nameIntent"}
    /\ \/ Persist([fs EXCEPT ![Mine].temp = FALSE]) /\ ReturnError
       \/ Alter([fs EXCEPT ![Mine].temp = TRUE]) /\ ReturnRecoveryRequired
    /\ UNCHANGED row

\* write_intent after its rename: the intent is removed, or stays in some form.
IntentSyncFailure ==
    /\ at = "syncIntent"
    /\ \/ RemoveIntent /\ ReturnError
       \/ UNCHANGED Files /\ ReturnRecoveryRequired
       \/ /\ Alter([fs EXCEPT ![Mine].intent = None, ![Mine].temp = TRUE])
          /\ ReturnRecoveryRequired
    /\ UNCHANGED row

PublishFailure == Step("publish", "withdraw") /\ UNCHANGED <<Files, row>>

\* After the rename every failure leads to a restore.
LateFailure ==
    /\ \E s \in {"validate", "syncAudio", "insert"} : Step(s, "restore")
    /\ UNCHANGED <<Files, row>>

\* Mutant: a failed restore is reported as the error that led to it.
RestoreFailureSilent ==
    /\ at \in {"restore", "syncRestore"}
    /\ ReturnError
    /\ UNCHANGED <<Files, row>>

RestoreFailure ==
    /\ at \in {"restore", "syncRestore"}
    /\ ReturnRecoveryRequired
    /\ UNCHANGED <<Files, row>>

\* The intent could not be unlinked, or it could and the sync failed.
RemovalFailure ==
    /\ at \in {"retire", "withdraw", "abandon"}
    /\ UNCHANGED Files \/ Alter([fs EXCEPT ![Mine].intent = None])
    /\ \/ at # "abandon" /\ ReturnError
       \/ at = "abandon" /\ ReturnRecoveryRequired
    /\ UNCHANGED row

Failure ==
    \/ PlainFailure \/ TempFailure \/ IntentSyncFailure \/ PublishFailure
    \/ LateFailure \/ RestoreFailure \/ RemovalFailure

(***************************************************************************)
(* The helper, crashes and the start of the program                        *)
(***************************************************************************)
\* The helper finished a chunk: it is in the staging directory under its name.
Record(c) ==
    /\ at # "down"
    /\ fs[c].place = "unborn"
    /\ Alter([fs EXCEPT ![c].place = "staging"])
    /\ UNCHANGED <<row, at, claim, Outcome>>

\* Another file takes the place of the staged one.
Replace(c) ==
    /\ at # "down"
    /\ fs[c].place = "staging"
    /\ Alter([fs EXCEPT ![c].file = "replaced"])
    /\ UNCHANGED <<row, at, claim, Outcome>>

Dies ==
    /\ at' = "down" /\ claim' = None
    /\ warned' = IF claim = None THEN warned ELSE warned \cup {Mine}
    /\ UNCHANGED <<row, acked>>

Crash == at # "down" /\ Dies /\ UNCHANGED Files

PowerLoss == \E s \in disk : Dies /\ Persist(s)

\* Mutant: final files are swept with what is left in staging.
CleanAll(c) ==
    /\ at = "down"
    /\ fs[c].place \in {"staging", "final"}
    /\ Persist([fs EXCEPT ![c].place = "gone"])
    /\ UNCHANGED <<row, at, claim, Outcome>>

\* reconcile_capture_staging: what is left in staging is deleted.
Clean(c) ==
    /\ at = "down"
    /\ fs[c].place = "staging"
    /\ Persist([fs EXCEPT ![c].place = "gone"])
    /\ UNCHANGED <<row, at, claim, Outcome>>

\* reconcile_audio: temporaries of intents go, final files and intents stay.
Start ==
    /\ at = "down"
    /\ \A c \in Chunks : fs[c].place # "staging"
    /\ at' = "idle"
    /\ Persist([c \in Chunks |-> [fs[c] EXCEPT !.temp = FALSE]])
    /\ UNCHANGED <<row, claim, Outcome>>

Boot == Start \/ \E c \in Chunks : Clean(c)

\* What the program and the helper do by themselves, and what happens to them.
Course ==
    \/ \E r \in Claims : Call(r)
    \/ Advance \/ Boot
    \/ \E c \in Chunks : Record(c)

Trouble == Failure \/ Crash \/ PowerLoss \/ \E c \in Chunks : Replace(c)

Next == Course \/ Trouble

Spec == Init /\ [][Next]_vars

(***************************************************************************)
(* Properties                                                              *)
(***************************************************************************)
\* An unregistered file under a final name, which nobody reads.
Orphan(s, c) == s[c].place = "final" /\ row[c] = None

\* A registered chunk is the recorded audio under its final name, in what the
\* programs see and in whatever a power loss leaves: the row is inserted after the
\* audio directory was synced, and nothing moves the file afterwards.
RegisteredSurvives ==
    \A c \in Chunks : row[c] # None =>
        \A s \in disk \cup {fs} : s[c].place = "final" /\ s[c].file = "recorded"

\* A row describes the bytes of its own chunk, even when the staged file was
\* replaced between its verification and the rename.
RegisteredIsTruthful ==
    \A c \in Chunks : row[c] # None => row[c] \in Truthful /\ ChunkOf[row[c]] = c

\* Wherever a crash or a power loss leaves a published file without a row, the
\* intent that says whose it is is there too, so a repeated request can adopt it.
OrphanKeepsIntent ==
    \A c \in Chunks : \A s \in disk \cup {fs} : Orphan(s, c) => s[c].intent # None

\* An Ok answer is final: that very request is the row.
AckedIsRegistered == \A r \in acked : row[ChunkOf[r]] = r

\* The steps at which a published file has no row yet, or is on its way back.
Exposed(c) ==
    claim # None /\ Mine = c /\ at \in {"validate", "syncAudio", "insert", "restore"}

\* A file is left published and unregistered only after the caller was told that
\* recovery is required, or after a crash: no other error hides an orphan.
OrphanIsReported ==
    \A c \in Chunks : Orphan(fs, c) /\ ~Exposed(c) => c \in warned

\* The promise of ChunkLife: registered audio is never moved, altered or taken back,
\* and only staged audio is ever deleted.
LifeOf(c) ==
    CASE row[c] # None /\ fs[c].place = "final" /\ fs[c].file = "recorded" -> row[c]
      [] row[c] # None /\ ~(fs[c].place = "final" /\ fs[c].file = "recorded") -> "broken"
      [] row[c] = None /\ fs[c].place = "unborn" -> "unborn"
      [] row[c] = None /\ fs[c].place = "staging" -> "staged"
      [] row[c] = None /\ fs[c].place = "final" -> "published"
      [] row[c] = None /\ fs[c].place = "gone" -> "lost"

Life == INSTANCE ChunkLife WITH life <- [c \in Chunks |-> LifeOf(c)]
ChunkPromise == Life!LifeSpec
=============================================================================
