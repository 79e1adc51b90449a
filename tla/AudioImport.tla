----------------------------- MODULE AudioImport -----------------------------
(* Imported audio: the copy of a file into audio/, its registration in the  *)
(* catalog, the job enqueued for it, and the reconciliation of audio/ with  *)
(* the catalog at every start of the program (service.rs,                   *)
(* service/audio_store.rs, catalog/chunks.rs, commands.rs).                 *)
(* Import commands run on the program's main thread, one after the other,   *)
(* and the startup runs before any of them.  Every call may fail, a call    *)
(* made to clean up after a failure too; the process may die between any    *)
(* two steps; a loss of power also undoes directory changes that no sync    *)
(* has made durable; and outsiders may touch the directory at any time.     *)
EXTENDS Naturals, FiniteSets

CONSTANTS
    Imports,    \* the imports, each with its generated chunk id
    Stranger    \* an entry of audio/ that no part of the program wrote

ASSUME StrangerAssumption == Stranger \notin Imports

VARIABLES
    file,       \* where the bytes of an import are: under which kind of name
    whole,      \* whether they are those that were hashed
    may,        \* the names under which they may be found after a loss of power
    old,        \* the files last modified longer ago than the grace period
    row,        \* the integrity state of the import's row in chunks
    job,        \* the imports for which a job was inserted, in whatever state
    answer,     \* what the last import command returned
    phase,      \* the program: down, starting, up, or its start refused
    step,       \* the step of the main thread
    cur,        \* the import it works on
    todo,       \* the directory entries or rows the startup has left
    stale,      \* the files older than the startup's stale_before
    foreign,    \* whether audio/ holds a stranger
    damaged,    \* the imports whose file an outsider has touched
    drift,      \* those touched since their row was last written
    misread,    \* those whose last validation failed to read their file
    excused     \* whether a call failed, or an outsider acted, since the start

disk == <<file, whole, may, old>>
catalog == <<row, job>>
thread == <<phase, step, cur, todo, stale>>
outside == <<foreign, damaged, drift, misread>>
vars == <<disk, catalog, answer, thread, outside, excused>>

Places == {"none", "temp", "final", "tomb"}
Absent == "absent"
Registered == {c \in Imports : row[c] # Absent}
Present == {c \in Imports : file[c] # "none"}

TypeOK ==
    /\ file \in [Imports -> Places] /\ whole \in [Imports -> BOOLEAN]
    /\ may \in [Imports -> SUBSET Places] /\ old \subseteq Imports
    /\ row \in [Imports -> {Absent, "available", "missing", "corrupted"}]
    /\ job \subseteq Imports /\ answer \in {"none", "ok", "error"}
    /\ phase \in {"down", "starting", "up", "refused"}
    /\ step \in {"idle", "create", "write", "rename", "sync", "insert", "enqueue", "persist",
                 "discard", "unlink", "flush", "list", "sweep", "validate"}
    /\ cur \in Imports /\ todo \subseteq Imports \cup {Stranger} /\ stale \subseteq Imports
    /\ foreign \in BOOLEAN /\ damaged \subseteq Imports /\ drift \subseteq Imports
    /\ misread \subseteq Imports /\ excused \in BOOLEAN

Init ==
    /\ file = [c \in Imports |-> "none"] /\ whole = [c \in Imports |-> FALSE]
    /\ may = [c \in Imports |-> {"none"}] /\ old = {}
    /\ row = [c \in Imports |-> Absent] /\ job = {} /\ answer = "none"
    /\ phase = "down" /\ step = "idle" /\ cur \in Imports /\ todo = {} /\ stale = {}
    /\ foreign = FALSE /\ damaged = {} /\ drift = {} /\ misread = {} /\ excused = FALSE

-----------------------------------------------------------------------------
(* The directory.                                                          *)

\* A rename or unlink takes effect at once; what it leaves on the disk is open
\* until the directory is synced.
Move(c, place) ==
    /\ file' = [file EXCEPT ![c] = place]
    /\ may' = [may EXCEPT ![c] = @ \cup {place}]

SyncDirectory == may' = [c \in Imports |-> {file[c]}]

At(s) == step = s /\ phase \in {"starting", "up"}
Goto(s) == step' = s /\ UNCHANGED <<phase, cur, todo, stale>>
Fails == excused' = TRUE
Works == UNCHANGED excused

\* A failure ends the import, or the start.
Answer(a) == answer' = a /\ Goto("idle")

Refuse ==
    /\ phase' = "refused" /\ step' = "idle" /\ todo' = {} /\ stale' = {}
    /\ UNCHANGED <<answer, cur>>

GiveUp == IF phase = "starting" THEN Refuse ELSE Answer("error")

-----------------------------------------------------------------------------
(* import_audio_core and the record around it.                             *)

\* A fresh id: no file, no trace on the disk and no row.
Begin(c) ==
    /\ phase = "up" /\ step = "idle"
    /\ file[c] = "none" /\ may[c] = {"none"} /\ row[c] = Absent
    /\ step' = "create" /\ cur' = c /\ stale' = stale \ {c} /\ damaged' = damaged \ {c}
    /\ answer' = "none" /\ drift' = drift \ {c}
    /\ UNCHANGED <<disk, catalog, phase, todo, foreign, misread, excused>>

\* The directory or the source cannot be opened, or the name cannot be created.
CreateFails ==
    /\ At("create") /\ Fails /\ Answer("error")
    /\ UNCHANGED <<disk, catalog, outside>>

\* Its identity may be unreadable: then the empty file is left behind.
Create ==
    /\ At("create") /\ Move(cur, "temp")
    /\ whole' = [whole EXCEPT ![cur] = FALSE] /\ old' = old \ {cur}
    /\ \/ Goto("write") /\ Works /\ UNCHANGED answer
       \/ Answer("error") /\ Fails
    /\ UNCHANGED <<catalog, outside>>

\* The bytes are copied, hashed and synced, or the copy is given up part-way.
Write ==
    /\ At("write")
    /\ \/ whole' = [whole EXCEPT ![cur] = TRUE] /\ Goto("rename") /\ Works
       \/ Goto("discard") /\ Fails /\ UNCHANGED whole
    /\ UNCHANGED <<file, may, old, catalog, answer, outside>>

\* rename_to_final: it fails before the rename, or finds audio/ replaced after it.
RenameToFinal ==
    /\ At("rename") /\ file[cur] = "temp"
    /\ \/ Move(cur, "final") /\ Goto("sync") /\ Works
       \/ Move(cur, "final") /\ Goto("discard") /\ Fails
       \/ Goto("discard") /\ Fails /\ UNCHANGED <<file, may>>
    /\ UNCHANGED <<whole, old, catalog, answer, outside>>

\* Mutant: the entry of the final name is not synced.
SyncFinalNever ==
    /\ At("sync")
    /\ \/ UNCHANGED may /\ Goto("insert") /\ Works
       \/ UNCHANGED may /\ Goto("discard") /\ Fails
    /\ UNCHANGED <<file, whole, old, catalog, answer, outside>>

SyncFinal ==
    /\ At("sync")
    /\ \/ SyncDirectory /\ Goto("insert") /\ Works
       \/ UNCHANGED may /\ Goto("discard") /\ Fails
    /\ UNCHANGED <<file, whole, old, catalog, answer, outside>>

\* ensure_stored_current, and the session and the chunk in one transaction.
InsertImportedChunk ==
    /\ At("insert") /\ file[cur] = "final"
    /\ \/ row' = [row EXCEPT ![cur] = "available"] /\ Goto("enqueue") /\ Works
       \/ Goto("discard") /\ Fails /\ UNCHANGED row
    /\ UNCHANGED <<disk, job, answer, outside>>

\* The name is gone when it is renamed or looked at again.
Vanished ==
    /\ \/ At("rename") /\ file[cur] # "temp"
       \/ At("insert") /\ file[cur] # "final"
    /\ Goto("discard") /\ Fails
    /\ UNCHANGED <<disk, catalog, answer, outside>>

\* enqueue_auto_transcription: nothing to do, a job in the queue, one that waits
\* for a model, or one that has failed; an error is to be recorded as a failed job.
EnqueueImportJob ==
    /\ At("enqueue")
    /\ \/ job' \in {job, job \cup {cur}} /\ Answer("ok") /\ Works
       \/ Goto("persist") /\ Fails /\ UNCHANGED <<job, answer>>
    /\ UNCHANGED <<disk, row, outside>>

PersistPreflightFailure ==
    /\ At("persist")
    /\ \/ job' = job \cup {cur} /\ Answer("ok") /\ Works
       \/ Answer("error") /\ Fails /\ UNCHANGED job
    /\ UNCHANGED <<disk, row, outside>>

-----------------------------------------------------------------------------
(* cleanup_regular_file, for an import that failed and for an orphan.      *)

Done == IF phase = "starting" THEN Goto("sweep") /\ UNCHANGED answer ELSE Answer("error")

\* The file is first given the name of a tombstone, and its identity read again;
\* when that fails it gets its name back, if that succeeds.
Discard ==
    /\ At("discard") /\ file[cur] # "none"
    /\ \/ Move(cur, "tomb") /\ Goto("unlink") /\ Works /\ UNCHANGED answer
       \/ Fails /\ GiveUp
          /\ \/ UNCHANGED <<file, may>>
             \/ may' = [may EXCEPT ![cur] = @ \cup {"tomb"}] /\ UNCHANGED file
             \/ Move(cur, "tomb")
    /\ UNCHANGED <<whole, old, catalog, outside>>

\* Someone else has removed it.
NothingToDiscard ==
    /\ At("discard") /\ file[cur] = "none" /\ Done /\ Works
    /\ UNCHANGED <<disk, catalog, outside>>

Unlink ==
    /\ At("unlink")
    /\ IF file[cur] = "none" THEN Fails /\ GiveUp /\ UNCHANGED <<file, may>>
       ELSE \/ Move(cur, "none") /\ Goto("flush") /\ Works /\ UNCHANGED answer
            \/ Fails /\ GiveUp /\ UNCHANGED <<file, may>>
    /\ UNCHANGED <<whole, old, catalog, outside>>

Flush ==
    /\ At("flush")
    /\ \/ SyncDirectory /\ Done /\ Works
       \/ UNCHANGED may /\ GiveUp /\ Fails
    /\ UNCHANGED <<file, whole, old, catalog, outside>>

-----------------------------------------------------------------------------
(* initialize: reconcile_audio at the start of the program.                *)

Start ==
    /\ phase \in {"down", "refused"}
    /\ phase' = "starting" /\ step' = "list" /\ excused' = foreign
    /\ UNCHANGED <<disk, catalog, answer, cur, todo, stale, outside>>

\* stale_before, the rows and then the entries of the directory.
List ==
    /\ At("list")
    /\ \/ /\ stale' = old /\ todo' = Present \cup (IF foreign THEN {Stranger} ELSE {})
          /\ step' = "sweep" /\ Works /\ UNCHANGED <<phase, cur, answer>>
       \/ Refuse /\ Fails
    /\ UNCHANGED <<disk, catalog, outside>>

\* is_recognized_importer_name: tombstones have the form of temporary names.
\* Mutant: only final names are recognised.
RecognizedFinals(c) == file[c] = "final"

Recognized(c) == file[c] \in {"temp", "final", "tomb"}

Referenced(c) == c \in Registered /\ file[c] = "final"

Take(c, next) == todo' = todo \ {c} /\ step' = next /\ UNCHANGED <<phase, stale, answer>>

\* The entry of a row is left alone; any other is looked at and, when stale, removed.
SweepEntry(c) ==
    /\ At("sweep") /\ c \in todo
    /\ \/ /\ Works
          /\ IF Referenced(c) \/ (Recognized(c) /\ c \notin stale)
             THEN Take(c, "sweep") /\ UNCHANGED cur
             ELSE IF Recognized(c) THEN Take(c, "discard") /\ cur' = c ELSE Refuse
       \/ ~Referenced(c) /\ Refuse /\ Fails
    /\ UNCHANGED <<disk, catalog, outside>>

SweepStranger ==
    /\ At("sweep") /\ Stranger \in todo /\ Refuse /\ Works
    /\ UNCHANGED <<disk, catalog, outside>>

SweepEnds ==
    /\ At("sweep") /\ todo = {}
    /\ \/ SyncDirectory /\ todo' = Registered /\ step' = "validate" /\ Works
          /\ UNCHANGED <<phase, cur, stale, answer>>
       \/ UNCHANGED may /\ Refuse /\ Fails
    /\ UNCHANGED <<file, whole, old, catalog, outside>>

\* validate: the bytes are hashed again.
\* Mutant: a file that is there is taken for the one that was registered.
IntegrityByName(c) == IF file[c] = "final" THEN "available" ELSE "missing"

Integrity(c) ==
    IF file[c] # "final" THEN "missing" ELSE IF whole[c] THEN "available" ELSE "corrupted"

\* A file or a directory that cannot be opened, read or looked at again makes the
\* row corrupted, whatever the file is, and the start goes on; a failure of the
\* catalog ends it.
ValidateChunk(c) ==
    /\ At("validate") /\ c \in todo
    /\ \/ /\ row' = [row EXCEPT ![c] = Integrity(c)] /\ misread' = misread \ {c}
          /\ Take(c, "validate") /\ drift' = drift \ {c} /\ UNCHANGED cur /\ Works
       \/ /\ row' = [row EXCEPT ![c] = "corrupted"] /\ misread' = misread \cup {c}
          /\ Take(c, "validate") /\ drift' = drift \ {c} /\ UNCHANGED cur /\ Fails
       \/ Refuse /\ Fails /\ UNCHANGED <<row, drift, misread>>
    /\ UNCHANGED <<disk, job, foreign, damaged>>

Started ==
    /\ At("validate") /\ todo = {}
    /\ phase' = "up" /\ step' = "idle"
    /\ UNCHANGED <<disk, catalog, answer, cur, todo, stale, outside, excused>>

-----------------------------------------------------------------------------
(* The environment.                                                        *)

Grow(c) ==
    /\ file[c] # "none" /\ c \notin old /\ old' = old \cup {c}
    /\ UNCHANGED <<file, whole, may, catalog, answer, thread, outside, excused>>

Down ==
    /\ phase' = "down" /\ step' = "idle" /\ todo' = {} /\ stale' = {} /\ answer' = "none"
    /\ UNCHANGED cur

Crash ==
    /\ phase \in {"starting", "up"} /\ Down
    /\ UNCHANGED <<disk, catalog, outside, excused>>

PowerLoss ==
    /\ Down
    /\ file' \in {f \in [Imports -> Places] : \A c \in Imports : f[c] \in may[c]}
    /\ may' = [c \in Imports |-> {file'[c]}]
    /\ UNCHANGED <<whole, old, catalog, outside, excused>>

Touch(c) == damaged' = damaged \cup {c} /\ drift' = drift \cup {c} /\ excused' = TRUE

Spoil(c) ==
    /\ file[c] = "final" /\ whole[c] /\ whole' = [whole EXCEPT ![c] = FALSE] /\ Touch(c)
    /\ UNCHANGED <<file, may, old, catalog, answer, thread, foreign, misread>>

Remove(c) ==
    /\ file[c] # "none" /\ Move(c, "none") /\ Touch(c)
    /\ UNCHANGED <<whole, old, catalog, answer, thread, foreign, misread>>

\* A backup of a registered file is put back.
PutBack(c) ==
    /\ row[c] # Absent /\ ~(file[c] = "final" /\ whole[c])
    /\ Move(c, "final") /\ whole' = [whole EXCEPT ![c] = TRUE] /\ Touch(c)
    /\ UNCHANGED <<old, catalog, answer, thread, foreign, misread>>

LeaveStranger ==
    /\ foreign' = ~foreign /\ excused' = TRUE
    /\ UNCHANGED <<disk, catalog, answer, thread, damaged, drift, misread>>

-----------------------------------------------------------------------------
ImportStep ==
    \/ \E c \in Imports : Begin(c)
    \/ CreateFails \/ Create \/ Write \/ RenameToFinal \/ SyncFinal \/ InsertImportedChunk
    \/ Vanished \/ EnqueueImportJob \/ PersistPreflightFailure
CleanupStep == Discard \/ NothingToDiscard \/ Unlink \/ Flush
StartStep ==
    \/ Start \/ List \/ SweepStranger \/ SweepEnds \/ Started
    \/ \E c \in Imports : SweepEntry(c) \/ ValidateChunk(c)
Outsiders ==
    \/ Crash \/ PowerLoss \/ LeaveStranger
    \/ \E c \in Imports : Grow(c) \/ Spoil(c) \/ Remove(c) \/ PutBack(c)

Next == ImportStep \/ CleanupStep \/ StartStep \/ Outsiders
Spec == Init /\ [][Next]_vars

-----------------------------------------------------------------------------
(* Properties.                                                             *)

\* The bytes of a registered import are there, unchanged, under the name in its
\* row, whatever fails or dies and whenever the power does, unless an outsider
\* touched them: neither a clean-up nor the sweep takes them (import_audio_core,
\* reconcile_orphans).
RecordsAreKept ==
    \A c \in Registered \ damaged : file[c] = "final" /\ whole[c]

\* While the program runs, the integrity state of a row is true of every file that
\* no outsider touched since the row was written: available only of the registered
\* bytes, missing only when the name is gone, and corrupted only of other bytes or
\* of a file that the last start failed to read (reconcile_audio_before, validate).
IntegrityIsKnown ==
    phase = "up" => \A c \in Registered \ drift :
        /\ row[c] = "available" => file[c] = "final" /\ whole[c]
        /\ row[c] = "missing" => file[c] # "final"
        /\ row[c] = "corrupted" => c \in misread \/ (file[c] = "final" /\ ~whole[c])

\* Whatever imports leave behind never keeps the program from starting, and a
\* start that succeeds leaves nothing that was stale and unregistered
\* (reconcile_orphans, is_recognized_importer_name).
StartRunsClean ==
    /\ phase = "refused" => excused
    /\ phase = "up" => \A c \in stale \ Registered : file[c] = "none"
=============================================================================
