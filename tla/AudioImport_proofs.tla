-------------------------- MODULE AudioImport_proofs --------------------------
(* What imports, clean-ups and starts keep, for any number of imports.  The  *)
(* inductive invariant says what the main thread knows at each of its steps  *)
(* of the file it works on, and of the entries its startup has dealt with.   *)
EXTENDS AudioImport, TLAPS

Kept(c) == file[c] = "final" /\ whole[c]

\* Registered audio no outsider touched is where its row says, durably so.
FilesKept == \A c \in Registered \ damaged : Kept(c) /\ may[c] = {"final"}

\* The import that is being copied has no row; once renamed and synced its file
\* is ready to be registered, unless an outsider touched it.
ImportSteps == {"create", "write", "rename", "sync", "insert"}
ImportKnows ==
    /\ step \in ImportSteps => phase = "up" /\ cur \notin Registered
    /\ step \in {"enqueue", "persist"} => phase = "up"
    /\ cur \notin drift =>
         /\ step \in {"rename", "sync", "insert"} => whole[cur]
         /\ step \in {"sync", "insert"} => file[cur] = "final"
         /\ step = "insert" => may[cur] = {"final"}

\* A clean-up works on a file that no intact row refers to.
CleanSteps == {"discard", "unlink", "flush"}
CleanKnows ==
    step \in CleanSteps =>
        /\ cur \in Registered => cur \in damaged /\ phase = "starting"
        /\ phase \in {"starting", "up"}

\* What a row says is true of its file, or the last validation could not read the
\* file: for what was validated in this start, and for all when up.
Agree(c) ==
    /\ row[c] = "available" => Kept(c)
    /\ row[c] = "missing" => file[c] # "final"
    /\ row[c] = "corrupted" => c \in misread \/ (file[c] = "final" /\ ~whole[c])
RowsKnow ==
    /\ phase = "up" => \A c \in Registered \ drift : Agree(c)
    /\ step = "validate" =>
         /\ todo \subseteq Registered
         /\ \A c \in Registered \ (drift \cup todo) : Agree(c)

\* The phases and the steps that belong to them.
StartSteps == {"list", "sweep", "validate"}
PhasesKnow ==
    /\ step \in StartSteps => phase = "starting"
    /\ phase \in {"down", "refused"} => step = "idle"
    /\ phase = "starting" => step \in StartSteps \cup CleanSteps
    /\ drift \subseteq damaged

\* A startup that nothing has disturbed finds only what imports leave behind.
SweepKnows ==
    /\ phase = "starting" /\ step # "list" /\ ~excused =>
         /\ step = "sweep" => Stranger \notin todo /\ \A c \in todo : file[c] # "none"
         /\ step \in CleanSteps => Stranger \notin todo /\ \A c \in todo : file[c] # "none"
         /\ step = "unlink" => file[cur] # "none"
    /\ phase \in {"starting", "up"} /\ foreign => excused
    /\ phase = "refused" => excused

\* What the sweep has dealt with is gone.
Orphan(c) == c \in stale /\ c \notin Registered
Dealt(c) ==
    \/ file[c] = "none"
    \/ step \in {"sweep", "discard", "unlink", "flush"} /\ c \in todo
    \/ step \in {"discard", "unlink"} /\ c = cur
OrphansKnow ==
    /\ phase = "up" => \A c \in Imports : Orphan(c) => file[c] = "none"
    /\ phase = "starting" /\ step # "list" => \A c \in Imports : Orphan(c) => Dealt(c)
    /\ step \in CleanSteps /\ phase = "starting" => cur \notin todo
    /\ phase = "up" /\ step # "idle" => cur \notin stale

Inv ==
    /\ TypeOK /\ FilesKept /\ ImportKnows /\ CleanKnows /\ RowsKnow /\ PhasesKnow
    /\ SweepKnows /\ OrphansKnow

-----------------------------------------------------------------------------
\* What a rename and a sync of the directory leave.
LEMMA MoveTypes ==
    ASSUME TypeOK, NEW c \in Imports, NEW place \in Places, Move(c, place)
    PROVE  file' \in [Imports -> Places] /\ may' \in [Imports -> SUBSET Places]
BY DEF TypeOK, Move

\* A sync leaves the places of every file well-typed.
LEMMA SyncTypes ==
    ASSUME TypeOK, SyncDirectory
    PROVE  may' \in [Imports -> SUBSET Places]
BY DEF TypeOK, SyncDirectory

-----------------------------------------------------------------------------
\* The steps of an import keep the invariant.
LEMMA BeginKeeps ==
    ASSUME Inv, NEW c \in Imports, Begin(c)
    PROVE  Inv'
<1>1. TypeOK'
  BY DEF Inv, TypeOK, Begin, disk, catalog
<1>2. FilesKept'
  BY DEF Inv, FilesKept, Kept, Registered, Begin, disk, catalog
<1>3. ImportKnows'
  BY DEF ImportKnows, Registered, Begin, catalog
<1>4. CleanKnows'
  BY DEF CleanKnows, Registered, Begin, catalog
<1>5. RowsKnow'
  BY DEF Inv, RowsKnow, Agree, Kept, Registered, Begin, disk, catalog
<1>6. PhasesKnow'
  BY DEF Inv, PhasesKnow, StartSteps, Begin
<1>7. SweepKnows'
  BY DEF Inv, SweepKnows, Begin
<1>8. OrphansKnow'
  BY DEF Inv, OrphansKnow, Orphan, Registered, Begin, disk, catalog
<1>9. QED BY <1>1, <1>2, <1>3, <1>4, <1>5, <1>6, <1>7, <1>8 DEF Inv

LEMMA CreateFailsKeeps ==
    ASSUME Inv, CreateFails
    PROVE  Inv'
<1>1. TypeOK'
  BY DEF Inv, TypeOK, CreateFails, Fails, Answer, Goto, disk, catalog, outside
<1>2. ImportKnows'
  BY DEF ImportKnows, ImportSteps, CreateFails, Answer, Goto
<1>3. CleanKnows'
  BY DEF CleanKnows, CleanSteps, CreateFails, Answer, Goto
<1>4. RowsKnow'
  BY DEF Inv, RowsKnow, Agree, Kept, Registered, CreateFails, Answer, Goto, disk, catalog, outside
<1>5. PhasesKnow'
  BY DEF Inv, PhasesKnow, StartSteps, CleanSteps, CreateFails, At, Answer, Goto, outside
<1>6. SweepKnows'
  BY DEF SweepKnows, CreateFails, Fails
<1>7. OrphansKnow'
  BY DEF Inv, OrphansKnow, Orphan, Dealt, Registered, CleanSteps, CreateFails, At, Answer, Goto,
      disk, catalog
<1>8. FilesKept'
  BY DEF Inv, FilesKept, Kept, Registered, CreateFails, disk, catalog, outside
<1>9. QED BY <1>1, <1>2, <1>3, <1>4, <1>5, <1>6, <1>7, <1>8 DEF Inv

LEMMA CreateKeeps ==
    ASSUME Inv, Create
    PROVE  Inv'
<1>1. TypeOK'
  BY DEF Inv, TypeOK, Places, Create, Move, Goto, Works, Answer, Fails, catalog, outside
<1>2. FilesKept'
  BY DEF Inv, FilesKept, ImportKnows, Kept, Registered, ImportSteps, Create, At, Move, catalog,
      outside
<1>3. ImportKnows'
  BY DEF Inv, ImportKnows, ImportSteps, Registered, Create, At, Goto, Answer, catalog
<1>4. CleanKnows'
  BY DEF CleanKnows, CleanSteps, Create, Goto, Answer
<1>5. RowsKnow'
  BY DEF Inv, RowsKnow, ImportKnows, Agree, Kept, Registered, ImportSteps, Create, At, Move, Goto,
      Answer, catalog, outside
<1>6. PhasesKnow'
  BY DEF Inv, PhasesKnow, StartSteps, CleanSteps, Create, At, Goto, Answer, outside
<1>7. SweepKnows'
  BY DEF Inv, SweepKnows, CleanSteps, Create, Goto, Works, Fails, outside
<1>8. OrphansKnow'
  BY DEF Inv, OrphansKnow, PhasesKnow, Orphan, Registered, CleanSteps, StartSteps, Create, At,
      Move, Goto, Answer, catalog
<1>9. QED BY <1>1, <1>2, <1>3, <1>4, <1>5, <1>6, <1>7, <1>8 DEF Inv

LEMMA WriteKeeps ==
    ASSUME Inv, Write
    PROVE  Inv'
<1>1. TypeOK'
  BY DEF Inv, TypeOK, Write, Goto, Works, Fails, catalog, outside
<1>2. FilesKept'
  BY DEF Inv, TypeOK, FilesKept, Kept, Registered, Write, catalog, outside
<1>3. ImportKnows'
  BY DEF Inv, TypeOK, ImportKnows, ImportSteps, Registered, Write, At, Goto, catalog
<1>4. CleanKnows'
  BY DEF Inv, ImportKnows, CleanKnows, ImportSteps, Registered, Write, At, Goto, catalog
<1>5. RowsKnow'
  BY DEF Inv, TypeOK, RowsKnow, ImportKnows, Agree, Kept, Registered, ImportSteps, Write, At, Goto,
      catalog, outside
<1>6. PhasesKnow'
  BY DEF Inv, PhasesKnow, StartSteps, CleanSteps, Write, At, Goto, outside
<1>7. SweepKnows'
  BY DEF Inv, SweepKnows, CleanSteps, Write, Goto, Works, Fails, outside
<1>8. OrphansKnow'
  BY DEF Inv, OrphansKnow, PhasesKnow, Orphan, Registered, CleanSteps, StartSteps, Write, At,
      Goto, catalog
<1>9. QED BY <1>1, <1>2, <1>3, <1>4, <1>5, <1>6, <1>7, <1>8 DEF Inv

LEMMA RenameToFinalKeeps ==
    ASSUME Inv, RenameToFinal
    PROVE  Inv'
<1>1. TypeOK'
  <2>1. file' \in [Imports -> Places] /\ may' \in [Imports -> SUBSET Places]
    BY MoveTypes DEF Inv, TypeOK, Places, RenameToFinal, At, Goto, Works, Fails
  <2>2. QED
    BY <2>1 DEF Inv, TypeOK, RenameToFinal, At, Goto, Works, Fails, disk, catalog, thread,
        outside
<1>2. FilesKept'
  BY DEF Inv, TypeOK, FilesKept, Kept, Registered, RenameToFinal, Move, catalog, outside
<1>3. ImportKnows'
  BY DEF Inv, TypeOK, ImportKnows, ImportSteps, Registered, RenameToFinal, At, Move, Goto,
      catalog, outside
<1>4. CleanKnows'
  BY DEF Inv, ImportKnows, CleanKnows, ImportSteps, Registered, RenameToFinal, At, Goto, catalog
<1>5. RowsKnow'
  BY DEF Inv, TypeOK, RowsKnow, ImportKnows, Agree, Kept, Registered, ImportSteps,
      RenameToFinal, At, Move, Goto, catalog, outside
<1>6. PhasesKnow'
  BY DEF Inv, PhasesKnow, StartSteps, CleanSteps, RenameToFinal, At, Goto, outside
<1>7. SweepKnows'
  BY DEF Inv, SweepKnows, CleanSteps, RenameToFinal, Goto, Works, Fails, outside
<1>8. OrphansKnow'
  BY DEF Inv, TypeOK, OrphansKnow, PhasesKnow, Orphan, Registered, CleanSteps, StartSteps,
      RenameToFinal, At, Move, Goto, catalog
<1>9. QED BY <1>1, <1>2, <1>3, <1>4, <1>5, <1>6, <1>7, <1>8 DEF Inv

LEMMA SyncFinalKeeps ==
    ASSUME Inv, SyncFinal
    PROVE  Inv'
<1>1. TypeOK'
  <2>1. file' \in [Imports -> Places] /\ may' \in [Imports -> SUBSET Places]
    BY SyncTypes DEF Inv, TypeOK, Places, SyncFinal, At, Goto, Works, Fails
  <2>2. QED
    BY <2>1 DEF Inv, TypeOK, SyncFinal, At, Goto, Works, Fails, disk, catalog, thread, outside
<1>2. FilesKept'
  BY DEF Inv, FilesKept, Kept, Registered, SyncFinal, SyncDirectory, catalog, outside
<1>3. ImportKnows'
  BY DEF Inv, TypeOK, ImportKnows, ImportSteps, Registered, SyncFinal, At, SyncDirectory, Goto,
      catalog, outside
<1>4. CleanKnows'
  BY DEF Inv, ImportKnows, CleanKnows, ImportSteps, Registered, SyncFinal, At, Goto, catalog
<1>5. RowsKnow'
  BY DEF Inv, RowsKnow, Agree, Kept, Registered, SyncFinal, Goto, catalog, outside
<1>6. PhasesKnow'
  BY DEF Inv, PhasesKnow, StartSteps, CleanSteps, SyncFinal, At, Goto, outside
<1>7. SweepKnows'
  BY DEF Inv, SweepKnows, CleanSteps, SyncFinal, Goto, Works, Fails, outside
<1>8. OrphansKnow'
  BY DEF Inv, OrphansKnow, PhasesKnow, Orphan, Registered, CleanSteps, StartSteps, SyncFinal,
      At, Goto, catalog
<1>9. QED BY <1>1, <1>2, <1>3, <1>4, <1>5, <1>6, <1>7, <1>8 DEF Inv

LEMMA InsertImportedChunkKeeps ==
    ASSUME Inv, InsertImportedChunk
    PROVE  Inv'
<1>1. TypeOK'
  BY DEF Inv, TypeOK, InsertImportedChunk, Goto, Works, Fails, disk, outside
<1>2. FilesKept'
  BY DEF Inv, TypeOK, FilesKept, ImportKnows, PhasesKnow, Kept, Registered, InsertImportedChunk,
      At, disk, outside
<1>3. ImportKnows'
  BY DEF Inv, ImportKnows, ImportSteps, InsertImportedChunk, At, Goto
<1>4. CleanKnows'
  BY DEF Inv, ImportKnows, CleanKnows, ImportSteps, Registered, CleanSteps, InsertImportedChunk,
      At, Goto
<1>5. RowsKnow'
  BY DEF Inv, TypeOK, RowsKnow, ImportKnows, Agree, Kept, Registered, InsertImportedChunk, At, Goto,
      disk, outside
<1>6. PhasesKnow'
  BY DEF Inv, PhasesKnow, StartSteps, CleanSteps, InsertImportedChunk, At, Goto, outside
<1>7. SweepKnows'
  BY DEF Inv, SweepKnows, CleanSteps, InsertImportedChunk, Goto, Works, Fails, outside
<1>8. OrphansKnow'
  BY DEF Inv, TypeOK, OrphansKnow, PhasesKnow, Orphan, Registered, CleanSteps, StartSteps,
      InsertImportedChunk, At, Goto, disk
<1>9. QED BY <1>1, <1>2, <1>3, <1>4, <1>5, <1>6, <1>7, <1>8 DEF Inv

LEMMA VanishedKeeps ==
    ASSUME Inv, Vanished
    PROVE  Inv'
<1>1. TypeOK'
  BY DEF Inv, TypeOK, Vanished, Goto, Fails, disk, catalog, outside
<1>2. ImportKnows'
  BY DEF ImportKnows, ImportSteps, Vanished, Goto
<1>3. CleanKnows'
  BY DEF Inv, ImportKnows, CleanKnows, ImportSteps, Registered, Vanished, At, Goto, catalog
<1>4. RowsKnow'
  BY DEF Inv, RowsKnow, Agree, Kept, Registered, Vanished, Goto, disk, catalog, outside
<1>5. PhasesKnow'
  BY DEF Inv, PhasesKnow, StartSteps, CleanSteps, Vanished, At, Goto, outside
<1>6. SweepKnows'
  BY DEF SweepKnows, Vanished, Fails
<1>7. OrphansKnow'
  BY DEF Inv, OrphansKnow, PhasesKnow, Orphan, Registered, CleanSteps, StartSteps, Vanished, At,
      Goto, disk, catalog
<1>8. FilesKept'
  BY DEF Inv, FilesKept, Kept, Registered, Vanished, disk, catalog, outside
<1>9. QED BY <1>1, <1>2, <1>3, <1>4, <1>5, <1>6, <1>7, <1>8 DEF Inv

LEMMA EnqueueImportJobKeeps ==
    ASSUME Inv, EnqueueImportJob
    PROVE  Inv'
<1>1. TypeOK'
  BY DEF Inv, TypeOK, EnqueueImportJob, Goto, Works, Fails, Answer, disk, outside
<1>2. ImportKnows'
  BY DEF Inv, ImportKnows, ImportSteps, EnqueueImportJob, At, Goto, Answer
<1>3. CleanKnows'
  BY DEF CleanKnows, CleanSteps, EnqueueImportJob, Goto, Answer
<1>4. RowsKnow'
  BY DEF Inv, RowsKnow, Agree, Kept, Registered, EnqueueImportJob, Goto, Answer, disk, outside
<1>5. PhasesKnow'
  BY DEF Inv, PhasesKnow, StartSteps, CleanSteps, EnqueueImportJob, At, Goto, Answer, outside
<1>6. SweepKnows'
  BY DEF Inv, SweepKnows, CleanSteps, EnqueueImportJob, Goto, Works, Fails, Answer, outside
<1>7. OrphansKnow'
  BY DEF Inv, OrphansKnow, Orphan, Dealt, Registered, CleanSteps, EnqueueImportJob, At, Goto,
      Answer, disk
<1>8. FilesKept'
  BY DEF Inv, FilesKept, Kept, Registered, EnqueueImportJob, disk, outside
<1>9. QED BY <1>1, <1>2, <1>3, <1>4, <1>5, <1>6, <1>7, <1>8 DEF Inv

LEMMA PersistPreflightFailureKeeps ==
    ASSUME Inv, PersistPreflightFailure
    PROVE  Inv'
<1>1. TypeOK'
  BY DEF Inv, TypeOK, PersistPreflightFailure, Goto, Works, Fails, Answer, disk, outside
<1>2. ImportKnows'
  BY DEF ImportKnows, ImportSteps, PersistPreflightFailure, Goto, Answer
<1>3. CleanKnows'
  BY DEF CleanKnows, CleanSteps, PersistPreflightFailure, Goto, Answer
<1>4. RowsKnow'
  BY DEF Inv, RowsKnow, Agree, Kept, Registered, PersistPreflightFailure, Goto, Answer,
      disk, outside
<1>5. PhasesKnow'
  BY DEF Inv, PhasesKnow, StartSteps, CleanSteps, PersistPreflightFailure, At, Goto, Answer,
      outside
<1>6. SweepKnows'
  BY DEF Inv, SweepKnows, CleanSteps, PersistPreflightFailure, Goto, Works, Fails, Answer,
      outside
<1>7. OrphansKnow'
  BY DEF Inv, OrphansKnow, Orphan, Dealt, Registered, CleanSteps, PersistPreflightFailure, At,
      Goto, Answer, disk
<1>8. FilesKept'
  BY DEF Inv, FilesKept, Kept, Registered, PersistPreflightFailure, disk, outside
<1>9. QED BY <1>1, <1>2, <1>3, <1>4, <1>5, <1>6, <1>7, <1>8 DEF Inv

-----------------------------------------------------------------------------
\* So do those of a clean-up,
LEMMA DiscardKeeps ==
    ASSUME Inv, Discard
    PROVE  Inv'
<1>1. TypeOK'
  <2>1. file' \in [Imports -> Places] /\ may' \in [Imports -> SUBSET Places]
    BY MoveTypes DEF Inv, TypeOK, Places, Discard, At, Goto, Works, Fails, GiveUp, Refuse,
        Answer
  <2>2. QED
    BY <2>1 DEF Inv, TypeOK, Discard, At, Goto, Works, Fails, GiveUp, Refuse, Answer, disk,
        catalog, thread, outside
<1>2. FilesKept'
  BY DEF Inv, TypeOK, FilesKept, CleanKnows, Kept, Registered, CleanSteps, Discard, At, Move,
      catalog, outside
<1>3. ImportKnows'
  BY DEF ImportKnows, ImportSteps, Discard, Goto, GiveUp, Refuse, Answer
<1>4. CleanKnows'
  BY DEF Inv, CleanKnows, CleanSteps, Registered, Discard, At, Goto, GiveUp, Refuse, Answer,
      catalog, outside
<1>5. RowsKnow'
  BY DEF Inv, TypeOK, RowsKnow, CleanKnows, Agree, Kept, Registered, CleanSteps, Discard, At, Move,
      Goto, GiveUp, Refuse, Answer, catalog, outside
<1>6. PhasesKnow'
  BY DEF Inv, PhasesKnow, StartSteps, CleanSteps, Discard, At, Goto, GiveUp, Refuse, Answer,
      outside
<1>7. SweepKnows'
  BY DEF Inv, TypeOK, SweepKnows, CleanSteps, Discard, At, Move, Goto, Works, Fails, outside
<1>8. OrphansKnow'
  BY DEF Inv, TypeOK, OrphansKnow, Orphan, Dealt, Registered, CleanSteps, Discard, At, Move,
      Goto, GiveUp, Refuse, Answer, catalog
<1>9. QED BY <1>1, <1>2, <1>3, <1>4, <1>5, <1>6, <1>7, <1>8 DEF Inv

LEMMA NothingToDiscardKeeps ==
    ASSUME Inv, NothingToDiscard
    PROVE  Inv'
<1>1. TypeOK'
  BY DEF Inv, TypeOK, NothingToDiscard, Done, Goto, Answer, Works, disk, catalog, outside
<1>2. ImportKnows'
  BY DEF ImportKnows, ImportSteps, NothingToDiscard, Done, Goto, Answer
<1>3. CleanKnows'
  BY DEF CleanKnows, CleanSteps, NothingToDiscard, Done, Goto, Answer
<1>4. RowsKnow'
  BY DEF Inv, RowsKnow, Agree, Kept, Registered, NothingToDiscard, Done, Goto, Answer, disk,
      catalog,
      outside
<1>5. PhasesKnow'
  BY DEF Inv, PhasesKnow, StartSteps, NothingToDiscard, Done, Goto, Answer, outside
<1>6. SweepKnows'
  BY DEF Inv, SweepKnows, CleanSteps, NothingToDiscard, At, Done, Goto, Answer, Works, disk,
      outside
<1>7. OrphansKnow'
  BY DEF Inv, OrphansKnow, Orphan, Dealt, Registered, CleanSteps, NothingToDiscard, At, Done,
      Goto, Answer, disk, catalog
<1>8. FilesKept'
  BY DEF Inv, FilesKept, Kept, Registered, NothingToDiscard, disk, catalog, outside
<1>9. QED BY <1>1, <1>2, <1>3, <1>4, <1>5, <1>6, <1>7, <1>8 DEF Inv

LEMMA UnlinkKeeps ==
    ASSUME Inv, Unlink
    PROVE  Inv'
<1>1. TypeOK'
  <2>1. file' \in [Imports -> Places] /\ may' \in [Imports -> SUBSET Places]
    BY MoveTypes DEF Inv, TypeOK, Places, Unlink, At, Goto, Works, Fails, GiveUp, Refuse, Answer
  <2>2. QED
    BY <2>1 DEF Inv, TypeOK, Unlink, At, Goto, Works, Fails, GiveUp, Refuse, Answer, disk,
        catalog, thread, outside
<1>2. FilesKept'
  BY DEF Inv, TypeOK, FilesKept, CleanKnows, Kept, Registered, CleanSteps, Unlink, At, Move,
      catalog, outside
<1>3. ImportKnows'
  BY DEF ImportKnows, ImportSteps, Unlink, Goto, GiveUp, Refuse, Answer
<1>4. CleanKnows'
  BY DEF Inv, CleanKnows, CleanSteps, Registered, Unlink, At, Goto, GiveUp, Refuse, Answer,
      catalog, outside
<1>5. RowsKnow'
  BY DEF Inv, TypeOK, RowsKnow, CleanKnows, Agree, Kept, Registered, CleanSteps, Unlink, At, Move,
      Goto, GiveUp, Refuse, Answer, catalog, outside
<1>6. PhasesKnow'
  BY DEF Inv, PhasesKnow, StartSteps, CleanSteps, Unlink, At, Goto, GiveUp, Refuse, Answer,
      outside
<1>7. SweepKnows'
  BY DEF Inv, TypeOK, SweepKnows, OrphansKnow, CleanSteps, Unlink, At, Move, Goto, Works, Fails,
      outside
<1>8. OrphansKnow'
  BY DEF Inv, TypeOK, OrphansKnow, Orphan, Dealt, Registered, CleanSteps, Unlink, At, Move,
      Goto, GiveUp, Refuse, Answer, catalog
<1>9. QED BY <1>1, <1>2, <1>3, <1>4, <1>5, <1>6, <1>7, <1>8 DEF Inv

LEMMA FlushKeeps ==
    ASSUME Inv, Flush
    PROVE  Inv'
<1>1. TypeOK'
  <2>1. file' \in [Imports -> Places] /\ may' \in [Imports -> SUBSET Places]
    BY SyncTypes DEF Inv, TypeOK, Places, Flush, At, Done, Goto, Works, Fails, GiveUp, Refuse,
        Answer
  <2>2. QED
    BY <2>1 DEF Inv, TypeOK, Flush, At, Done, Goto, Works, Fails, GiveUp, Refuse, Answer, disk,
        catalog, thread, outside
<1>2. FilesKept'
  BY DEF Inv, FilesKept, Kept, Registered, Flush, SyncDirectory, catalog, outside
<1>3. ImportKnows'
  BY DEF ImportKnows, ImportSteps, Flush, Done, Goto, GiveUp, Refuse, Answer
<1>4. CleanKnows'
  BY DEF CleanKnows, CleanSteps, Flush, Done, Goto, GiveUp, Refuse, Answer
<1>5. RowsKnow'
  BY DEF Inv, RowsKnow, Agree, Kept, Registered, Flush, Done, Goto, GiveUp, Refuse, Answer, catalog,
      outside
<1>6. PhasesKnow'
  BY DEF Inv, PhasesKnow, StartSteps, Flush, Done, Goto, GiveUp, Refuse, Answer, outside
<1>7. SweepKnows'
  BY DEF Inv, SweepKnows, CleanSteps, Flush, At, Done, Goto, Works, Fails, Answer, outside
<1>8. OrphansKnow'
  BY DEF Inv, OrphansKnow, Orphan, Dealt, Registered, CleanSteps, Flush, At, Done, Goto, GiveUp,
      Refuse, Answer, catalog
<1>9. QED BY <1>1, <1>2, <1>3, <1>4, <1>5, <1>6, <1>7, <1>8 DEF Inv

-----------------------------------------------------------------------------
\* those of a start of the program,
LEMMA StartKeeps ==
    ASSUME Inv, Start
    PROVE  Inv'
<1>1. TypeOK'
  BY DEF Inv, TypeOK, Start, disk, catalog, outside
<1>2. ImportKnows'
  BY DEF ImportKnows, ImportSteps, Start
<1>3. CleanKnows'
  BY DEF CleanKnows, CleanSteps, Start
<1>4. RowsKnow'
  BY DEF RowsKnow, Start
<1>5. PhasesKnow'
  BY DEF Inv, PhasesKnow, StartSteps, Start, outside
<1>6. SweepKnows'
  BY DEF SweepKnows, Start, outside
<1>7. OrphansKnow'
  BY DEF OrphansKnow, CleanSteps, Start
<1>8. FilesKept'
  BY DEF Inv, FilesKept, Kept, Registered, Start, disk, catalog, outside
<1>9. QED BY <1>1, <1>2, <1>3, <1>4, <1>5, <1>6, <1>7, <1>8 DEF Inv

LEMMA ListKeeps ==
    ASSUME Inv, List
    PROVE  Inv'
<1>1. TypeOK'
  BY DEF Inv, TypeOK, List, Present, Refuse, Works, Fails, disk, catalog, outside
<1>2. ImportKnows'
  BY DEF ImportKnows, ImportSteps, List, Refuse
<1>3. CleanKnows'
  BY DEF CleanKnows, CleanSteps, List, Refuse
<1>4. RowsKnow'
  BY DEF Inv, RowsKnow, Agree, Kept, Registered, List, Refuse, disk, catalog, outside
<1>5. PhasesKnow'
  BY DEF Inv, PhasesKnow, StartSteps, List, At, Refuse, outside
<1>6. SweepKnows'
  BY StrangerAssumption DEF Inv, SweepKnows, List, Present, Works, Fails, disk, outside
<1>7. OrphansKnow'
  BY DEF Inv, OrphansKnow, PhasesKnow, Dealt, CleanSteps, StartSteps, List, At, Present, Refuse,
      disk
<1>8. FilesKept'
  BY DEF Inv, FilesKept, Kept, Registered, List, disk, catalog, outside
<1>9. QED BY <1>1, <1>2, <1>3, <1>4, <1>5, <1>6, <1>7, <1>8 DEF Inv

LEMMA SweepEntryKeeps ==
    ASSUME Inv, NEW c \in Imports, SweepEntry(c)
    PROVE  Inv'
<1>1. TypeOK'
  BY DEF Inv, TypeOK, SweepEntry, Works, Fails, Take, Refuse, disk, catalog, outside
<1>2. ImportKnows'
  BY DEF ImportKnows, ImportSteps, SweepEntry, Take, Refuse
<1>3. CleanKnows'
  BY DEF Inv, FilesKept, CleanKnows, PhasesKnow, Kept, Registered, CleanSteps, StartSteps,
      SweepEntry, At, Referenced, Take, Refuse, catalog, outside
<1>4. RowsKnow'
  BY DEF Inv, RowsKnow, Agree, Kept, Registered, SweepEntry, Take, Refuse, disk, catalog, outside
<1>5. PhasesKnow'
  BY DEF Inv, PhasesKnow, StartSteps, CleanSteps, SweepEntry, At, Take, Refuse, outside
<1>6. SweepKnows'
  BY DEF Inv, TypeOK, SweepKnows, PhasesKnow, Places, StartSteps, SweepEntry, At, Works, Fails,
      Recognized, Take, disk, outside
<1>7. OrphansKnow'
  BY DEF Inv, OrphansKnow, PhasesKnow, Orphan, Dealt, Registered, StartSteps, SweepEntry, At,
      Referenced, Take, Refuse, disk, catalog
<1>8. FilesKept'
  BY DEF Inv, FilesKept, Kept, Registered, SweepEntry, disk, catalog, outside
<1>9. QED BY <1>1, <1>2, <1>3, <1>4, <1>5, <1>6, <1>7, <1>8 DEF Inv

LEMMA SweepStrangerKeeps ==
    ASSUME Inv, SweepStranger
    PROVE  Inv'
<1>1. TypeOK'
  BY DEF Inv, TypeOK, SweepStranger, Refuse, Works, disk, catalog, outside
<1>2. ImportKnows'
  BY DEF ImportKnows, ImportSteps, SweepStranger, Refuse
<1>3. CleanKnows'
  BY DEF CleanKnows, CleanSteps, SweepStranger, Refuse
<1>4. RowsKnow'
  BY DEF RowsKnow, SweepStranger, Refuse
<1>5. PhasesKnow'
  BY DEF Inv, PhasesKnow, StartSteps, SweepStranger, Refuse, outside
<1>6. SweepKnows'
  BY DEF Inv, SweepKnows, PhasesKnow, StartSteps, SweepStranger, At, Works
<1>7. OrphansKnow'
  BY DEF OrphansKnow, SweepStranger, Refuse
<1>8. FilesKept'
  BY DEF Inv, FilesKept, Kept, Registered, SweepStranger, disk, catalog, outside
<1>9. QED BY <1>1, <1>2, <1>3, <1>4, <1>5, <1>6, <1>7, <1>8 DEF Inv

LEMMA SweepEndsKeeps ==
    ASSUME Inv, SweepEnds
    PROVE  Inv'
<1>1. TypeOK'
  <2>1. file' \in [Imports -> Places] /\ may' \in [Imports -> SUBSET Places]
    BY SyncTypes DEF Inv, TypeOK, Places, SweepEnds, At, Registered, Works, Fails, Refuse
  <2>2. QED
    BY <2>1 DEF Inv, TypeOK, SweepEnds, At, Registered, Works, Fails, Refuse, disk, catalog,
        thread, outside
<1>2. FilesKept'
  BY DEF Inv, FilesKept, Kept, Registered, SweepEnds, SyncDirectory, catalog, outside
<1>3. ImportKnows'
  BY DEF ImportKnows, ImportSteps, SweepEnds, Refuse
<1>4. CleanKnows'
  BY DEF CleanKnows, CleanSteps, SweepEnds, Refuse
<1>5. RowsKnow'
  BY DEF Inv, RowsKnow, Agree, Kept, Registered, SweepEnds, Refuse, catalog, outside
<1>6. PhasesKnow'
  BY DEF Inv, PhasesKnow, StartSteps, SweepEnds, At, Refuse, outside
<1>7. SweepKnows'
  BY DEF Inv, SweepKnows, CleanSteps, SweepEnds, Works, Fails, outside
<1>8. OrphansKnow'
  BY DEF Inv, OrphansKnow, Orphan, Dealt, Registered, CleanSteps, SweepEnds, At, Refuse, catalog
<1>9. QED BY <1>1, <1>2, <1>3, <1>4, <1>5, <1>6, <1>7, <1>8 DEF Inv

LEMMA ValidateChunkKeeps ==
    ASSUME Inv, NEW c \in Imports, ValidateChunk(c)
    PROVE  Inv'
<1>1. TypeOK'
  BY DEF Inv, TypeOK, ValidateChunk, Integrity, Take, Works, Fails, Refuse, disk
<1>2. FilesKept'
  BY DEF Inv, TypeOK, FilesKept, RowsKnow, Kept, Registered, ValidateChunk, At, disk
<1>3. ImportKnows'
  BY DEF ImportKnows, ImportSteps, ValidateChunk, Take, Refuse
<1>4. CleanKnows'
  BY DEF CleanKnows, CleanSteps, ValidateChunk, Take, Refuse
<1>5. RowsKnow'
  BY DEF Inv, TypeOK, RowsKnow, Agree, Kept, Registered, ValidateChunk, At, Integrity, Take, Refuse,
      disk
<1>6. PhasesKnow'
  BY DEF Inv, PhasesKnow, StartSteps, ValidateChunk, At, Take, Refuse
<1>7. SweepKnows'
  BY DEF Inv, SweepKnows, ValidateChunk, At, Take, Works, Fails, disk
<1>8. OrphansKnow'
  BY DEF Inv, TypeOK, OrphansKnow, Absent, Orphan, Dealt, Registered, ValidateChunk, At,
      Integrity, Take, Refuse, disk
<1>9. QED BY <1>1, <1>2, <1>3, <1>4, <1>5, <1>6, <1>7, <1>8 DEF Inv

LEMMA StartedKeeps ==
    ASSUME Inv, Started
    PROVE  Inv'
<1>1. TypeOK'
  BY DEF Inv, TypeOK, Started, disk, catalog, outside
<1>2. ImportKnows'
  BY DEF ImportKnows, ImportSteps, Started
<1>3. CleanKnows'
  BY DEF CleanKnows, CleanSteps, Started
<1>4. RowsKnow'
  BY DEF Inv, RowsKnow, Agree, Kept, Registered, Started, At, disk, catalog, outside
<1>5. PhasesKnow'
  BY DEF Inv, PhasesKnow, StartSteps, Started, outside
<1>6. SweepKnows'
  BY DEF Inv, SweepKnows, Started, At, outside
<1>7. OrphansKnow'
  BY DEF Inv, OrphansKnow, Orphan, Dealt, Registered, Started, At, disk, catalog
<1>8. FilesKept'
  BY DEF Inv, FilesKept, Kept, Registered, Started, disk, catalog, outside
<1>9. QED BY <1>1, <1>2, <1>3, <1>4, <1>5, <1>6, <1>7, <1>8 DEF Inv

-----------------------------------------------------------------------------
\* and those of the environment.
LEMMA GrowKeeps ==
    ASSUME Inv, NEW c \in Imports, Grow(c)
    PROVE  Inv'
<1>1. TypeOK'
  BY DEF Inv, TypeOK, Grow, catalog, thread, outside
<1>2. /\ FilesKept' /\ ImportKnows' /\ CleanKnows' /\ RowsKnow'
      /\ PhasesKnow' /\ SweepKnows' /\ OrphansKnow'
  BY DEF Inv, FilesKept, ImportKnows, CleanKnows, RowsKnow, PhasesKnow, SweepKnows, OrphansKnow,
      Kept, Registered, Agree, Orphan, Dealt, Grow, catalog, thread, outside
<1>3. QED BY <1>1, <1>2 DEF Inv

LEMMA CrashKeeps ==
    ASSUME Inv, Crash
    PROVE  Inv'
<1>1. TypeOK'
  BY DEF Inv, TypeOK, Crash, Down, disk, catalog, outside
<1>2. ImportKnows'
  BY DEF ImportKnows, ImportSteps, Crash, Down
<1>3. CleanKnows'
  BY DEF CleanKnows, CleanSteps, Crash, Down
<1>4. RowsKnow'
  BY DEF RowsKnow, Crash, Down
<1>5. PhasesKnow'
  BY DEF Inv, PhasesKnow, StartSteps, Crash, Down, outside
<1>6. SweepKnows'
  BY DEF SweepKnows, Crash, Down
<1>7. OrphansKnow'
  BY DEF OrphansKnow, Crash, Down
<1>8. FilesKept'
  BY DEF Inv, FilesKept, Kept, Registered, Crash, disk, catalog, outside
<1>9. QED BY <1>1, <1>2, <1>3, <1>4, <1>5, <1>6, <1>7, <1>8 DEF Inv

LEMMA PowerLossKeeps ==
    ASSUME Inv, PowerLoss
    PROVE  Inv'
<1>1. TypeOK'
  BY DEF Inv, TypeOK, PowerLoss, Down, catalog, outside
<1>2. FilesKept'
  BY DEF Inv, FilesKept, Kept, Registered, PowerLoss, catalog, outside
<1>3. ImportKnows'
  BY DEF ImportKnows, ImportSteps, PowerLoss, Down
<1>4. CleanKnows'
  BY DEF CleanKnows, CleanSteps, PowerLoss, Down
<1>5. RowsKnow'
  BY DEF RowsKnow, PowerLoss, Down
<1>6. PhasesKnow'
  BY DEF Inv, PhasesKnow, StartSteps, PowerLoss, Down, outside
<1>7. SweepKnows'
  BY DEF SweepKnows, PowerLoss, Down
<1>8. OrphansKnow'
  BY DEF OrphansKnow, PowerLoss, Down
<1>9. QED BY <1>1, <1>2, <1>3, <1>4, <1>5, <1>6, <1>7, <1>8 DEF Inv

LEMMA SpoilKeeps ==
    ASSUME Inv, NEW c \in Imports, Spoil(c)
    PROVE  Inv'
<1>1. TypeOK'
  BY DEF Inv, TypeOK, Spoil, Touch, catalog, thread
<1>2. FilesKept'
  BY DEF Inv, FilesKept, Kept, Registered, Spoil, Touch, catalog
<1>3. ImportKnows'
  BY DEF Inv, ImportKnows, Registered, Spoil, Touch, catalog, thread
<1>4. CleanKnows'
  BY DEF Inv, CleanKnows, Registered, Spoil, Touch, catalog, thread
<1>5. RowsKnow'
  BY DEF Inv, RowsKnow, Agree, Kept, Registered, Spoil, Touch, catalog, thread
<1>6. PhasesKnow'
  BY DEF Inv, PhasesKnow, Spoil, Touch, thread
<1>7. SweepKnows'
  BY DEF SweepKnows, Spoil, Touch
<1>8. OrphansKnow'
  BY DEF Inv, OrphansKnow, Orphan, Dealt, Registered, Spoil, catalog, thread
<1>9. QED BY <1>1, <1>2, <1>3, <1>4, <1>5, <1>6, <1>7, <1>8 DEF Inv

LEMMA RemoveKeeps ==
    ASSUME Inv, NEW c \in Imports, Remove(c)
    PROVE  Inv'
<1>1. TypeOK'
  BY DEF Inv, TypeOK, Places, Remove, Move, Touch, catalog, thread
<1>2. FilesKept'
  BY DEF Inv, FilesKept, Kept, Registered, Remove, Move, Touch, catalog
<1>3. ImportKnows'
  BY DEF Inv, ImportKnows, Registered, Remove, Move, Touch, catalog, thread
<1>4. CleanKnows'
  BY DEF Inv, CleanKnows, Registered, Remove, Touch, catalog, thread
<1>5. RowsKnow'
  BY DEF Inv, RowsKnow, Agree, Kept, Registered, Remove, Move, Touch, catalog, thread
<1>6. PhasesKnow'
  BY DEF Inv, PhasesKnow, Remove, Touch, thread
<1>7. SweepKnows'
  BY DEF SweepKnows, Remove, Touch
<1>8. OrphansKnow'
  BY DEF Inv, OrphansKnow, Orphan, Dealt, Registered, Remove, Move, catalog, thread
<1>9. QED BY <1>1, <1>2, <1>3, <1>4, <1>5, <1>6, <1>7, <1>8 DEF Inv

LEMMA PutBackKeeps ==
    ASSUME Inv, NEW c \in Imports, PutBack(c)
    PROVE  Inv'
<1>1. TypeOK'
  BY DEF Inv, TypeOK, Places, PutBack, Move, Touch, catalog, thread
<1>2. FilesKept'
  BY DEF Inv, FilesKept, Kept, Registered, PutBack, Move, Touch, catalog
<1>3. ImportKnows'
  BY DEF Inv, ImportKnows, Registered, PutBack, Move, Touch, catalog, thread
<1>4. CleanKnows'
  BY DEF Inv, CleanKnows, Registered, PutBack, Touch, catalog, thread
<1>5. RowsKnow'
  BY DEF Inv, RowsKnow, Agree, Kept, Registered, PutBack, Move, Touch, catalog, thread
<1>6. PhasesKnow'
  BY DEF Inv, PhasesKnow, PutBack, Touch, thread
<1>7. SweepKnows'
  BY DEF SweepKnows, PutBack, Touch
<1>8. OrphansKnow'
  BY DEF Inv, OrphansKnow, Orphan, Dealt, Registered, PutBack, Move, catalog, thread
<1>9. QED BY <1>1, <1>2, <1>3, <1>4, <1>5, <1>6, <1>7, <1>8 DEF Inv

LEMMA LeaveStrangerKeeps ==
    ASSUME Inv, LeaveStranger
    PROVE  Inv'
<1>1. TypeOK'
  BY DEF Inv, TypeOK, LeaveStranger, disk, catalog, thread
<1>2. SweepKnows'
  BY DEF SweepKnows, LeaveStranger
<1>3. FilesKept' /\ ImportKnows' /\ CleanKnows' /\ RowsKnow' /\ PhasesKnow' /\ OrphansKnow'
  BY DEF Inv, FilesKept, ImportKnows, CleanKnows, RowsKnow, PhasesKnow, OrphansKnow, Kept,
      Registered, Agree, Kept, Orphan, Dealt, LeaveStranger, disk, catalog, thread
<1>4. QED BY <1>1, <1>2, <1>3 DEF Inv
-----------------------------------------------------------------------------
(* The theorems.                                                           *)

\* The invariant speaks of the model's variables only: a stutter keeps it.
LEMMA StutterKeeps == ASSUME Inv, UNCHANGED vars PROVE Inv'
BY DEF Inv, TypeOK, FilesKept, ImportKnows, CleanKnows, RowsKnow, PhasesKnow, SweepKnows,
    OrphansKnow, Kept, Registered, Agree, Orphan, Dealt, vars, disk, catalog, thread, outside

\* What the main thread knows holds in every state, for any number of imports.
THEOREM ImportInvariance == Spec => []Inv
<1>1. Init => Inv
  <2> SUFFICES ASSUME Init PROVE Inv
    OBVIOUS
  <2>1. TypeOK
    BY DEF Init, TypeOK, Places
  <2>2. FilesKept
    BY DEF Init, FilesKept, Registered
  <2>3. ImportKnows /\ CleanKnows /\ RowsKnow
    BY DEF Init, ImportKnows, CleanKnows, RowsKnow, ImportSteps, CleanSteps
  <2>4. PhasesKnow /\ SweepKnows
    BY DEF Init, PhasesKnow, SweepKnows, StartSteps
  <2>5. OrphansKnow
    BY DEF Init, OrphansKnow, CleanSteps
  <2>6. QED
    BY <2>1, <2>2, <2>3, <2>4, <2>5 DEF Inv
<1>2. Inv /\ [Next]_vars => Inv'
  <2> SUFFICES ASSUME Inv, [Next]_vars PROVE Inv'
    OBVIOUS
  <2>1. CASE ImportStep
    BY <2>1, BeginKeeps, CreateFailsKeeps, CreateKeeps, WriteKeeps, RenameToFinalKeeps,
        SyncFinalKeeps, InsertImportedChunkKeeps, VanishedKeeps, EnqueueImportJobKeeps,
        PersistPreflightFailureKeeps DEF ImportStep
  <2>2. CASE CleanupStep
    BY <2>2, DiscardKeeps, NothingToDiscardKeeps, UnlinkKeeps, FlushKeeps DEF CleanupStep
  <2>3. CASE StartStep
    BY <2>3, StartKeeps, ListKeeps, SweepStrangerKeeps, SweepEndsKeeps, StartedKeeps,
        SweepEntryKeeps, ValidateChunkKeeps DEF StartStep
  <2>4. CASE Outsiders
    BY <2>4, CrashKeeps, PowerLossKeeps, LeaveStrangerKeeps, GrowKeeps, SpoilKeeps, RemoveKeeps,
        PutBackKeeps DEF Outsiders
  <2>5. CASE UNCHANGED vars
    BY <2>5, StutterKeeps
  <2>6. QED
    BY <2>1, <2>2, <2>3, <2>4, <2>5 DEF Next
<1>3. QED
  BY <1>1, <1>2, PTL DEF Spec

\* The bytes of a registered import stay where its row says, whatever fails, dies or
\* loses power, unless an outsider touches them (import_audio_core, reconcile_orphans).
THEOREM RecordsAlwaysKept == Spec => []RecordsAreKept
<1>1. Inv => RecordsAreKept
  BY DEF Inv, FilesKept, Kept, RecordsAreKept
<1>2. QED
  BY <1>1, ImportInvariance, PTL

\* While the program runs, a row is true of every file that was not touched since the
\* row was written, but that a file the last start failed to read may be called
\* corrupted (reconcile_audio_before, validate).
THEOREM IntegrityAlwaysKnown == Spec => []IntegrityIsKnown
<1>1. Inv => IntegrityIsKnown
  BY DEF Inv, RowsKnow, Agree, Kept, IntegrityIsKnown
<1>2. QED
  BY <1>1, ImportInvariance, PTL

\* What imports leave behind never keeps the program from starting, and a start that
\* succeeds leaves nothing stale and unregistered (reconcile_orphans).
THEOREM StartsAlwaysClean == Spec => []StartRunsClean
<1>1. Inv => StartRunsClean
  BY DEF Inv, TypeOK, SweepKnows, OrphansKnow, Orphan, Registered, StartRunsClean
<1>2. QED
  BY <1>1, ImportInvariance, PTL
=============================================================================
