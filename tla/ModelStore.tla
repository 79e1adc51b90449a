----------------------------- MODULE ModelStore -----------------------------
(* One model with a pinned runtime in the store of models: its row in      *)
(* model_installations, its immutable bundle directory, the staging, trash *)
(* and quarantine areas, and everyone who works on them: the install       *)
(* operation (with ModelDownload), one deletion at a time, the jobs that   *)
(* lease the bundle, and the reconciliation at every start of the program  *)
(* (asr/model_manager/*.rs, catalog/models.rs, service/runtime_lock.rs).   *)
(* Renames are followed by directory syncs; a crash keeps what they did.   *)
EXTENDS ModelDownload

CONSTANTS
    Users,      \* jobs and calls that may lease the bundle
    Stamps      \* qualified_at values that can be told apart; 0 is none

ASSUME StoreAssumption == Stamps \in Nat \ {0}

VARIABLES
    row,        \* the model's row in model_installations
    dir,        \* the bundle's final directory and the deletion markers in it
    trash,      \* the trees in trash/, each as the set of its deletion markers
    staged,     \* a tree of this model in staging/
    del,        \* the deletion in progress and its lease
    user,       \* the step of each user's execution lease
    phase,      \* step of the startup; "up" when the program runs
    purging,    \* the trash tree the startup is about to remove
    faulted     \* the step of the one I/O or catalog call that failed since the start

store == <<row, dir, trash, staged>>
svars == <<row, dir, trash, staged, del, user, phase, purging, faulted>>
vars == <<dvars, svars>>

\* The lease of a deletion restores the row it found; it is told from another
\* one by qualified_at.
Leases == 0 .. Stamps
NoRow == [state |-> "absent", at |-> 0]
Installed(at) == [state |-> "installed", at |-> at]
NoDir == [present |-> FALSE, whole |-> FALSE, tmp |-> FALSE, mark |-> {}]
Bundle == [present |-> TRUE, whole |-> TRUE, tmp |-> FALSE, mark |-> {}]
NoDeletion == [pc |-> "idle", lease |-> 0, own |-> {}, whole |-> FALSE]

\* Both validations take a stray marker.tmp for a file that does not belong.
Valid == dir.present /\ dir.whole /\ ~dir.tmp
Qualified == row.state = "installed" /\ row.at > 0
Reserved == del.pc # "idle"
Executable == ~Reserved /\ Qualified /\ Valid

STypeOK ==
    /\ DTypeOK
    /\ row \in [state : {"absent", "installed", "deleting"}, at : Leases]
    /\ dir \in [present : BOOLEAN, whole : BOOLEAN, tmp : BOOLEAN, mark : SUBSET Leases]
    /\ trash \subseteq SUBSET Leases /\ purging \subseteq trash
    /\ del.lease \in Leases /\ del.own \subseteq SUBSET Leases /\ user \in [Users -> {"free", "counted", "read", "held"}]
    /\ staged \in BOOLEAN

Init ==
    /\ DInit
    /\ row = NoRow /\ dir = NoDir /\ trash = {} /\ staged = FALSE
    /\ del = NoDeletion /\ user = [u \in Users |-> "free"]
    /\ phase = "down" /\ purging = {} /\ faulted = "no"

-----------------------------------------------------------------------------
(* Catalog statements.                                                     *)

\* Times that no row, marker or lease has.  Only their identity matters, so the
\* first one stands for all, and a publication waits while all are in use.
FreshTimes == (1 .. Stamps) \ ({row.at, del.lease} \cup dir.mark \cup UNION trash)

\* publish_installation: an upsert that also takes a row from a deletion.
PublishInstallation == FreshTimes # {} /\ row' = Installed(Min(FreshTimes))

\* record_installation_recovery: an update of the row in whatever state.
RecordRecovery == row' = IF row.state = "absent" THEN row ELSE Installed(0)

\* finish_delete and complete_deletion_recovery change a deleting row only.
Deleting == row.state = "deleting"
AbortDelete(lease) == row' = IF Deleting THEN Installed(lease) ELSE row

\* At most one I/O or catalog call fails in each run of the program, at any step of
\* an install or of a deletion.  The fault is named "record" when what fails is to
\* put the download's row into its next state, or to decide which one that is.
FaultAt(s) == faulted = "no" /\ faulted' = s
Fault == FaultAt("install")
DeleteFault == FaultAt(del.pc)
NoFault == UNCHANGED faulted

-----------------------------------------------------------------------------
(* The install operation: ensure_model_installed and complete_install.     *)

InstallVars == <<del, user, phase, purging>>
Thread(s) == inst = s /\ phase = "up"
KeepParts == UNCHANGED <<cp, part, disk>>

Ensure ==
    /\ phase = "up" /\ ~Executable /\ Install
    /\ UNCHANGED svars

Downloading == phase = "up" /\ (Fetch \/ RequestCancel) /\ UNCHANGED svars

DownloadingFails ==
    /\ phase = "up"
    /\ (StorageFails /\ FaultAt("part")) \/ (RecordFails /\ FaultAt("record"))
    /\ UNCHANGED <<store, InstallVars>>

EndInstall(state) == dl' = state /\ EndOperation /\ KeepParts

\* The install is over, and its row says so; or the statement that says it fails,
\* and the row stays as busy as it was.
Conclude(state) == (EndInstall(state) /\ NoFault) \/ (EndInstall(dl) /\ FaultAt("record"))

\* complete_install up to the preflight of the disk.
BeginInstall ==
    /\ Thread("install")
    /\ \/ dl' = "installing" /\ inst' = "assemble" /\ KeepParts /\ UNCHANGED <<fetch, tries, cancel>> /\ NoFault
       \/ EndInstall(dl) /\ FaultAt("record")
    /\ UNCHANGED <<store, InstallVars>>

InstallStep(next) == inst' = next /\ KeepParts /\ UNCHANGED <<dl, fetch, tries, cancel>>

PreflightFails ==
    /\ Thread("assemble") /\ Conclude("failed") /\ UNCHANGED <<store, InstallVars>>

\* install_verified_anchored up to the rename: parts and checkpoints are
\* compared again and the bundle is put together in staging.
Assemble ==
    /\ Thread("assemble") /\ cp.verified /\ HashMatches
    /\ staged' = TRUE /\ InstallStep("rename")
    /\ UNCHANGED <<row, dir, trash, InstallVars, faulted>>

\* A failure before the rename: whatever is in the final directory decides.
AssembleFails ==
    /\ inst \in {"assemble", "rename"} /\ phase = "up" /\ Fault
    /\ staged' = FALSE
    /\ IF dir.present THEN InstallStep("recover") ELSE EndInstall("failed")
    /\ UNCHANGED <<row, dir, trash, InstallVars>>

\* publish_directory_noreplace; an existing bundle is a conflict, and so the final
\* directory is looked at, which may fail.
PublishBundle ==
    /\ Thread("rename")
    /\ \/ ~dir.present /\ dir' = Bundle /\ staged' = FALSE /\ InstallStep("publish") /\ NoFault
       \/ /\ dir.present /\ UNCHANGED <<dir, staged>>
          /\ (InstallStep("recover") /\ NoFault) \/ (EndInstall(dl) /\ FaultAt("record"))
    /\ UNCHANGED <<row, trash, InstallVars>>

\* Mutant: a failing catalog ends the install instead of recovering the bundle.
PublishRowGivesUp ==
    /\ Thread("publish")
    /\ \/ PublishInstallation /\ NoFault /\ InstallStep("succeed")
       \/ Fault /\ UNCHANGED <<row, dl>> /\ EndOperation /\ KeepParts
    /\ UNCHANGED <<dir, trash, staged, InstallVars>>

PublishRow ==
    /\ Thread("publish")
    /\ \/ PublishInstallation /\ NoFault /\ InstallStep("succeed")
       \/ Fault /\ UNCHANGED row /\ InstallStep("recover")
    /\ UNCHANGED <<dir, trash, staged, InstallVars>>

Succeed ==
    /\ Thread("succeed")
    /\ \/ EndInstall("succeeded") /\ NoFault
       \/ Fault /\ InstallStep("recover")
    /\ UNCHANGED <<store, InstallVars>>

\* recover_post_rename: what reconcile_installation_outcome finds, and the
\* statements and the rename that follow, are steps of their own.
RecoverLook ==
    /\ Thread("recover")
    /\ \/ InstallStep(IF ~dir.present THEN "missing" ELSE IF Valid THEN "whole" ELSE "broken") /\ NoFault
       \/ Fault /\ EndInstall("failed")
    /\ UNCHANGED <<store, InstallVars>>

RecoverQuarantine ==
    /\ Thread("broken")
    /\ \/ dir.present /\ dir' = NoDir /\ InstallStep("missing") /\ NoFault
       \/ ~dir.present /\ UNCHANGED dir /\ Conclude("failed")
       \/ Fault /\ UNCHANGED dir /\ EndInstall("failed")
    /\ UNCHANGED <<row, trash, staged, InstallVars>>

RecoverRejects ==
    /\ Thread("missing")
    /\ \/ RecordRecovery /\ Conclude("failed")
       \/ Fault /\ UNCHANGED row /\ EndInstall("failed")
    /\ UNCHANGED <<dir, trash, staged, InstallVars>>

RecoverPublish ==
    /\ Thread("whole")
    /\ \/ PublishInstallation /\ NoFault /\ InstallStep("recovered")
       \/ Fault /\ UNCHANGED row /\ EndInstall("failed")
    /\ UNCHANGED <<dir, trash, staged, InstallVars>>

RecoverSucceeds ==
    /\ Thread("recovered")
    /\ \/ EndInstall("succeeded") /\ NoFault
       \/ EndInstall("failed") /\ Fault
    /\ UNCHANGED <<store, InstallVars>>

InstallNext ==
    \/ Ensure \/ Downloading \/ DownloadingFails \/ BeginInstall \/ PreflightFails
    \/ Assemble \/ AssembleFails \/ PublishBundle \/ PublishRow \/ Succeed
    \/ RecoverLook \/ RecoverQuarantine \/ RecoverRejects \/ RecoverPublish \/ RecoverSucceeds

-----------------------------------------------------------------------------
(* delete_anchored: one deletion at a time, as the registry is reserved.   *)

DeleteVars == <<dvars, staged, user, phase, purging>>
Delete(s) == del.pc = s /\ phase = "up"
DeleteStep(next) == del' = [del EXCEPT !.pc = next]

\* Mutant: deletes under the users' feet.
BeginDeleteLeased ==
    /\ phase = "up" /\ ~Reserved
    /\ row.state = "installed"
    /\ row' = [row EXCEPT !.state = "deleting"]
    /\ del' = [NoDeletion EXCEPT !.pc = "check", !.lease = row.at]
    /\ UNCHANGED <<dir, trash, faulted, DeleteVars>>

\* Under the lock of the registry: no leases, and begin_delete.
BeginDelete ==
    /\ phase = "up" /\ ~Reserved
    /\ \A u \in Users : user[u] = "free"
    /\ row.state = "installed"
    /\ row' = [row EXCEPT !.state = "deleting"]
    /\ del' = [NoDeletion EXCEPT !.pc = "check", !.lease = row.at]
    /\ UNCHANGED <<dir, trash, faulted, DeleteVars>>

\* Without the directory the deletion is taken back; a failing look is not.
DeleteCheck ==
    /\ Delete("check")
    /\ \/ dir.present /\ DeleteStep("tmp") /\ NoFault /\ UNCHANGED row
       \/ ~dir.present /\ AbortDelete(del.lease) /\ del' = NoDeletion /\ NoFault
       \/ DeleteFault /\ del' = NoDeletion /\ UNCHANGED row
    /\ UNCHANGED <<dir, trash, DeleteVars>>

WriteMarker ==
    /\ Delete("tmp")
    /\ \/ /\ dir.present /\ ~dir.tmp
          /\ dir' = [dir EXCEPT !.tmp = TRUE] /\ DeleteStep("mark") /\ NoFault
       \/ (~dir.present \/ dir.tmp) /\ DeleteStep("restore") /\ NoFault /\ UNCHANGED dir
       \/ DeleteFault /\ DeleteStep("restore") /\ UNCHANGED dir
    /\ UNCHANGED <<row, trash, DeleteVars>>

PlaceMarker ==
    /\ Delete("mark")
    /\ \/ /\ dir.tmp /\ dir.mark = {}
          /\ dir' = [dir EXCEPT !.tmp = FALSE, !.mark = {del.lease}]
          /\ DeleteStep("move") /\ NoFault
       \/ (~dir.tmp \/ dir.mark # {}) /\ DeleteStep("restore") /\ NoFault /\ UNCHANGED dir
       \/ DeleteFault /\ DeleteStep("restore") /\ UNCHANGED dir
    /\ UNCHANGED <<row, trash, DeleteVars>>

\* The rename into trash; a sync that fails after it takes the tree back.
MoveToTrash ==
    /\ Delete("move")
    /\ \/ /\ dir.present
          /\ trash' = trash \cup {dir.mark} /\ dir' = NoDir
          /\ \/ NoFault /\ del' = [del EXCEPT !.pc = "finish", !.own = {dir.mark}, !.whole = dir.whole]
             \/ DeleteFault /\ del' = [del EXCEPT !.pc = "restore", !.own = {dir.mark}, !.whole = dir.whole]
       \/ ~dir.present /\ DeleteStep("restore") /\ NoFault /\ UNCHANGED <<dir, trash>>
       \/ DeleteFault /\ DeleteStep("restore") /\ UNCHANGED <<dir, trash>>
    /\ UNCHANGED <<row, DeleteVars>>

FinishDelete ==
    /\ Delete("finish")
    /\ \/ Deleting /\ row' = NoRow /\ DeleteStep("purge") /\ NoFault
       \/ ~Deleting /\ DeleteStep("restore") /\ NoFault /\ UNCHANGED row
       \/ DeleteFault /\ DeleteStep("restore") /\ UNCHANGED row
    /\ UNCHANGED <<dir, trash, DeleteVars>>

\* remove_tree in some order; the marker may go before the rest does.
Purge ==
    /\ Delete("purge")
    /\ \/ trash' = trash \ del.own /\ del' = NoDeletion /\ NoFault
       \/ /\ del.own # {{}}
          /\ trash' = (trash \ del.own) \cup {{}} /\ del' = [del EXCEPT !.own = {{}}] /\ NoFault
       \/ DeleteFault /\ del' = NoDeletion /\ UNCHANGED trash
    /\ UNCHANGED <<row, dir, DeleteVars>>

\* restore_anchored: the tree goes back unless a new bundle is in its place;
\* then the call fails and leaves tree and row as they are.
Restore ==
    /\ Delete("restore")
    /\ IF del.own = {} THEN DeleteStep("clean") /\ UNCHANGED <<dir, trash>>
       ELSE IF dir.present THEN del' = NoDeletion /\ UNCHANGED <<dir, trash>>
       ELSE /\ trash' = trash \ del.own
            /\ dir' = [Bundle EXCEPT !.whole = del.whole, !.mark = UNION del.own]
            /\ DeleteStep("clean")
    /\ UNCHANGED <<row, faulted, DeleteVars>>

\* A marker that cannot be removed is left.
CleanMarkers ==
    /\ Delete("clean")
    /\ \/ dir' = [dir EXCEPT !.tmp = FALSE, !.mark = {}] /\ NoFault
       \/ DeleteFault /\ UNCHANGED dir
    /\ DeleteStep("abort")
    /\ UNCHANGED <<row, trash, DeleteVars>>

\* Mutant: a failed deletion leaves its row to the next start.
AbortForgotten ==
    /\ Delete("abort") /\ NoFault /\ UNCHANGED row
    /\ del' = NoDeletion
    /\ UNCHANGED <<dir, trash, DeleteVars>>

Abort ==
    /\ Delete("abort")
    /\ \/ AbortDelete(del.lease) /\ NoFault
       \/ DeleteFault /\ UNCHANGED row
    /\ del' = NoDeletion
    /\ UNCHANGED <<dir, trash, DeleteVars>>

DeleteNext ==
    \/ BeginDelete \/ DeleteCheck \/ WriteMarker \/ PlaceMarker \/ MoveToTrash \/ FinishDelete
    \/ Purge \/ Restore \/ CleanMarkers \/ Abort

-----------------------------------------------------------------------------
(* executable_installation: counted in the registry, then the row, then    *)
(* the files, which stay open while the lease is held.                     *)

UserStep(u, from, to) ==
    /\ phase = "up" /\ user[u] = from
    /\ user' = [user EXCEPT ![u] = to]
    /\ UNCHANGED <<dvars, store, del, phase, purging, faulted>>

AcquireLease(u) == ~Reserved /\ UserStep(u, "free", "counted")
ReadRow(u) == UserStep(u, "counted", IF Qualified THEN "read" ELSE "free")
CaptureBundle(u) == UserStep(u, "read", IF Valid THEN "held" ELSE "free")
DropLease(u) == UserStep(u, "held", "free")

UserNext == \E u \in Users : AcquireLease(u) \/ ReadRow(u) \/ CaptureBundle(u) \/ DropLease(u)

-----------------------------------------------------------------------------
(* The start of the program: reconcile_all_anchored under the runtime lock *)
(* and before anything else runs.  An error ends CoreRuntime::initialize.  *)

StartVars == <<del, user, faulted>>
Startup(s) == phase = s /\ purging = {} /\ UNCHANGED StartVars

Start ==
    /\ phase \in {"down", "refused"} /\ phase' = "trash" /\ faulted' = "no"
    /\ UNCHANGED <<dvars, store, del, user, purging>>

\* A marked tree must belong to the current deletion; its row goes first.
ReconcileTrash ==
    /\ Startup("trash")
    /\ \/ trash = {} /\ phase' = "downloads" /\ UNCHANGED <<row, purging>>
       \/ \E t \in trash :
             \/ t = {} /\ purging' = {t} /\ UNCHANGED <<row, phase>>
             \/ t # {} /\ Deleting /\ t = {row.at} /\ row' = NoRow /\ purging' = {t} /\ UNCHANGED phase
             \/ t # {} /\ ~(Deleting /\ t = {row.at}) /\ phase' = "refused" /\ UNCHANGED <<row, purging>>
    /\ UNCHANGED <<dvars, dir, trash, staged>>

\* remove_tree, the marker at any point of it.
RemoveTrash ==
    /\ phase \in {"trash", "installs"} /\ purging # {}
    /\ \/ trash' = trash \ purging /\ purging' = {}
       \/ purging # {{}} /\ trash' = (trash \ purging) \cup {{}} /\ purging' = {{}}
    /\ UNCHANGED <<dvars, row, dir, staged, StartVars, phase>>

StartDownloads ==
    /\ Startup("downloads") /\ ReconcileDownloads(part, disk)
    /\ phase' = "staging"
    /\ UNCHANGED <<fetch, inst, tries, cancel, store, purging>>

ClearStaging ==
    /\ Startup("staging") /\ staged' = FALSE
    /\ phase' = "installs"
    /\ UNCHANGED <<dvars, row, dir, trash, purging>>

\* reconcile_deleting_anchored: without a directory the deletion is complete,
\* without a marker it is taken back, with its marker it goes on.
ReconcileDeleting ==
    /\ Startup("installs") /\ Deleting
    /\ \/ ~dir.present /\ row' = NoRow /\ phase' = "unrecorded" /\ UNCHANGED <<dir, trash>>
       \/ /\ dir.present /\ dir.mark = {}
          /\ dir' = [dir EXCEPT !.tmp = FALSE] /\ AbortDelete(row.at)
          /\ phase' = "unrecorded" /\ UNCHANGED trash
       \/ /\ dir.present /\ dir.mark = {row.at}
          /\ trash' = trash \cup {dir.mark} /\ dir' = NoDir
          /\ phase' = "moved" /\ UNCHANGED row
       \/ dir.mark \notin {{}, {row.at}} /\ phase' = "refused" /\ UNCHANGED <<row, dir, trash>>
    /\ UNCHANGED <<dvars, staged, purging>>

CompleteDeletion ==
    /\ Startup("moved")
    /\ row' = NoRow /\ purging' = {{row.at}} /\ phase' = "installs"
    /\ UNCHANGED <<dvars, dir, trash, staged>>

\* Mutant: trusts a row whose bundle is whole, and one whose bundle is gone.
ReconcileRowByDirectory ==
    /\ Startup("installs") /\ ~Deleting
    /\ phase' = "unrecorded"
    /\ \/ row = NoRow /\ UNCHANGED row
       \/ row # NoRow /\ Valid /\ PublishInstallation
       \/ row # NoRow /\ ~Valid /\ UNCHANGED row
    /\ UNCHANGED <<dvars, dir, trash, staged, purging>>

\* reconcile_installation_anchored of a recorded bundle: published again if it
\* is valid, else demoted and put into quarantine.
ReconcileRow ==
    /\ Startup("installs") /\ ~Deleting
    /\ \/ row = NoRow /\ UNCHANGED row /\ phase' = "unrecorded"
       \/ row # NoRow /\ Valid /\ PublishInstallation /\ phase' = "unrecorded"
       \/ row # NoRow /\ ~Valid /\ RecordRecovery /\ phase' = IF dir.present THEN "reject" ELSE "unrecorded"
    /\ UNCHANGED <<dvars, dir, trash, staged, purging>>

Quarantine ==
    /\ Startup("reject") /\ dir' = NoDir /\ phase' = "unrecorded"
    /\ UNCHANGED <<dvars, row, trash, staged, purging>>

\* reconcile_unrecorded_anchored: a bundle that was renamed before a crash gets
\* its row, another one goes into quarantine.
ReconcileUnrecorded ==
    /\ Startup("unrecorded") /\ phase' = "up"
    /\ \/ (row # NoRow \/ ~dir.present) /\ UNCHANGED <<row, dir>>
       \/ row = NoRow /\ Valid /\ PublishInstallation /\ UNCHANGED dir
       \/ row = NoRow /\ dir.present /\ ~Valid /\ dir' = NoDir /\ UNCHANGED row
    /\ UNCHANGED <<dvars, trash, staged, purging>>

StartNext ==
    \/ Start \/ ReconcileTrash \/ RemoveTrash \/ StartDownloads \/ ClearStaging
    \/ ReconcileDeleting \/ CompleteDeletion \/ ReconcileRow \/ Quarantine \/ ReconcileUnrecorded

\* The program dies at any step; what a thread or the registry knew is gone.
Crash ==
    /\ phase \notin {"down", "refused"} /\ phase' = "down"
    /\ DownloadCrash
    /\ del' = NoDeletion /\ user' = [u \in Users |-> "free"]
    /\ purging' = {} /\ faulted' = "no"
    /\ UNCHANGED store

\* Somebody changes the bundle while the program does not run.
Damage ==
    /\ phase = "down" /\ dir.present
    /\ dir' = [dir EXCEPT !.whole = FALSE]
    /\ UNCHANGED <<dvars, row, trash, staged, del, user, phase, purging, faulted>>

Next == InstallNext \/ DeleteNext \/ UserNext \/ StartNext \/ Crash \/ Damage

Spec == Init /\ [][Next]_vars

-----------------------------------------------------------------------------
\* No deletion touches a bundle that a job has leased; the one thing that takes
\* it away is the recovery of an install, which rejects what it saw in the middle
\* of a deletion that was then taken back, and which demotes the row with it,
\* unless that statement fails.
LeasedBundleStays ==
    (\E u \in Users : user[u] = "held") =>
        /\ ~Reserved /\ ~Deleting
        /\ (dir.present /\ dir.whole) \/ inst = "missing" \/ ~Qualified \/ faulted = "install"

\* When the program comes up, whatever a crash, a fault or damage left behind is
\* gone: a valid bundle is recorded, a qualified row has its directory, no deletion
\* is half done, no operation looks busy.  (The bundle of a deletion that this
\* start took back is validated by the next one, so no more holds of it here.)
Reconciled ==
    /\ (Valid => row # NoRow) /\ (Qualified => dir.present)
    /\ ~Deleting /\ ~staged /\ trash = {} /\ dl \notin Busy

StartupReconciles == [][phase # "up" /\ phase' = "up" => Reconciled']_vars

\* While the program runs, a download without an operation is left busy, which the
\* unique index holds against every later install until the next start, only by a
\* call that failed to record or to decide the row's state: no other failing call
\* of an install, of its recovery, of a deletion beside it or of a cancel does it.
DownloadSettles == phase = "up" /\ inst = "idle" /\ dl \in Busy => faulted = "record"

\* A deletion that fails gives the row back: a row stays deleting only when the
\* look before the marker, or the undo itself, failed as well.
FailedDeletesAreUndone ==
    phase = "up" /\ ~Reserved /\ inst = "idle" /\ Deleting => faulted \in {"check", "abort"}

\* The reconciliation at startup handles whatever a deletion left behind
\* (docs/prd/lifesub-real-asr-v0.2/.artifacts/notes.md:97), so the program can
\* always start again.
StartupNeverRefused == phase # "refused"
=============================================================================
