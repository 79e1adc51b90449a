---------------------------- MODULE ModelDownload ----------------------------
(* The resumable download of one model's artifact (asr/model_manager/      *)
(* download.rs) with its row and checkpoint in the catalog                 *)
(* (catalog/models.rs), in the thread of the one registered install        *)
(* operation (service/runtime_lock.rs).  Bytes come in units, each marked  *)
(* with the version of the artifact it was read from.  `part` is the file  *)
(* the process sees, `disk` what a power loss may take it back to.  Calls  *)
(* of the file system and of the catalog may fail; such a failure is not   *)
(* one of the network, and no attempt follows it.                          *)
EXTENDS Naturals, FiniteSetsExt, SequencesExt

CONSTANTS
    Size,       \* units of the artifact
    Versions,   \* contents a server may send; only Right has the expected hash
    Right,
    NoTag,      \* the response carries no validator
    MaxTries    \* MODEL_INSTALL_MAX_ATTEMPTS

ASSUME DownloadAssumption ==
    /\ Size \in Nat \ {0} /\ MaxTries \in Nat \ {0}
    /\ Right \in Versions /\ NoTag \notin Versions

VARIABLES
    dl,         \* state of the newest row in model_downloads, "none" without one
    cp,         \* the artifact's checkpoint in model_download_artifacts
    part,       \* the part file as the process sees it
    disk,       \* the part file as last synced
    fetch,      \* the request or response in progress
    inst,       \* step of the install operation
    tries,      \* attempts of ensure_model_installed that failed
    cancel      \* its cancellation flag

dvars == <<dl, cp, part, disk, fetch, inst, tries, cancel>>

Busy == {"queued", "downloading", "verifying", "installing"}
Retryable == {"failed", "cancelled"}
Tags == Versions \cup {NoTag}
Bytes == BoundedSeq(Versions, Size)

NoCheckpoint == [known |-> FALSE, bytes |-> 0, tag |-> NoTag, verified |-> FALSE]
NoFetch == [start |-> 0, tag |-> NoTag, ver |-> Right, resumed |-> FALSE]
Expected == [i \in 1 .. Size |-> Right]
HashMatches == part = Expected

DTypeOK ==
    /\ dl \in Busy \cup Retryable \cup {"none", "succeeded"}
    /\ cp \in [known : BOOLEAN, bytes : 0 .. Size, tag : Tags, verified : BOOLEAN]
    /\ part \in Bytes /\ disk \in Bytes
    /\ fetch \in [start : 0 .. Size, tag : Tags, ver : Versions, resumed : BOOLEAN]
    /\ tries \in 0 .. MaxTries - 1 /\ cancel \in BOOLEAN

DInit ==
    /\ dl = "none" /\ cp = NoCheckpoint /\ part = <<>> /\ disk = <<>>
    /\ fetch = NoFetch /\ inst = "idle" /\ tries = 0 /\ cancel = FALSE

-----------------------------------------------------------------------------
(* Catalog helpers.                                                        *)

\* save_progress: a checkpoint of n units is never a verified one.
SaveProgress(n, tag) == cp' = [known |-> TRUE, bytes |-> n, tag |-> tag, verified |-> FALSE]

\* save_verified, after the hash of the whole part was compared.
SaveVerified == cp' = [known |-> TRUE, bytes |-> Size, tag |-> NoTag, verified |-> TRUE]

\* The operation ends; its locals and its flag go with it.
EndOperation == inst' = "idle" /\ tries' = 0 /\ cancel' = FALSE /\ fetch' = NoFetch

\* A failing download leaves its row failed, or cancelled when the flag was
\* seen in time.
FailedRow(network) == dl' \in {"failed"} \cup (IF network /\ cancel THEN {"cancelled"} ELSE {})

\* Mutant: the attempts are not counted.
DownloadFailsUncounted(network) ==
    /\ FailedRow(network)
    /\ IF network /\ ~cancel
       THEN inst' = "choose" /\ fetch' = NoFetch /\ UNCHANGED <<tries, cancel>>
       ELSE EndOperation

\* ensure_model_installed tries again after a failure of the network while
\* attempts are left and nobody cancelled.
DownloadFails(network) ==
    /\ FailedRow(network)
    /\ IF network /\ ~cancel /\ tries + 1 < MaxTries
       THEN inst' = "choose" /\ tries' = tries + 1 /\ fetch' = NoFetch /\ UNCHANGED cancel
       ELSE EndOperation

-----------------------------------------------------------------------------
\* execute_model_install: one operation of a model at a time, with a new flag.
Install ==
    /\ inst = "idle" /\ inst' = "choose"
    /\ UNCHANGED <<dl, cp, part, disk, fetch, tries, cancel>>

\* begin_download: a new row without checkpoints, in a directory of its own.
\* The unique index on busy rows refuses it while another one is busy.
BeginDownload ==
    /\ inst = "choose" /\ dl \notin Retryable
    /\ IF dl \in Busy
       THEN EndOperation /\ UNCHANGED <<dl, cp, part, disk>>
       ELSE /\ dl' = "queued" /\ inst' = "queued"
            /\ cp' = NoCheckpoint /\ part' = <<>> /\ disk' = <<>>
            /\ UNCHANGED <<fetch, tries, cancel>>

\* download_existing, of the new row or of the failed or cancelled one found.
DownloadExisting ==
    /\ inst = "queued" \/ (inst = "choose" /\ dl \in Retryable)
    /\ dl' = "downloading" /\ inst' = "open"
    /\ fetch' = [NoFetch EXCEPT !.resumed = inst = "choose"]
    /\ UNCHANGED <<cp, part, disk, tries, cancel>>

\* download_artifact up to its first request: file and checkpoint are brought
\* to the smaller length, and a part that is already whole is only hashed.
Opened(hashed) ==
    /\ inst = "open"
    /\ LET offset == IF cp.known THEN Min({cp.bytes, Len(part)}) ELSE 0
       IN  /\ part' = SubSeq(part, 1, offset)
           /\ disk' = IF Len(part) # offset THEN part' ELSE disk
           /\ fetch' = [fetch EXCEPT !.start = offset % Size, !.tag = cp.tag]
           /\ IF offset = Size /\ hashed
              THEN SaveVerified /\ inst' = "fetched"
              ELSE /\ IF cp.known /\ Len(part) < cp.bytes
                      THEN SaveProgress(offset, cp.tag) ELSE UNCHANGED cp
                   /\ inst' = "request"
    /\ UNCHANGED <<dl, tries, cancel>>

\* Mutant: a resumed part that has the expected length is not hashed again.
OpenPartByLength == Opened(Len(part) = Size)

OpenPart == Opened(HashMatches)

\* The request sees the flag, fails, or its status or headers are refused; an
\* invalid redirect is refused as well, and is no failure of the network.
RequestFails(network) ==
    /\ inst = "request" /\ (cancel => network)
    /\ DownloadFails(network)
    /\ UNCHANGED <<cp, part, disk>>

\* A response with content v, with its validator or without one.  A partial
\* one whose validator changed is asked for again from the start, once.
Respond(v, tag, partial) ==
    /\ inst = "request" /\ ~cancel
    /\ tag \in {v, NoTag} /\ (partial => fetch.start > 0)
    /\ IF partial /\ fetch.tag # NoTag /\ fetch.tag # tag
       THEN fetch' = [fetch EXCEPT !.start = 0] /\ UNCHANGED <<part, inst>>
       ELSE /\ fetch' = [fetch EXCEPT !.ver = v, !.tag = tag]
            /\ part' = SubSeq(part, 1, IF partial THEN fetch.start ELSE 0)
            /\ inst' = "stream"
    /\ UNCHANGED <<dl, cp, disk, tries, cancel>>

\* stream: one unit of the body is written; nothing is synced yet.
Receive ==
    /\ inst = "stream" /\ Len(part) < Size
    /\ part' = Append(part, fetch.ver)
    /\ UNCHANGED <<dl, cp, disk, fetch, inst, tries, cancel>>

\* After an interval of bytes the part is synced and then the checkpoint saved.
Checkpoint ==
    /\ inst = "stream" /\ disk # part
    /\ disk' = part /\ SaveProgress(Len(part), fetch.tag)
    /\ UNCHANGED <<dl, part, fetch, inst, tries, cancel>>

\* The flag, a read error or a body of the wrong length end the stream; the
\* bytes that came are kept with their checkpoint.
StreamEnds ==
    /\ inst = "stream"
    /\ disk' = part /\ SaveProgress(Len(part), fetch.tag)
    /\ DownloadFails(TRUE)
    /\ UNCHANGED part

\* Mutant: a body of the declared length is taken without its hash.
BodyCompleteUnhashed ==
    /\ inst = "stream" /\ Len(part) = Size
    /\ disk' = part /\ SaveVerified /\ inst' = "fetched"
    /\ UNCHANGED <<dl, part, fetch, tries, cancel>>

\* The whole body came: sync, checkpoint, and only then the hash decides.
BodyComplete ==
    /\ inst = "stream" /\ Len(part) = Size
    /\ disk' = part
    /\ IF HashMatches
       THEN SaveVerified /\ inst' = "fetched" /\ UNCHANGED <<dl, fetch, tries, cancel>>
       ELSE SaveProgress(Size, fetch.tag) /\ DownloadFails(FALSE)
    /\ UNCHANGED part

\* The flag is looked at once more before a new row is installed, not before a
\* resumed one.
Downloaded ==
    /\ inst = "fetched"
    /\ dl' = "verifying"
    /\ inst' = IF fetch.resumed THEN "install" ELSE "verifying"
    /\ fetch' = NoFetch
    /\ UNCHANGED <<cp, part, disk, tries, cancel>>

CancelBeforeInstall ==
    /\ inst = "verifying"
    /\ IF cancel
       THEN dl' = "cancelled" /\ EndOperation
       ELSE inst' = "install" /\ UNCHANGED <<dl, fetch, tries, cancel>>
    /\ UNCHANGED <<cp, part, disk>>

\* request_model_cancellation: while the row is busy and the operation registered.
RequestCancel ==
    /\ inst # "idle" /\ dl \in Busy /\ cancel' = TRUE
    /\ UNCHANGED <<dl, cp, part, disk, fetch, inst, tries>>

\* A call on the part or on its checkpoint fails: the download fails with it, and
\* what a cut, a sync or a checkpoint did before it stays.
StorageFails ==
    /\ inst \in {"open", "stream"}
    /\ disk' \in {disk, part} /\ DownloadFails(FALSE)
    /\ UNCHANGED <<cp, part>>

\* A statement that puts the row into a state fails, the insertion of a new row and
\* the row's directory included: the error is returned, and the row keeps the state
\* it had, for nobody takes it back before the next start.
RecordFails ==
    /\ inst \in {"choose", "queued", "request", "stream", "fetched"} \/ (inst = "verifying" /\ cancel)
    /\ EndOperation
    /\ UNCHANGED <<dl, cp, part, disk>>

Fetch ==
    \/ BeginDownload \/ DownloadExisting \/ OpenPart \/ Receive \/ Checkpoint
    \/ \E network \in BOOLEAN : RequestFails(network)
    \/ \E v \in Versions, tag \in Tags, partial \in BOOLEAN : Respond(v, tag, partial)
    \/ StreamEnds \/ BodyComplete \/ Downloaded \/ CancelBeforeInstall

-----------------------------------------------------------------------------
(* The process dies, or the machine with it.                               *)

\* What the next start finds of the part: all of it when only the process died,
\* else what was synced of it and some of the bytes that came since.
Leftovers ==
    LET kept == IF IsPrefix(disk, part) THEN Len(disk) ELSE 0
    IN  {<<part, disk>>, <<disk, disk>>}
            \cup {<<SubSeq(part, 1, n), SubSeq(part, 1, n)>> : n \in kept .. Len(part)}

\* reconcile_downloads_anchored at startup: file and checkpoint agree again, a
\* verified checkpoint is believed only after the hash, a busy row becomes failed.
ReconcileDownloads(found, synced) ==
    /\ IF cp.known
       THEN LET durable == Min({cp.bytes, Len(found)})
            IN  /\ part' = SubSeq(found, 1, durable)
                /\ disk' = IF Len(found) > durable THEN part' ELSE synced
                /\ cp' = [cp EXCEPT !.bytes = durable,
                                    !.verified = cp.verified /\ durable = Size /\ found = Expected]
       ELSE part' = found /\ disk' = synced /\ UNCHANGED cp
    /\ dl' = IF dl \in Busy THEN "failed" ELSE dl

\* What is left when the process dies: the row, its checkpoint and the part.
DownloadCrash ==
    /\ \E left \in Leftovers : part' = left[1] /\ disk' = left[2]
    /\ EndOperation /\ UNCHANGED <<dl, cp>>

-----------------------------------------------------------------------------
(* The download by itself: what the install makes of a verified part is    *)
(* left to ModelStore, and a crash and the start after it are one step.    *)

InstallOutcome ==
    /\ inst = "install"
    /\ dl' \in {"succeeded", "failed", "installing", dl} /\ EndOperation
    /\ UNCHANGED <<cp, part, disk>>

Restart == EndOperation /\ \E left \in Leftovers : ReconcileDownloads(left[1], left[2])

DNext ==
    \/ Install \/ Fetch \/ InstallOutcome \/ RequestCancel
    \/ StorageFails \/ RecordFails \/ Restart

\* The operation has a thread of its own, and the client's timeouts end a
\* request or a read that does not come back.
DSpec == DInit /\ [][DNext]_dvars /\ WF_dvars(Fetch \/ InstallOutcome)

\* A verified checkpoint stands for a whole part with the expected hash, for as
\* long as the part is kept: through resumed and restarted responses, servers
\* that change the artifact, cancels, retries, failing calls and power losses.
VerifiedIsWhole == cp.verified => HashMatches

\* The attempts are bounded: an install operation ends, whatever the server
\* sends and however often it is resumed, and the model can be tried again.
InstallEnds == inst # "idle" ~> inst = "idle"
=============================================================================
