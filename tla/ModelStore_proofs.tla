-------------------------- MODULE ModelStore_proofs --------------------------
(***************************************************************************)
(* Theorems about the download of a model (ModelDownload) and about the    *)
(* store of models built on it (ModelStore), for any size of the artifact, *)
(* any contents a server may send, any number of attempts and any users.   *)
(*                                                                         *)
(* A verified checkpoint never stands for anything but the expected bytes. *)
(* It is inductive with one fact: nothing is verified while a response is  *)
(* asked for or read.  A power loss may take the part from a verified      *)
(* checkpoint, so what a start finds is only typed; the reconciliation     *)
(* hashes it again, and nothing that uses the checkpoint runs before it.   *)
(*                                                                         *)
(* The invariants of the store say what each of its actors may rely on     *)
(* while the others go on: Quiet for the install operation, Undoing for    *)
(* the deletion, Held for the users of the bundle, Starting for the start  *)
(* of the program.                                                         *)
(***************************************************************************)
EXTENDS ModelStore, TLAPS

-----------------------------------------------------------------------------
(* The download.                                                           *)

Fetching == {"request", "stream"}

FetchTyped == fetch \in [start : Nat, tag : Tags, ver : Versions, resumed : BOOLEAN]

CheckpointTyped == cp \in [known : BOOLEAN, bytes : Nat, tag : Tags, verified : BOOLEAN]

Typed ==
    /\ CheckpointTyped
    /\ cp.verified => cp.known
    /\ part \in Seq(Versions) /\ disk \in Seq(Versions)
    /\ FetchTyped

Whole == cp.verified => cp.known /\ cp.bytes = Size /\ HashMatches /\ inst \notin Fetching

Started == inst = "request" => fetch.start <= Len(part)

DownloadInv == Typed /\ Whole /\ Started

-----------------------------------------------------------------------------
\* The prefixes the code cuts: all of a sequence, or a part of it.
LEMMA CutPrefix ==
    ASSUME NEW s \in Seq(Versions), NEW n \in Nat, n <= Len(s)
    PROVE  /\ SubSeq(s, 1, n) \in Seq(Versions) /\ Len(SubSeq(s, 1, n)) = n
           /\ n = Len(s) => SubSeq(s, 1, n) = s
OBVIOUS

LEMMA Smaller ==
    ASSUME NEW a \in Nat, NEW b \in Nat
    PROVE  Min({a, b}) \in Nat /\ Min({a, b}) <= b /\ (a = b => Min({a, b}) = a)
           /\ (a < b => Min({a, b}) = a) /\ (b <= a => Min({a, b}) = b)
  <1>1. PICK x \in {a, b} : \A y \in {a, b} : x <= y
    OBVIOUS
  <1>2. Min({a, b}) \in {a, b} /\ \A y \in {a, b} : Min({a, b}) <= y
    BY <1>1 DEF Min
  <1>3. QED
    BY <1>2

\* What a failed or ended operation leaves of its response.
LEMMA NoFetchTyped == ASSUME DownloadAssumption, fetch' = NoFetch PROVE FetchTyped'
  BY DEF DownloadAssumption, NoFetch, Tags, FetchTyped

\* A cut to the smaller of the checkpoint and what is there of the part leaves the
\* expected bytes as they are.
LEMMA Cut ==
    ASSUME DownloadAssumption, Typed, NEW s \in Seq(Versions), NEW n,
           n = IF cp.known THEN Min({cp.bytes, Len(s)}) ELSE 0
    PROVE  /\ n \in Nat /\ n <= Len(s)
           /\ SubSeq(s, 1, n) \in Seq(Versions) /\ Len(SubSeq(s, 1, n)) = n
           /\ s = Expected /\ n = Size => SubSeq(s, 1, n) = s
           /\ cp.known /\ cp.bytes = Size /\ s = Expected => n = Size
  <1>1. Len(s) \in Nat /\ cp.bytes \in Nat
    BY DEF Typed, CheckpointTyped
  <1>2. n \in Nat /\ n <= Len(s)
    BY <1>1, Smaller
  <1>3. /\ SubSeq(s, 1, n) \in Seq(Versions) /\ Len(SubSeq(s, 1, n)) = n
        /\ n = Len(s) => SubSeq(s, 1, n) = s
    BY <1>2, CutPrefix
  <1>4. s = Expected => Len(s) = Size
    BY DEF Expected, DownloadAssumption
  <1>5. cp.known /\ cp.bytes = Size /\ Len(s) = Size => n = Size
    BY <1>1, Smaller
  <1>6. QED
    BY <1>2, <1>3, <1>4, <1>5

-----------------------------------------------------------------------------
\* A failed download touches neither the part nor its checkpoint.
LEMMA FailureKeeps ==
    ASSUME DownloadAssumption, NEW network, DownloadFails(network)
    PROVE  inst' \in {"choose", "idle"} /\ FetchTyped'
  <1>1. inst' \in {"choose", "idle"} /\ fetch' = NoFetch
    BY DEF DownloadFails, EndOperation
  <1>2. QED
    BY <1>1, NoFetchTyped

LEMMA OpenKeeps == ASSUME DownloadAssumption, DownloadInv, OpenPart PROVE DownloadInv'
  <1> PICK n : n = IF cp.known THEN Min({cp.bytes, Len(part)}) ELSE 0
    OBVIOUS
  <1>1. /\ part' = SubSeq(part, 1, n)
        /\ disk' = IF Len(part) # n THEN part' ELSE disk
        /\ fetch' = [fetch EXCEPT !.start = n % Size, !.tag = cp.tag]
        /\ IF n = Size /\ HashMatches
           THEN SaveVerified /\ inst' = "fetched"
           ELSE /\ IF cp.known /\ Len(part) < cp.bytes THEN SaveProgress(n, cp.tag) ELSE UNCHANGED cp
                /\ inst' = "request"
    BY DEF OpenPart, Opened
  <1>2. /\ n \in Nat /\ n <= Len(part) /\ part' \in Seq(Versions) /\ Len(part') = n
        /\ HashMatches /\ n = Size => part' = part
        /\ cp.verified => n = Size /\ HashMatches
    <2>1. Typed /\ Whole /\ part \in Seq(Versions)
      BY DEF DownloadInv, Typed
    <2>2. QED
      BY <1>1, <2>1, Cut DEF Whole, HashMatches
  <1>3. disk' \in Seq(Versions)
    BY <1>1, <1>2 DEF DownloadInv, Typed
  <1>4. n % Size \in Nat /\ n % Size <= n
    BY <1>2 DEF DownloadAssumption
  <1>5. FetchTyped'
    BY <1>1, <1>4 DEF DownloadInv, Typed, FetchTyped, CheckpointTyped
  <1>6. CheckpointTyped' /\ (cp'.verified => cp'.known)
    <2>1. ASSUME SaveVerified PROVE CheckpointTyped' /\ cp'.known
      BY <2>1 DEF SaveVerified, CheckpointTyped, Tags, DownloadAssumption
    <2>2. ASSUME SaveProgress(n, cp.tag) PROVE CheckpointTyped' /\ cp'.known
      <3>1. n \in Nat /\ cp.tag \in Tags
        BY <1>2 DEF DownloadInv, Typed, CheckpointTyped
      <3>2. QED
        BY <2>2, <3>1 DEF SaveProgress, CheckpointTyped
    <2>3. ASSUME UNCHANGED cp PROVE CheckpointTyped' /\ (cp'.verified => cp'.known)
      BY <2>3 DEF DownloadInv, Typed, CheckpointTyped
    <2>4. QED
      BY <1>1, <2>1, <2>2, <2>3
  <1>7. Whole'
    <2>1. CASE n = Size /\ HashMatches
      <3>1. HashMatches' /\ SaveVerified /\ inst' = "fetched"
        BY <1>1, <1>2, <2>1 DEF HashMatches, Expected
      <3>2. QED
        BY <3>1 DEF Whole, SaveVerified, Fetching
    <2>2. CASE ~(n = Size /\ HashMatches)
      <3>1. ~cp.verified
        BY <1>2, <2>2
      <3>2. cp'.verified = FALSE
        BY <1>1, <2>2, <3>1 DEF SaveProgress, DownloadInv, Typed, CheckpointTyped
      <3>3. QED
        BY <3>2 DEF Whole
    <2>3. QED
      BY <2>1, <2>2
  <1>8. Started'
    <2>1. fetch'.start = n % Size
      BY <1>1 DEF DownloadInv, Typed, FetchTyped
    <2>2. QED
      BY <1>2, <1>4, <2>1 DEF Started
  <1>9. QED
    BY <1>2, <1>3, <1>5, <1>6, <1>7, <1>8 DEF DownloadInv, Typed

\* What a crash leaves of the part is some sequence of bytes.
LEMMA LeftoversTyped ==
    ASSUME Typed, NEW left \in Leftovers
    PROVE  left[1] \in Seq(Versions) /\ left[2] \in Seq(Versions)
  <1>1. part \in Seq(Versions) /\ disk \in Seq(Versions) /\ Len(part) \in Nat /\ Len(disk) \in Nat
    BY DEF Typed
  <1> PICK kept : kept = IF IsPrefix(disk, part) THEN Len(disk) ELSE 0
    OBVIOUS
  <1>2. kept \in Nat
    BY <1>1
  <1>3. ASSUME NEW n \in kept .. Len(part) PROVE SubSeq(part, 1, n) \in Seq(Versions)
    <2>1. n \in Nat /\ n <= Len(part)
      BY <1>1, <1>2
    <2>2. QED
      BY <1>1, <2>1, CutPrefix
  <1>4. \/ left \in {<<part, disk>>, <<disk, disk>>}
        \/ \E n \in kept .. Len(part) : left = <<SubSeq(part, 1, n), SubSeq(part, 1, n)>>
    BY DEF Leftovers
  <1>5. CASE left \in {<<part, disk>>, <<disk, disk>>}
    BY <1>1, <1>5
  <1>6. ASSUME NEW n \in kept .. Len(part), left = <<SubSeq(part, 1, n), SubSeq(part, 1, n)>>
        PROVE  left[1] \in Seq(Versions) /\ left[2] \in Seq(Versions)
    <2>1. PICK s : s = SubSeq(part, 1, n)
      OBVIOUS
    <2>2. s \in Seq(Versions) /\ left = <<s, s>>
      BY <1>3, <1>6, <2>1
    <2>3. left[1] = s /\ left[2] = s
      BY <2>2
    <2>4. QED
      BY <2>2, <2>3
  <1>7. QED
    BY <1>4, <1>5, <1>6

\* Whatever the start finds, the reconciliation believes only the expected bytes.
LEMMA ReconcileKeeps ==
    ASSUME DownloadAssumption, Typed, NEW found \in Seq(Versions), NEW synced \in Seq(Versions),
           ReconcileDownloads(found, synced), inst' = "idle", FetchTyped'
    PROVE  DownloadInv'
  <1>1. CASE ~cp.known
    <2>1. part' = found /\ disk' = synced /\ cp' = cp /\ ~cp.verified
      BY <1>1 DEF ReconcileDownloads, Typed
    <2>2. QED
      BY <2>1 DEF DownloadInv, Typed, CheckpointTyped, Whole, Started
  <1>2. CASE cp.known
    <2> PICK n : n = Min({cp.bytes, Len(found)})
      OBVIOUS
    <2>1. /\ part' = SubSeq(found, 1, n)
          /\ disk' = IF Len(found) > n THEN part' ELSE synced
          /\ cp' = [cp EXCEPT !.bytes = n, !.verified = cp.verified /\ n = Size /\ found = Expected]
      BY <1>2 DEF ReconcileDownloads
    <2>2. /\ n \in Nat /\ part' \in Seq(Versions)
          /\ found = Expected /\ n = Size => part' = found
      BY <1>2, <2>1, Cut
    <2>3. disk' \in Seq(Versions)
      BY <2>1, <2>2
    <2>4. /\ CheckpointTyped'
          /\ cp'.known /\ cp'.bytes = n /\ (cp'.verified => n = Size /\ found = Expected)
      BY <1>2, <2>1, <2>2 DEF Typed, CheckpointTyped
    <2>5. Whole'
      BY <2>2, <2>4 DEF Whole, HashMatches, Expected, Fetching
    <2>6. QED
      BY <2>2, <2>3, <2>4, <2>5 DEF DownloadInv, Typed, Started
  <1>3. QED
    BY <1>1, <1>2

\* After a crash the checkpoint is what it was, and nothing is under way.
LEMMA CrashKeeps == ASSUME DownloadAssumption, Typed, DownloadCrash PROVE Typed' /\ Started'
  <1>1. PICK left \in Leftovers : part' = left[1] /\ disk' = left[2]
    BY DEF DownloadCrash
  <1>2. inst' = "idle" /\ fetch' = NoFetch /\ cp' = cp
    BY DEF DownloadCrash, EndOperation
  <1>3. FetchTyped'
    BY <1>2, NoFetchTyped
  <1>4. part' \in Seq(Versions) /\ disk' \in Seq(Versions)
    BY <1>1, LeftoversTyped
  <1>5. QED
    BY <1>2, <1>3, <1>4 DEF Typed, CheckpointTyped, Started

LEMMA RespondKeeps ==
    ASSUME DownloadAssumption, DownloadInv, NEW v \in Versions, NEW tag \in Tags, NEW partial \in BOOLEAN,
           Respond(v, tag, partial)
    PROVE  DownloadInv'
  <1>1. ~cp.verified /\ cp' = cp
    BY DEF Respond, DownloadInv, Whole, Fetching
  <1>2. CASE partial /\ fetch.tag # NoTag /\ fetch.tag # tag
    BY <1>1, <1>2 DEF Respond, DownloadInv, Typed, CheckpointTyped, FetchTyped, Whole, Started
  <1>3. CASE ~(partial /\ fetch.tag # NoTag /\ fetch.tag # tag)
    <2>1. /\ fetch' = [fetch EXCEPT !.ver = v, !.tag = tag]
          /\ part' = SubSeq(part, 1, IF partial THEN fetch.start ELSE 0)
          /\ inst' = "stream" /\ disk' = disk
      BY <1>3 DEF Respond
    <2>2. part' \in Seq(Versions)
      <3>1. part \in Seq(Versions) /\ Len(part) \in Nat
        BY DEF DownloadInv, Typed
      <3>2. fetch.start \in Nat /\ fetch.start <= Len(part)
        BY DEF Respond, DownloadInv, Typed, FetchTyped, Started
      <3>3. PICK n \in Nat : n <= Len(part) /\ part' = SubSeq(part, 1, n)
        BY <2>1, <3>1, <3>2
      <3>4. QED
        BY <3>1, <3>3, CutPrefix
    <2>3. QED
      BY <1>1, <2>1, <2>2 DEF DownloadInv, Typed, CheckpointTyped, FetchTyped, Whole, Started
  <1>4. QED
    BY <1>2, <1>3

LEMMA StreamKeeps ==
    ASSUME DownloadAssumption, DownloadInv, Receive \/ Checkpoint \/ StreamEnds \/ BodyComplete
    PROVE  DownloadInv'
  <1>1. ~cp.verified /\ Len(part) \in Nat
    <2>1. inst = "stream"
      BY DEF Receive, Checkpoint, StreamEnds, BodyComplete
    <2>2. QED
      BY <2>1 DEF DownloadInv, Whole, Typed, Fetching
  <1>2. CASE Receive
    <2>1. part' = Append(part, fetch.ver) /\ UNCHANGED <<cp, disk, fetch, inst>> /\ inst = "stream"
      BY <1>2 DEF Receive
    <2>2. part' \in Seq(Versions)
      BY <2>1 DEF DownloadInv, Typed, FetchTyped
    <2>3. QED
      BY <1>1, <2>1, <2>2 DEF DownloadInv, Typed, CheckpointTyped, FetchTyped, Whole, Started
  <1>3. CASE Checkpoint
    BY <1>1, <1>3 DEF Checkpoint, SaveProgress, DownloadInv, Typed, CheckpointTyped, FetchTyped, Whole,
           Started
  <1>4. CASE StreamEnds
    <2>1. /\ disk' = part /\ part' = part /\ SaveProgress(Len(part), fetch.tag)
          /\ inst' \in {"choose", "idle"}
          /\ FetchTyped'
      BY <1>4, FailureKeeps DEF StreamEnds, DownloadInv, Typed
    <2>2. QED
      BY <1>1, <2>1 DEF SaveProgress, DownloadInv, Typed, CheckpointTyped, FetchTyped, Whole, Started
  <1>5. CASE BodyComplete
    <2>1. CASE HashMatches
      <3>1. disk' = part /\ part' = part /\ SaveVerified /\ inst' = "fetched" /\ fetch' = fetch
        BY <1>5, <2>1 DEF BodyComplete
      <3>2. HashMatches'
        BY <2>1, <3>1 DEF HashMatches, Expected
      <3>3. QED
        BY <3>1, <3>2
           DEF SaveVerified, DownloadInv, Typed, CheckpointTyped, FetchTyped, Whole, Started, Tags, Fetching, DownloadAssumption
    <2>2. CASE ~HashMatches
      <3>1. /\ disk' = part /\ part' = part /\ SaveProgress(Size, fetch.tag)
            /\ inst' \in {"choose", "idle"}
            /\ FetchTyped'
        BY <1>5, <2>2, FailureKeeps DEF BodyComplete, DownloadInv, Typed
      <3>2. QED
        BY <3>1 DEF SaveProgress, DownloadInv, Typed, CheckpointTyped, FetchTyped, Whole, Started, DownloadAssumption
    <2>3. QED
      BY <2>1, <2>2
  <1>6. QED
    BY <1>2, <1>3, <1>4, <1>5

\* The other steps leave the part and what is verified of it alone, but for the new
\* row of a download that starts from nothing.
LEMMA OtherKeeps ==
    ASSUME DownloadAssumption, DownloadInv,
           \/ Install \/ BeginDownload \/ DownloadExisting \/ Downloaded \/ CancelBeforeInstall
           \/ RequestCancel \/ InstallOutcome \/ StorageFails \/ RecordFails
           \/ \E network \in BOOLEAN : RequestFails(network)
    PROVE  DownloadInv'
  <1> USE DEF DownloadInv, Typed, CheckpointTyped, Whole, HashMatches, Expected, Fetching, Started
  <1>1. CASE BeginDownload /\ dl \in Busy
    <2>1. fetch' = NoFetch /\ inst' = "idle" /\ inst = "choose" /\ UNCHANGED <<cp, part, disk>>
      BY <1>1 DEF BeginDownload, EndOperation
    <2>2. QED
      BY <2>1, NoFetchTyped
  <1>2. CASE BeginDownload /\ dl \notin Busy
    <2>1. /\ cp' = NoCheckpoint /\ part' = <<>> /\ disk' = <<>> /\ fetch' = fetch
          /\ inst' = "queued"
      BY <1>2 DEF BeginDownload
    <2>2. CheckpointTyped' /\ cp'.verified = FALSE
      BY <2>1 DEF NoCheckpoint, Tags
    <2>3. part' \in Seq(Versions) /\ disk' \in Seq(Versions)
      BY <2>1
    <2>4. QED
      BY <2>1, <2>2, <2>3 DEF FetchTyped
  <1>3. CASE \E network \in BOOLEAN : RequestFails(network)
    <2>1. /\ inst' \in {"choose", "idle"} /\ FetchTyped' /\ inst = "request"
          /\ UNCHANGED <<cp, part, disk>>
      BY <1>3, FailureKeeps DEF RequestFails
    <2>2. QED
      BY <2>1
  <1>4. CASE Install \/ RequestCancel
    BY <1>4 DEF Install, RequestCancel, FetchTyped
  <1>5. CASE DownloadExisting
    <2>1. /\ fetch' = [NoFetch EXCEPT !.resumed = inst = "choose"] /\ inst' = "open"
          /\ inst \in {"queued", "choose"} /\ UNCHANGED <<cp, part, disk>>
      BY <1>5 DEF DownloadExisting
    <2>2. FetchTyped'
      BY <2>1 DEF FetchTyped, NoFetch, Tags, DownloadAssumption
    <2>3. QED
      BY <2>1, <2>2
  <1>6. CASE Downloaded
    <2>1. /\ fetch' = NoFetch /\ inst = "fetched" /\ inst' \in {"install", "verifying"}
          /\ UNCHANGED <<cp, part, disk>>
      BY <1>6 DEF Downloaded
    <2>2. QED
      BY <2>1, NoFetchTyped
  <1>7. CASE CancelBeforeInstall \/ InstallOutcome
    <2>1. /\ inst \in {"verifying", "install"} /\ inst' \in {"idle", "install"}
          /\ UNCHANGED <<cp, part, disk>> /\ fetch' \in {fetch, NoFetch}
      BY <1>7 DEF CancelBeforeInstall, InstallOutcome, EndOperation
    <2>2. FetchTyped'
      BY <2>1, NoFetchTyped DEF FetchTyped
    <2>3. QED
      BY <2>1, <2>2
  <1>8. CASE StorageFails \/ RecordFails
    <2>1. /\ inst' \in {"choose", "idle"} /\ UNCHANGED <<cp, part>> /\ disk' \in {disk, part}
          /\ FetchTyped'
      BY <1>8, FailureKeeps, NoFetchTyped DEF StorageFails, RecordFails, EndOperation
    <2>2. QED
      BY <2>1
  <1>9. QED
    BY <1>1, <1>2, <1>3, <1>4, <1>5, <1>6, <1>7, <1>8

-----------------------------------------------------------------------------
\* The invariant holds of every behaviour, for any artifact, server and bound.
THEOREM DownloadInvariance == DSpec => []DownloadInv
  <1>1. DInit => DownloadInv
    BY DownloadAssumption DEF DInit, DownloadInv, Typed, CheckpointTyped, FetchTyped, Whole, Started,
       NoCheckpoint, NoFetch, Tags, DownloadAssumption
  <1>2. DownloadInv /\ [DNext]_dvars => DownloadInv'
    <2> SUFFICES ASSUME DownloadInv, [DNext]_dvars PROVE DownloadInv'
      OBVIOUS
    <2> USE DownloadAssumption
    <2>1. CASE Install \/ InstallOutcome \/ RequestCancel \/ StorageFails \/ RecordFails
      BY <2>1, OtherKeeps
    <2>2. CASE Fetch
      BY <2>2, OtherKeeps, OpenKeeps, RespondKeeps, StreamKeeps DEF Fetch
    <2>3. CASE Restart
      <3>1. PICK left \in Leftovers : ReconcileDownloads(left[1], left[2])
        BY <2>3 DEF Restart
      <3>2. inst' = "idle" /\ FetchTyped' /\ Typed
        BY <2>3, NoFetchTyped DEF Restart, EndOperation, DownloadInv
      <3>3. left[1] \in Seq(Versions) /\ left[2] \in Seq(Versions)
        BY <3>2, LeftoversTyped
      <3>4. QED
        BY <3>1, <3>2, <3>3, ReconcileKeeps
    <2>4. CASE UNCHANGED dvars
      BY <2>4 DEF dvars, DownloadInv, Typed, CheckpointTyped, FetchTyped, Whole, HashMatches, Expected, Started
    <2>5. QED
      BY <2>1, <2>2, <2>3, <2>4 DEF DNext
  <1>3. QED
    BY <1>1, <1>2, PTL DEF DSpec

\* A verified checkpoint stands for a whole part with the expected hash: resumed and
\* restarted responses, retries, crashes and power losses included (download_artifact,
\* reconcile_downloads_anchored).
THEOREM VerifiedAlwaysWhole == DSpec => []VerifiedIsWhole
  <1>1. DownloadInv => VerifiedIsWhole
    BY DEF DownloadInv, Whole, VerifiedIsWhole
  <1>2. QED
    BY <1>1, DownloadInvariance, PTL

-----------------------------------------------------------------------------
(* The store: what its actors may rely on.                                 *)

\* The startup has brought the downloads to rest.
Rested == {"staging", "installs", "moved", "reject", "unrecorded", "up"}

\* Nothing but the startup runs before the program is up, and no row is busy when it
\* comes up.  Then a row without an operation that has begun its download is busy only
\* when the one fault hit the call that should have said what became of it.
Quiet ==
    /\ phase # "up" => inst = "idle" /\ ~Reserved /\ \A u \in Users : user[u] = "free"
    /\ phase \in Rested \ {"up"} => dl \notin Busy
    /\ phase = "up" /\ inst \in {"idle", "choose"} => dl \notin Busy \/ faulted = "record"

\* Before the startup has hashed the parts again, a verified checkpoint may have lost
\* its part with the power.
Stored == Typed /\ Started /\ (phase \in Rested => Whole)

\* The fields of the records, and that an absent row is all empty.
Shapes ==
    /\ row = [state |-> row.state, at |-> row.at]
    /\ row.state = "absent" => row = NoRow
    /\ dir = [present |-> dir.present, whole |-> dir.whole, tmp |-> dir.tmp, mark |-> dir.mark]
    /\ del = [pc |-> del.pc, lease |-> del.lease, own |-> del.own, whole |-> del.whole]
    /\ dir.present \in BOOLEAN /\ dir.whole \in BOOLEAN /\ del.whole \in BOOLEAN
    /\ user \in [Users -> {"free", "counted", "read", "held"}]

\* Steps of a deletion at which a fault leaves the tree in trash.
Trashed == {"move", "finish"}

\* A deletion that cannot put the tree back, because a new bundle has taken its
\* place, leaves the row to the publication of that bundle, which cannot fail as
\* well: the one fault was the deletion's.
Undoing ==
    /\ del.pc \in {"check", "tmp", "mark", "move"} => del.own = {}
    /\ del.pc = "purge" => ~Deleting
    /\ del.pc = "restore" /\ del.own # {} /\ Deleting => faulted \in Trashed
    /\ del.pc \in Trashed \cup {"restore"} /\ del.own # {} /\ dir.present /\ Deleting =>
         inst = "publish" \/ faulted = "install"
    /\ phase = "up" /\ ~Reserved /\ Deleting =>
         faulted \in {"check", "abort"} \/ (inst = "publish" /\ faulted \in Trashed)

\* What a user of the bundle may rely on, and what the install may still do to it.
Held ==
    \A u \in Users :
        /\ user[u] # "free" => ~Reserved
        /\ user[u] \in {"read", "held"} => ~Deleting
        /\ user[u] = "held" =>
            \/ dir.present /\ dir.whole
            \/ inst = "missing" \/ faulted = "install"
            \/ ~Qualified /\ inst \notin {"publish", "whole"}

\* What the steps of the startup have settled.
Starting ==
    /\ phase \in {"downloads", "staging", "reject", "unrecorded"} => trash = {}
    /\ phase = "installs" => trash = purging
    /\ phase = "moved" => trash = {{row.at}}
    /\ phase \in {"installs", "moved", "reject", "unrecorded"} => ~staged
    /\ phase \in {"reject", "unrecorded"} => ~Deleting
    /\ phase = "reject" => ~Qualified
    /\ phase = "unrecorded" /\ Qualified => dir.present

StoreInv == Stored /\ Quiet /\ Shapes /\ Undoing /\ Held /\ Starting

-----------------------------------------------------------------------------
(* What groups of steps leave alone.                                       *)

Fetches == {"choose", "queued", "open", "request", "stream", "fetched", "verifying"}

\* The download hands over to the install, or ends with a row that is not busy, unless
\* the row was busy before and the operation is refused.
LEMMA FetchMoves ==
    ASSUME Fetch
    PROVE  /\ inst \in Fetches
           /\ inst' \in Fetches \cup {"idle", "install"}
           /\ inst' \in {"idle", "choose"} => dl' \notin Busy \/ (inst = "choose" /\ dl' = dl)
  <1> USE DEF Fetches, Busy
  <1>1. CASE BeginDownload
    BY <1>1 DEF BeginDownload, EndOperation
  <1>2. CASE DownloadExisting \/ OpenPart \/ Receive \/ Checkpoint \/ Downloaded
    BY <1>2 DEF DownloadExisting, OpenPart, Opened, Receive, Checkpoint, Downloaded
  <1>3. ASSUME NEW network, DownloadFails(network)
        PROVE  inst' \in {"choose", "idle"} /\ dl' \notin Busy
    BY <1>3 DEF DownloadFails, FailedRow, EndOperation
  <1>4. CASE \E network \in BOOLEAN : RequestFails(network)
    BY <1>3, <1>4 DEF RequestFails
  <1>5. CASE \E v \in Versions, tag \in Tags, partial \in BOOLEAN : Respond(v, tag, partial)
    BY <1>5 DEF Respond
  <1>6. CASE StreamEnds
    BY <1>3, <1>6 DEF StreamEnds
  <1>7. CASE BodyComplete
    BY <1>3, <1>7 DEF BodyComplete
  <1>8. CASE CancelBeforeInstall
    BY <1>8 DEF CancelBeforeInstall, EndOperation
  <1>9. QED
    BY <1>1, <1>2, <1>4, <1>5, <1>6, <1>7, <1>8 DEF Fetch

\* A failing call of the download ends it; only what records the row leaves it busy.
LEMMA FaultMoves ==
    ASSUME DownloadingFails
    PROVE  /\ phase = "up" /\ inst \in Fetches /\ inst' = "idle"
           /\ dl' \notin Busy \/ faulted' = "record"
           /\ faulted = "no" /\ faulted' \in {"part", "record"}
           /\ UNCHANGED <<store, del, user, phase, purging>>
  <1> USE DEF DownloadingFails, InstallVars, FaultAt, Fetches, EndOperation
  <1>1. CASE StorageFails /\ FaultAt("part")
    <2>1. inst' = "idle" /\ dl' \notin Busy
      BY <1>1 DEF StorageFails, DownloadFails, FailedRow, Busy
    <2>2. QED
      BY <1>1, <2>1 DEF StorageFails
  <1>2. CASE RecordFails /\ FaultAt("record")
    BY <1>2 DEF RecordFails
  <1>3. QED
    BY <1>1, <1>2

\* The steps of the install after the download.
Completes ==
    \/ BeginInstall \/ PreflightFails \/ Assemble \/ AssembleFails \/ PublishBundle
    \/ PublishRow \/ Succeed
    \/ RecoverLook \/ RecoverQuarantine \/ RecoverRejects \/ RecoverPublish \/ RecoverSucceeds

Completing == {"install", "assemble", "rename", "publish", "succeed", "recover", "missing",
               "broken", "whole", "recovered"}

LEMMA CompleteMoves ==
    ASSUME Completes
    PROVE  /\ phase = "up" /\ inst \in Completing
           /\ inst' \in Completing \cup {"idle"} /\ inst' # "install"
           /\ inst' = "idle" => dl' \notin Busy \/ faulted' = "record"
           /\ UNCHANGED <<trash, del, user, phase, purging, cp, part, disk>>
           /\ fetch' \in {fetch, NoFetch}
  <1> USE DEF Completing, Busy, Thread, InstallStep, EndInstall, EndOperation, KeepParts,
              Conclude, FaultAt, InstallVars, svars, store
  <1>1. CASE BeginInstall \/ PreflightFails \/ Assemble \/ AssembleFails
    BY <1>1 DEF BeginInstall, PreflightFails, Assemble, AssembleFails
  <1>2. CASE PublishBundle \/ PublishRow \/ Succeed
    BY <1>2 DEF PublishBundle, PublishRow, Succeed
  <1>3. CASE RecoverLook \/ RecoverQuarantine
    BY <1>3 DEF RecoverLook, RecoverQuarantine
  <1>4. CASE RecoverRejects \/ RecoverPublish \/ RecoverSucceeds
    BY <1>4 DEF RecoverRejects, RecoverPublish, RecoverSucceeds
  <1>5. QED
    BY <1>1, <1>2, <1>3, <1>4 DEF Completes

\* A deletion only runs while the program is up, and leaves the install alone.
LEMMA DeleteMoves ==
    ASSUME DeleteNext
    PROVE  phase = "up" /\ UNCHANGED <<dvars, staged, user, phase, purging>>
  <1> USE DEF Delete, DeleteVars
  <1>1. CASE BeginDelete \/ DeleteCheck \/ WriteMarker \/ PlaceMarker \/ MoveToTrash
    BY <1>1 DEF BeginDelete, DeleteCheck, WriteMarker, PlaceMarker, MoveToTrash
  <1>2. CASE FinishDelete \/ Purge \/ Restore \/ CleanMarkers \/ Abort
    BY <1>2 DEF FinishDelete, Purge, Restore, CleanMarkers, Abort
  <1>3. QED
    BY <1>1, <1>2 DEF DeleteNext

\* A deletion adds its own fault only to a run without one.
LEMMA DeleteFaults == ASSUME DeleteNext PROVE faulted' = faulted \/ faulted = "no"
  <1> USE DEF DeleteFault, FaultAt, NoFault
  <1>1. CASE BeginDelete \/ DeleteCheck \/ WriteMarker \/ PlaceMarker \/ MoveToTrash
    BY <1>1 DEF BeginDelete, DeleteCheck, WriteMarker, PlaceMarker, MoveToTrash
  <1>2. CASE FinishDelete \/ Purge \/ Restore \/ CleanMarkers \/ Abort
    BY <1>2 DEF FinishDelete, Purge, Restore, CleanMarkers, Abort
  <1>3. QED
    BY <1>1, <1>2 DEF DeleteNext

LEMMA UserMoves ==
    ASSUME UserNext
    PROVE  phase = "up" /\ UNCHANGED <<dvars, store, del, phase, purging, faulted>>
  BY DEF UserNext, AcquireLease, ReadRow, CaptureBundle, DropLease, UserStep

\* The startup has the store to itself.
LEMMA StartMoves ==
    ASSUME StartNext
    PROVE  /\ phase # "up" /\ UNCHANGED <<inst, del, user>>
           /\ phase' = "up" => phase = "unrecorded"
           /\ phase' \in Rested \ {"staging"} => phase \in Rested
           /\ phase' \in Rested => dl' = dl \/ dl' \notin Busy
           /\ phase' \in Rested => phase \in Rested \/ dl' \notin Busy
  <1> USE DEF Startup, StartVars, Rested, store
  <1>1. CASE Start \/ ReconcileTrash \/ RemoveTrash
    BY <1>1 DEF Start, ReconcileTrash, RemoveTrash, dvars
  <1>2. CASE StartDownloads
    BY <1>2 DEF StartDownloads, ReconcileDownloads, Busy
  <1>3. CASE ClearStaging \/ ReconcileDeleting \/ CompleteDeletion
    BY <1>3 DEF ClearStaging, ReconcileDeleting, CompleteDeletion, dvars
  <1>4. CASE ReconcileRow \/ Quarantine \/ ReconcileUnrecorded
    BY <1>4 DEF ReconcileRow, Quarantine, ReconcileUnrecorded, dvars
  <1>5. QED
    BY <1>1, <1>2, <1>3, <1>4 DEF StartNext

-----------------------------------------------------------------------------
(* Every step keeps each part of the invariant.                            *)

\* The steps of Next, grouped by who takes them.
LEMMA StepsOfStore ==
    ASSUME [Next]_vars
    PROVE  \/ Ensure \/ Downloading \/ DownloadingFails \/ Completes \/ DeleteNext \/ UserNext \/ StartNext
           \/ Crash \/ Damage \/ UNCHANGED vars
  BY DEF Next, InstallNext, Completes

LEMMA QuietStep ==
    ASSUME Quiet, [Next]_vars
    PROVE  Quiet'
  <1> USE DEF Quiet, Reserved
  <1>1. CASE Ensure
    BY <1>1 DEF Ensure, Install, svars
  <1>2. CASE Downloading
    <2>1. phase = "up" /\ UNCHANGED <<phase, del, user, faulted>>
      BY <1>2 DEF Downloading, svars
    <2>2. CASE Fetch
      BY <2>1, <2>2, FetchMoves
    <2>3. CASE RequestCancel
      BY <2>1, <2>3 DEF RequestCancel
    <2>4. QED
      BY <1>2, <2>2, <2>3 DEF Downloading
  <1>3. CASE Completes
    BY <1>3, CompleteMoves DEF Completing
  <1>4. CASE DeleteNext
    BY <1>4, DeleteMoves, DeleteFaults DEF dvars
  <1>5. CASE UserNext
    BY <1>5, UserMoves DEF dvars
  <1>6. CASE StartNext
    BY <1>6, StartMoves DEF Rested
  <1>7. CASE Crash
    BY <1>7 DEF Crash, DownloadCrash, EndOperation, NoDeletion, Rested
  <1>8. CASE Damage \/ UNCHANGED vars
    BY <1>8 DEF Damage, dvars, svars, vars
  <1>9. CASE DownloadingFails
    BY <1>9, FaultMoves
  <1>10. QED
    BY <1>1, <1>2, <1>3, <1>4, <1>5, <1>6, <1>7, <1>8, <1>9, StepsOfStore

LEMMA StoredStep ==
    ASSUME DownloadAssumption, Stored, Quiet, [Next]_vars
    PROVE  Stored'
  <1> USE DownloadAssumption
  <1>0. phase = "up" => DownloadInv
    BY DEF Stored, DownloadInv, Rested
  <1>1. CASE Ensure \/ Downloading \/ DownloadingFails
    <2>1. DownloadInv
      BY <1>0, <1>1 DEF Ensure, Downloading, DownloadingFails
    <2>2. DownloadInv'
      BY <1>1, <2>1, OtherKeeps, OpenKeeps, RespondKeeps, StreamKeeps
        DEF Ensure, Downloading, DownloadingFails, Fetch
    <2>3. QED
      BY <2>2 DEF Stored, DownloadInv
  <1>2. CASE Completes
    <2>1. /\ inst \notin {"request", "stream"} /\ inst' \notin {"request", "stream"}
          /\ UNCHANGED <<cp, part, disk, phase>> /\ fetch' \in {fetch, NoFetch}
      BY <1>2, CompleteMoves DEF Completing
    <2>2. FetchTyped'
      BY <2>1, NoFetchTyped DEF FetchTyped, Stored, Typed
    <2>3. QED
      BY <2>1, <2>2 DEF Stored, Typed, CheckpointTyped, Whole, HashMatches, Expected, Started,
        Fetching
  <1>3. CASE StartDownloads
    <2>1. inst' = "idle" /\ FetchTyped' /\ Typed /\ ReconcileDownloads(part, disk)
      BY <1>3 DEF StartDownloads, Startup, Quiet, Stored, Typed, FetchTyped
    <2>2. part \in Seq(Versions) /\ disk \in Seq(Versions)
      BY <2>1 DEF Typed
    <2>3. DownloadInv'
      BY <2>1, <2>2, ReconcileKeeps
    <2>4. QED
      BY <2>3 DEF Stored, DownloadInv
  <1>4. CASE Crash
    BY <1>4, CrashKeeps DEF Crash, Stored, Rested
  <1>5. CASE UNCHANGED dvars /\ (phase' \in Rested => phase \in Rested)
    BY <1>5 DEF dvars, Stored, Typed, CheckpointTyped, FetchTyped, Whole, HashMatches, Expected,
      Started
  <1>6. StartNext => StartDownloads \/ (UNCHANGED dvars /\ (phase' \in Rested => phase \in Rested))
    BY DEF StartNext, Start, ReconcileTrash, RemoveTrash, ClearStaging, ReconcileDeleting,
      CompleteDeletion, ReconcileRow, Quarantine, ReconcileUnrecorded, Startup, Rested
  <1>7. QED
    BY <1>1, <1>2, <1>3, <1>4, <1>5, <1>6, StepsOfStore, DeleteMoves, UserMoves
      DEF Damage, vars, svars

\* What a step may write into the row: a whole record.
LEMMA RowShapes ==
    ASSUME NEW r, r \in {NoRow} \/ (\E at : r = Installed(at))
    PROVE  /\ r = [state |-> r.state, at |-> r.at]
           /\ r.state # "deleting"
           /\ r.state = "absent" => r = NoRow
  BY DEF NoRow, Installed

RowShape == row = [state |-> row.state, at |-> row.at] /\ (row.state = "absent" => row = NoRow)

\* The statements of the catalog write whole rows, and only begin_delete makes one deleting.
LEMMA Statements ==
    ASSUME RowShape,
           \/ PublishInstallation \/ RecordRecovery \/ row' = NoRow \/ UNCHANGED row
           \/ \E lease : AbortDelete(lease)
    PROVE  RowShape' /\ (Deleting' => Deleting /\ UNCHANGED row)
  <1>1. UNCHANGED row \/ row' = NoRow \/ \E at : row' = Installed(at)
    BY DEF PublishInstallation, RecordRecovery, AbortDelete
  <1>2. CASE UNCHANGED row
    BY <1>2 DEF RowShape, Deleting
  <1>3. CASE ~UNCHANGED row
    BY <1>1, <1>3, RowShapes DEF RowShape, Deleting
  <1>4. QED
    BY <1>2, <1>3

\* Every step but begin_delete uses one of these statements.
LEMMA RowSteps ==
    ASSUME [Next]_vars, ~BeginDelete
    PROVE  \/ PublishInstallation \/ RecordRecovery \/ row' = NoRow \/ UNCHANGED row
           \/ \E lease : AbortDelete(lease)
  <1> USE DEF svars, store
  <1>1. CASE Ensure \/ Downloading \/ DownloadingFails
    BY <1>1, FaultMoves DEF Ensure, Downloading
  <1>2. CASE BeginInstall \/ PreflightFails \/ Assemble \/ AssembleFails \/ PublishBundle
             \/ PublishRow \/ Succeed
    BY <1>2 DEF BeginInstall, PreflightFails, Assemble, AssembleFails, PublishBundle, PublishRow,
      Succeed
  <1>3. CASE RecoverLook \/ RecoverQuarantine \/ RecoverRejects \/ RecoverPublish \/ RecoverSucceeds
    BY <1>3 DEF RecoverLook, RecoverQuarantine, RecoverRejects, RecoverPublish, RecoverSucceeds
  <1>4. CASE DeleteNext
    BY <1>4 DEF DeleteNext, DeleteCheck, WriteMarker, PlaceMarker, MoveToTrash, FinishDelete,
      Purge, Restore, CleanMarkers, Abort
  <1>5. CASE UserNext
    BY <1>5, UserMoves
  <1>6. CASE StartNext
    BY <1>6 DEF StartNext, Start, ReconcileTrash, RemoveTrash, StartDownloads, ClearStaging,
      ReconcileDeleting, CompleteDeletion, ReconcileRow, Quarantine, ReconcileUnrecorded
  <1>7. CASE Crash \/ Damage \/ UNCHANGED vars
    BY <1>7 DEF Crash, Damage, vars
  <1>8. QED
    BY <1>1, <1>2, <1>3, <1>4, <1>5, <1>6, <1>7, StepsOfStore DEF Completes

\* What the bundle becomes: it is published, taken away, put back, marked or damaged.
DirShape ==
    /\ dir = [present |-> dir.present, whole |-> dir.whole, tmp |-> dir.tmp, mark |-> dir.mark]
    /\ dir.present \in BOOLEAN /\ dir.whole \in BOOLEAN

DirSteps ==
    \/ UNCHANGED dir
    \/ dir' = Bundle \/ dir' = NoDir
    \/ \E tmp, mark : dir' = [dir EXCEPT !.tmp = tmp, !.mark = mark]
    \/ \E whole \in BOOLEAN : \E mark : dir' = [Bundle EXCEPT !.whole = whole, !.mark = mark]
    \/ dir' = [dir EXCEPT !.whole = FALSE]

LEMMA DirKept == ASSUME DirShape, DirSteps PROVE DirShape'
  <1>1. \E p \in BOOLEAN, w \in BOOLEAN : \E tmp, mark :
           dir' = [present |-> p, whole |-> w, tmp |-> tmp, mark |-> mark]
    <2>1. CASE UNCHANGED dir
      BY <2>1 DEF DirShape
    <2>2. CASE dir' = Bundle \/ dir' = NoDir
      BY <2>2 DEF Bundle, NoDir
    <2>3. CASE \E tmp, mark : dir' = [dir EXCEPT !.tmp = tmp, !.mark = mark]
      BY <2>3 DEF DirShape
    <2>4. CASE \E whole \in BOOLEAN : \E mark : dir' = [Bundle EXCEPT !.whole = whole, !.mark = mark]
      BY <2>4 DEF Bundle
    <2>5. CASE dir' = [dir EXCEPT !.whole = FALSE]
      BY <2>5 DEF DirShape
    <2>6. QED
      BY <2>1, <2>2, <2>3, <2>4, <2>5 DEF DirSteps
  <1>2. QED
    BY <1>1 DEF DirShape

DelShape ==
    /\ del = [pc |-> del.pc, lease |-> del.lease, own |-> del.own, whole |-> del.whole]
    /\ del.whole \in BOOLEAN

DelSteps ==
    \/ del' = NoDeletion
    \/ \E p : del' = [del EXCEPT !.pc = p]
    \/ \E own : del' = [del EXCEPT !.own = own]
    \/ \E p, own : del' = [del EXCEPT !.pc = p, !.own = own, !.whole = dir.whole]

LEMMA DelKept == ASSUME DelShape, DirShape, DelSteps PROVE DelShape'
  <1>1. \E w \in BOOLEAN : \E p, lease, own :
           del' = [pc |-> p, lease |-> lease, own |-> own, whole |-> w]
    <2>1. CASE del' = NoDeletion
      BY <2>1 DEF NoDeletion
    <2>2. CASE \E p : del' = [del EXCEPT !.pc = p]
      BY <2>2 DEF DelShape
    <2>3. CASE \E own : del' = [del EXCEPT !.own = own]
      BY <2>3 DEF DelShape
    <2>4. CASE \E p, own : del' = [del EXCEPT !.pc = p, !.own = own, !.whole = dir.whole]
      BY <2>4 DEF DelShape, DirShape
    <2>5. QED
      BY <2>1, <2>2, <2>3, <2>4 DEF DelSteps
  <1>2. QED
    BY <1>1 DEF DelShape

LEMMA ShapesStep ==
    ASSUME Shapes, [Next]_vars
    PROVE  Shapes'
  <1>0. RowShape /\ DirShape /\ DelShape
    BY DEF Shapes, RowShape, DirShape, DelShape
  <1>1. RowShape'
    <2>1. CASE BeginDelete
      BY <2>1, <1>0 DEF BeginDelete, RowShape
    <2>2. CASE ~BeginDelete
      BY <2>2, <1>0, RowSteps, Statements
    <2>3. QED
      BY <2>1, <2>2
  <1>2. DirShape'
    <2>1. ASSUME NEW tmp, dir' = [dir EXCEPT !.tmp = tmp] PROVE DirShape'
      BY <2>1, <1>0 DEF DirShape
    <2>2. CASE WriteMarker \/ PlaceMarker \/ CleanMarkers \/ ReconcileDeleting
      BY <2>1, <2>2, <1>0, DirKept DEF WriteMarker, PlaceMarker, CleanMarkers, ReconcileDeleting, DirSteps
    <2>3. CASE MoveToTrash \/ Restore
      BY <2>3, <1>0, DirKept DEF MoveToTrash, Restore, DirSteps, DelShape
    <2>4. CASE PublishBundle \/ RecoverQuarantine \/ Quarantine \/ ReconcileUnrecorded \/ Damage
      BY <2>4, <1>0, DirKept DEF PublishBundle, RecoverQuarantine, Quarantine, ReconcileUnrecorded,
        Damage, DirSteps
    <2>5. CASE UNCHANGED dir
      BY <2>5, <1>0 DEF DirShape
    <2>6. QED
      <3>1. Ensure \/ Downloading \/ DownloadingFails \/ Crash \/ UNCHANGED vars => UNCHANGED dir
        BY FaultMoves DEF Ensure, Downloading, Crash, vars, svars, store
      <3>2. Completes /\ ~PublishBundle /\ ~RecoverQuarantine => UNCHANGED dir
        BY DEF Completes, BeginInstall, PreflightFails, Assemble, AssembleFails, PublishRow, Succeed,
          RecoverLook, RecoverRejects, RecoverPublish, RecoverSucceeds, svars, store
      <3>3. DeleteNext => \/ UNCHANGED dir \/ WriteMarker \/ PlaceMarker \/ CleanMarkers
                          \/ MoveToTrash \/ Restore
        BY DEF DeleteNext, BeginDelete, DeleteCheck, FinishDelete, Purge, Abort
      <3>4. StartNext => \/ UNCHANGED dir \/ ReconcileDeleting \/ Quarantine \/ ReconcileUnrecorded
        BY DEF StartNext, Start, ReconcileTrash, RemoveTrash, StartDownloads, ClearStaging,
          CompleteDeletion, ReconcileRow, store
      <3>5. UserNext => UNCHANGED dir
        BY UserMoves DEF store
      <3>6. QED
        BY <2>2, <2>3, <2>4, <2>5, <3>1, <3>2, <3>3, <3>4, <3>5, StepsOfStore
  <1>3. DelShape'
    <2>1. CASE UNCHANGED del
      BY <2>1, <1>0 DEF DelShape
    <2>2. CASE BeginDelete
      BY <2>2 DEF BeginDelete, NoDeletion, DelShape
    <2>3. CASE DelSteps
      BY <2>3, <1>0, DelKept
    <2>4. DeleteNext => BeginDelete \/ DelSteps
      <3> USE DEF DelSteps, DeleteStep
      <3>1. CASE DeleteCheck \/ WriteMarker \/ PlaceMarker
        BY <3>1 DEF DeleteCheck, WriteMarker, PlaceMarker
      <3>2. CASE MoveToTrash
        BY <3>2 DEF MoveToTrash
      <3>3. CASE FinishDelete \/ Restore \/ CleanMarkers \/ Abort
        BY <3>3 DEF FinishDelete, Restore, CleanMarkers, Abort
      <3>4. CASE Purge
        BY <3>4 DEF Purge
      <3>5. QED
        BY <3>1, <3>2, <3>3, <3>4 DEF DeleteNext
    <2>5. Crash => DelSteps
      BY DEF Crash, DelSteps
    <2>6. QED
      BY <2>1, <2>2, <2>3, <2>4, <2>5, StepsOfStore, FaultMoves, CompleteMoves, UserMoves, StartMoves
        DEF Ensure, Downloading, svars, Damage, vars
  <1>4. user' \in [Users -> {"free", "counted", "read", "held"}]
    <2>1. user \in [Users -> {"free", "counted", "read", "held"}]
      BY DEF Shapes
    <2>2. CASE UserNext
      <3>1. PICK u \in Users, s \in {"free", "counted", "read", "held"} : user' = [user EXCEPT ![u] = s]
        BY <2>2 DEF UserNext, AcquireLease, ReadRow, CaptureBundle, DropLease, UserStep
      <3>2. QED
        BY <2>1, <3>1
    <2>3. CASE Crash
      BY <2>3 DEF Crash
    <2>4. CASE UNCHANGED user
      BY <2>1, <2>4
    <2>5. QED
      BY <2>2, <2>3, <2>4, StepsOfStore, FaultMoves, CompleteMoves, DeleteMoves, StartMoves
        DEF Ensure, Downloading, svars, Damage, vars
  <1>5. QED
    BY <1>1, <1>2, <1>3, <1>4 DEF Shapes, RowShape, DirShape, DelShape

\* A row is deleting only since begin_delete, until some statement changes it.
LEMMA DeletingIsOld ==
    ASSUME Shapes, [Next]_vars, ~BeginDelete, Deleting'
    PROVE  Deleting /\ UNCHANGED row
  <1>1. RowShape
    BY DEF Shapes, RowShape
  <1>2. QED
    BY <1>1, RowSteps, Statements

\* The steps of the install and the one fault of a run of the program.
LEMMA CompleteFaults ==
    ASSUME Completes
    PROVE  /\ faulted' = faulted \/ (faulted = "no" /\ faulted' \in {"install", "record"})
           /\ inst = "publish" => PublishInstallation \/ faulted' = "install"
           /\ dir'.present /\ dir' # dir => inst' = "publish"
           /\ inst' = "publish" => dir' = Bundle
  <1> USE DEF Fault, FaultAt, NoFault, svars, store, InstallVars, Thread, InstallStep,
              EndInstall, EndOperation, Conclude
  <1>1. CASE BeginInstall \/ PreflightFails \/ Assemble \/ AssembleFails
    BY <1>1 DEF BeginInstall, PreflightFails, Assemble, AssembleFails
  <1>2. CASE PublishBundle
    BY <1>2 DEF PublishBundle, Bundle
  <1>3. CASE PublishRow \/ Succeed
    BY <1>3 DEF PublishRow, Succeed
  <1>4. CASE RecoverLook \/ RecoverQuarantine
    BY <1>4 DEF RecoverLook, RecoverQuarantine, NoDir
  <1>5. CASE RecoverRejects \/ RecoverPublish \/ RecoverSucceeds
    BY <1>5 DEF RecoverRejects, RecoverPublish, RecoverSucceeds
  <1>6. QED
    BY <1>1, <1>2, <1>3, <1>4, <1>5 DEF Completes

\* The steps of a deletion.
LEMMA DeleteUndoes ==
    ASSUME Undoing, Shapes, Quiet, DeleteNext, [Next]_vars
    PROVE  Undoing'
  <1>0. /\ phase = "up" /\ UNCHANGED <<inst, phase>>
    BY DeleteMoves DEF dvars
  <1>1. del = [pc |-> del.pc, lease |-> del.lease, own |-> del.own, whole |-> del.whole]
    BY DEF Shapes
  <1>2. ~BeginDelete /\ Deleting' => Deleting
    BY DeletingIsOld
  <1> USE DEF Undoing, Trashed, Reserved
  <1>3. CASE BeginDelete
    BY <1>3, <1>0 DEF BeginDelete, NoDeletion
  <1>4. CASE DeleteCheck
    <2>1. CASE dir.present /\ DeleteStep("tmp") /\ NoFault /\ UNCHANGED row
      <3>1. del.pc = "check"
        BY <1>4 DEF DeleteCheck, Delete
      <3>2. del'.pc = "tmp" /\ del'.own = del.own
        BY <1>1, <2>1 DEF DeleteStep
      <3>3. QED
        BY <3>1, <3>2, <1>0
    <2>2. CASE ~dir.present /\ AbortDelete(del.lease) /\ del' = NoDeletion /\ NoFault
      BY <2>2, <1>0 DEF AbortDelete, NoDeletion, Deleting, Installed
    <2>3. CASE DeleteFault /\ del' = NoDeletion /\ UNCHANGED row
      BY <1>4, <2>3, <1>0 DEF DeleteFault, FaultAt, NoDeletion, DeleteCheck, Delete
    <2>4. QED
      BY <1>4, <2>1, <2>2, <2>3 DEF DeleteCheck
  <1>5. CASE WriteMarker \/ PlaceMarker
    <2>1. \E p \in {"mark", "move", "restore"} : DeleteStep(p)
      BY <1>5 DEF WriteMarker, PlaceMarker
    <2>2. /\ del'.pc \in {"mark", "move", "restore"} /\ del'.own = del.own
          /\ del.pc \in {"tmp", "mark"}
      BY <1>1, <1>5, <2>1 DEF DeleteStep, WriteMarker, PlaceMarker, Delete
    <2>3. QED
      BY <2>2, <1>0
  <1>6. CASE MoveToTrash
    <2>1. del.pc = "move" /\ del.own = {}
      BY <1>6 DEF MoveToTrash, Delete
    <2>2. CASE dir' = NoDir /\ del'.pc = "finish"
      BY <2>2, <1>0 DEF NoDir
    <2>3. CASE dir' = NoDir /\ del'.pc = "restore" /\ faulted' = "move"
      BY <2>3, <1>0 DEF NoDir
    <2>4. CASE DeleteStep("restore")
      <3>1. del'.pc = "restore" /\ del'.own = {}
        BY <1>1, <2>1, <2>4 DEF DeleteStep
      <3>2. QED
        BY <3>1, <1>0
    <2>5. QED
      BY <1>1, <1>6, <2>1, <2>2, <2>3, <2>4 DEF MoveToTrash, DeleteFault, FaultAt
  <1>7. CASE FinishDelete
    <2>1. CASE Deleting /\ row' = NoRow /\ DeleteStep("purge") /\ NoFault
      <3>1. del'.pc = "purge" /\ ~Deleting'
        BY <1>1, <2>1 DEF DeleteStep, Deleting, NoRow
      <3>2. QED
        BY <3>1, <1>0
    <2>2. CASE ~Deleting /\ DeleteStep("restore") /\ NoFault /\ UNCHANGED row
      <3>1. del'.pc = "restore" /\ ~Deleting'
        BY <1>1, <2>2 DEF DeleteStep, Deleting
      <3>2. QED
        BY <3>1, <1>0
    <2>3. CASE DeleteFault /\ DeleteStep("restore") /\ UNCHANGED row
      <3>1. /\ del'.pc = "restore" /\ del'.own = del.own /\ del.pc = "finish"
            /\ faulted = "no" /\ faulted' = "finish" /\ UNCHANGED dir
        BY <1>1, <1>7, <2>3 DEF DeleteStep, DeleteFault, FaultAt, FinishDelete, Delete
      <3>2. QED
        BY <3>1, <1>0, <1>2, <1>7 DEF FinishDelete, BeginDelete
    <2>4. QED
      BY <1>7, <2>1, <2>2, <2>3 DEF FinishDelete
  <1>8. CASE Purge
    <2>1. ~Deleting' /\ del'.pc \in {"purge", "idle"}
      BY <1>1, <1>8 DEF Purge, Delete, NoDeletion, Deleting
    <2>2. QED
      BY <2>1, <1>0
  <1>9. CASE Restore
    <2>1. del.pc = "restore" /\ UNCHANGED <<row, faulted>>
      BY <1>9 DEF Restore, Delete
    <2>2. CASE del.own # {} /\ dir.present
      <3>1. del' = NoDeletion
        BY <1>9, <2>2 DEF Restore
      <3>2. QED
        BY <2>1, <2>2, <3>1, <1>0 DEF NoDeletion, Deleting
    <2>3. CASE ~(del.own # {} /\ dir.present)
      <3>1. del'.pc = "clean"
        BY <1>1, <1>9, <2>3 DEF Restore, DeleteStep
      <3>2. QED
        BY <3>1, <1>0
    <2>4. QED
      BY <2>2, <2>3
  <1>10. CASE CleanMarkers
    <2>1. del'.pc = "abort"
      BY <1>1, <1>10 DEF CleanMarkers, DeleteStep
    <2>2. QED
      BY <2>1, <1>0
  <1>11. CASE Abort
    <2>1. del' = NoDeletion /\ del.pc = "abort"
      BY <1>11 DEF Abort, Delete
    <2>2. Deleting' => faulted' = "abort"
      BY <1>11, <2>1 DEF Abort, AbortDelete, DeleteFault, FaultAt, Deleting, Installed
    <2>3. QED
      BY <2>1, <2>2, <1>0 DEF NoDeletion
  <1>12. QED
    BY <1>3, <1>4, <1>5, <1>6, <1>7, <1>8, <1>9, <1>10, <1>11 DEF DeleteNext

LEMMA UndoingStep ==
    ASSUME Undoing, Shapes, Quiet, Starting, [Next]_vars
    PROVE  Undoing'
  <1>0. ~BeginDelete /\ Deleting' => Deleting
    BY DeletingIsOld
  <1>1. CASE DeleteNext
    BY <1>1, DeleteUndoes
  <1>2. CASE Completes
    <2>1. ~BeginDelete
      <3>1. del' = del
        BY <1>2, CompleteMoves
      <3>2. QED
        BY <3>1 DEF BeginDelete, Reserved, NoDeletion
    <2>2. QED
      BY <1>0, <1>2, <2>1, CompleteFaults, CompleteMoves
        DEF Undoing, Trashed, Reserved, PublishInstallation, Installed, Deleting
  <1>3. CASE Ensure \/ Downloading
    <2>1. UNCHANGED svars /\ (inst = "publish" => inst' = "publish")
      BY <1>3, FetchMoves DEF Ensure, Install, Downloading, RequestCancel, Fetches, Quiet
    <2>2. QED
      BY <2>1 DEF Undoing, svars, store, Reserved, Deleting
  <1>4. CASE UserNext \/ Damage \/ UNCHANGED vars
    <2>1. UNCHANGED <<inst, row, del, faulted, phase>>
      BY <1>4, UserMoves DEF Damage, vars, dvars, svars, store
    <2>2. dir' # dir => phase = "down"
      BY <1>4, UserMoves DEF Damage, vars, svars, store
    <2>3. QED
      BY <2>1, <2>2 DEF Undoing, Reserved, Deleting, Quiet, Trashed
  <1>5. CASE StartNext
    <2>1. del'.pc = "idle"
      BY <1>5, StartMoves DEF Quiet, Reserved
    <2>2. ~BeginDelete
      BY <1>5, StartMoves DEF BeginDelete
    <2>3. phase' = "up" => ~Deleting'
      BY <1>0, <1>5, <2>2, StartMoves DEF Starting
    <2>4. QED
      BY <2>1, <2>3 DEF Undoing, Trashed
  <1>6. CASE Crash
    BY <1>6 DEF Crash, NoDeletion, Undoing, Trashed
  <1>7. CASE DownloadingFails
    BY <1>7, FaultMoves DEF Undoing, Trashed, Fetches, store, Reserved, Deleting
  <1>8. QED
    BY <1>1, <1>2, <1>3, <1>4, <1>5, <1>6, <1>7, StepsOfStore

\* The steps of the install while a user holds the bundle.
LEMMA CompleteHeld ==
    ASSUME Shapes, Completes
    PROVE  \/ dir' = Bundle
           \/ inst' = "missing"
           \/ faulted' = "install"
           \/ inst = "missing" /\ ~Qualified'
           \/ /\ inst # "missing" /\ UNCHANGED dir
              /\ inst' = "whole" => Valid
              /\ inst' # "publish"
              /\ Qualified' => Qualified \/ inst \in {"publish", "whole"}
              /\ faulted = "install" => faulted' = "install"
  <1> USE DEF Fault, FaultAt, NoFault, svars, store, InstallVars, Thread, InstallStep,
              EndInstall, EndOperation, Conclude
  <1>1. CASE BeginInstall \/ PreflightFails \/ Assemble \/ AssembleFails
    BY <1>1 DEF BeginInstall, PreflightFails, Assemble, AssembleFails, Qualified
  <1>2. CASE PublishBundle \/ PublishRow \/ Succeed
    BY <1>2 DEF PublishBundle, PublishRow, Succeed, Qualified
  <1>3. CASE RecoverLook \/ RecoverQuarantine
    BY <1>3 DEF RecoverLook, RecoverQuarantine, Qualified
  <1>4. CASE RecoverRejects
    <2>1. RecordRecovery => ~Qualified'
      BY DEF RecordRecovery, Qualified, Installed, Shapes, NoRow
    <2>2. QED
      BY <1>4, <2>1 DEF RecoverRejects
  <1>5. CASE RecoverPublish \/ RecoverSucceeds
    BY <1>5 DEF RecoverPublish, RecoverSucceeds, Qualified
  <1>6. QED
    BY <1>1, <1>2, <1>3, <1>4, <1>5 DEF Completes

LEMMA HeldStep ==
    ASSUME Held, Shapes, Quiet, [Next]_vars
    PROVE  Held'
  <1>0. ASSUME ~BeginDelete PROVE Deleting' => Deleting
    BY <1>0, DeletingIsOld
  <1> USE DEF Held
  <1>1. CASE BeginDelete
    BY <1>1 DEF BeginDelete, DeleteVars
  <1>2. CASE DeleteNext /\ ~BeginDelete
    <2>1. Reserved
      BY <1>2 DEF DeleteNext, DeleteCheck, WriteMarker, PlaceMarker, MoveToTrash, FinishDelete,
        Purge, Restore, CleanMarkers, Abort, Delete, Reserved
    <2>2. \A u \in Users : user'[u] = "free"
      BY <1>2, <2>1, DeleteMoves
    <2>3. QED
      BY <2>2
  <1>3. CASE Completes
    <2>1. UNCHANGED <<user, del>>
      BY <1>3, CompleteMoves
    <2>2. ~BeginDelete
      BY <2>1 DEF BeginDelete, Reserved, NoDeletion
    <2>3. ASSUME NEW u \in Users, user'[u] = "held"
          PROVE  \/ dir'.present /\ dir'.whole
                 \/ inst' = "missing" \/ faulted' = "install"
                 \/ ~Qualified' /\ inst' \notin {"publish", "whole"}
      <3>1. CASE dir' = Bundle
        BY <3>1 DEF Bundle
      <3>2. CASE inst = "missing" /\ ~Qualified'
        BY <3>2, <1>3 DEF Completes, BeginInstall, PreflightFails, Assemble, AssembleFails,
          PublishBundle, PublishRow, Succeed, RecoverLook, RecoverQuarantine, RecoverRejects,
          RecoverPublish, RecoverSucceeds, Thread, Conclude, EndInstall, EndOperation
      <3>3. CASE /\ inst # "missing" /\ UNCHANGED dir
                 /\ inst' = "whole" => Valid
                 /\ inst' # "publish"
                 /\ Qualified' => Qualified \/ inst \in {"publish", "whole"}
                 /\ faulted = "install" => faulted' = "install"
        BY <2>1, <2>3, <3>3 DEF Valid
      <3>4. QED
        BY <1>3, <3>1, <3>2, <3>3, CompleteHeld
    <2>4. QED
      BY <1>0, <2>1, <2>2, <2>3 DEF Reserved
  <1>4. CASE Ensure \/ Downloading
    <2>1. /\ UNCHANGED svars
          /\ inst' # inst => inst # "missing" /\ inst' \notin {"publish", "whole"}
      BY <1>4, FetchMoves DEF Ensure, Install, Downloading, RequestCancel, Fetches, Quiet
    <2>2. QED
      BY <2>1 DEF svars, store, Reserved, Deleting, Qualified
  <1>5. CASE UserNext
    <2>1. UNCHANGED <<inst, row, dir, del, faulted>>
      BY <1>5, UserMoves DEF dvars, store
    <2>2. PICK u \in Users : AcquireLease(u) \/ ReadRow(u) \/ CaptureBundle(u) \/ DropLease(u)
      BY <1>5 DEF UserNext
    <2>3. \A v \in Users \ {u} : user'[v] = user[v]
      BY <2>2 DEF AcquireLease, ReadRow, CaptureBundle, DropLease, UserStep, Shapes
    <2>4. /\ user'[u] # "free" => ~Reserved
          /\ user'[u] \in {"read", "held"} => ~Deleting
          /\ user'[u] = "held" => dir.present /\ dir.whole
      <3>1. CASE AcquireLease(u)
        BY <3>1 DEF AcquireLease, UserStep, Shapes
      <3>2. CASE ReadRow(u)
        BY <3>2 DEF ReadRow, UserStep, Shapes, Qualified, Deleting
      <3>3. CASE CaptureBundle(u)
        BY <3>3 DEF CaptureBundle, UserStep, Shapes, Valid
      <3>4. CASE DropLease(u)
        BY <3>4 DEF DropLease, UserStep, Shapes
      <3>5. QED
        BY <2>2, <3>1, <3>2, <3>3, <3>4
    <2>5. QED
      BY <2>1, <2>3, <2>4 DEF Reserved, Deleting, Qualified
  <1>6. CASE StartNext \/ Crash \/ Damage
    <2>1. \A u \in Users : user'[u] = "free"
      BY <1>6, StartMoves DEF Crash, Damage, Quiet
    <2>2. QED
      BY <2>1
  <1>7. CASE UNCHANGED vars
    BY <1>7 DEF vars, dvars, svars, store, Reserved, Deleting, Qualified
  <1>8. CASE DownloadingFails
    BY <1>8, FaultMoves DEF Fetches, store, Reserved, Deleting, Qualified
  <1>9. QED
    BY <1>1, <1>2, <1>3, <1>4, <1>5, <1>6, <1>7, <1>8, StepsOfStore

LEMMA StartingStep ==
    ASSUME Starting, Shapes, Quiet, [Next]_vars
    PROVE  Starting'
  <1> USE DEF Starting, Startup, StartVars
  <1>1. CASE phase' = phase /\ phase \in {"up", "down", "refused", "trash"}
    BY <1>1
  <1>2. CASE Start \/ Crash \/ Damage
    BY <1>2 DEF Start, Crash, Damage
  <1>3. CASE ReconcileTrash
    <2>1. (trash = {} /\ phase' = "downloads") \/ phase' \in {"trash", "refused"}
      BY <1>3 DEF ReconcileTrash
    <2>2. QED
      BY <1>3, <2>1 DEF ReconcileTrash
  <1>4. CASE RemoveTrash /\ phase = "installs"
    BY <1>4 DEF RemoveTrash
  <1>5. CASE StartDownloads \/ ClearStaging
    BY <1>5 DEF StartDownloads, ClearStaging, store
  <1>6. CASE ReconcileDeleting
    <2>1. phase = "installs" /\ trash = {} /\ ~staged /\ UNCHANGED staged /\ Deleting
      BY <1>6 DEF ReconcileDeleting
    <2>2. CASE ~dir.present /\ row' = NoRow /\ phase' = "unrecorded" /\ UNCHANGED <<dir, trash>>
      BY <2>1, <2>2 DEF NoRow, Deleting, Qualified
    <2>3. CASE /\ dir.present /\ dir.mark = {}
               /\ dir' = [dir EXCEPT !.tmp = FALSE] /\ AbortDelete(row.at)
               /\ phase' = "unrecorded" /\ UNCHANGED trash
      <3>1. dir'.present /\ ~Deleting'
        BY <2>1, <2>3 DEF AbortDelete, Installed, Deleting, Shapes
      <3>2. QED
        BY <2>1, <2>3, <3>1
    <2>4. CASE /\ dir.present /\ dir.mark = {row.at}
               /\ trash' = trash \cup {dir.mark} /\ dir' = NoDir
               /\ phase' = "moved" /\ UNCHANGED row
      BY <2>1, <2>4
    <2>5. CASE phase' = "refused"
      BY <2>5
    <2>6. QED
      BY <1>6, <2>2, <2>3, <2>4, <2>5 DEF ReconcileDeleting
  <1>7. CASE CompleteDeletion
    BY <1>7 DEF CompleteDeletion, NoRow, Deleting
  <1>8. CASE ReconcileRow
    <2>1. phase = "installs" /\ trash = {} /\ UNCHANGED <<dir, trash, staged>> /\ ~Deleting
      BY <1>8 DEF ReconcileRow
    <2>2. CASE row = NoRow /\ UNCHANGED row /\ phase' = "unrecorded"
      BY <2>1, <2>2 DEF NoRow, Deleting, Qualified
    <2>3. CASE Valid /\ PublishInstallation /\ phase' = "unrecorded"
      BY <2>1, <2>3 DEF Valid, PublishInstallation, Installed, Deleting
    <2>4. CASE RecordRecovery /\ phase' = IF dir.present THEN "reject" ELSE "unrecorded"
      <3>1. ~Qualified' /\ ~Deleting'
        BY <2>1, <2>4 DEF RecordRecovery, Installed, Qualified, Deleting
      <3>2. phase' \in {"reject", "unrecorded"}
        BY <2>4
      <3>3. QED
        BY <2>1, <3>1, <3>2
    <2>5. QED
      BY <1>8, <2>2, <2>3, <2>4 DEF ReconcileRow
  <1>9. CASE Quarantine
    BY <1>9 DEF Quarantine, Qualified, Deleting
  <1>10. CASE ReconcileUnrecorded
    BY <1>10 DEF ReconcileUnrecorded
  <1>11. CASE UNCHANGED vars
    BY <1>11 DEF vars, svars, store, Deleting, Qualified
  <1>12. Ensure \/ Downloading \/ DownloadingFails => phase' = phase /\ phase = "up"
    BY FaultMoves DEF Ensure, Downloading, svars
  <1>13. QED
    BY <1>1, <1>2, <1>3, <1>4, <1>5, <1>6, <1>7, <1>8, <1>9, <1>10, <1>11, <1>12, StepsOfStore,
      CompleteMoves, DeleteMoves, UserMoves DEF StartNext, RemoveTrash

-----------------------------------------------------------------------------
(* The theorems about the store.                                           *)

\* Every reachable state of the store satisfies the inductive invariant.
THEOREM StoreInvariance == Spec => []StoreInv
  <1>1. Init => StoreInv
    <2> SUFFICES ASSUME Init PROVE StoreInv
      OBVIOUS
    <2>1. Stored
      BY DownloadAssumption DEF Init, DInit, Stored, Typed, CheckpointTyped, FetchTyped, Whole, Started, NoCheckpoint, NoFetch, Tags, DownloadAssumption
    <2>2. Quiet /\ Undoing /\ Held
      BY DEF Init, DInit, Quiet, Rested, Undoing, Held, Trashed, Reserved, NoDeletion
    <2>3. Shapes
      BY DEF Init, Shapes, NoRow, NoDir, NoDeletion
    <2>4. Starting
      BY DEF Init, Starting
    <2>5. QED
      BY <2>1, <2>2, <2>3, <2>4 DEF StoreInv
  <1>2. StoreInv /\ [Next]_vars => StoreInv'
    BY DownloadAssumption, StoredStep, QuietStep, ShapesStep, UndoingStep, HeldStep, StartingStep
      DEF StoreInv
  <1>3. QED
    BY <1>1, <1>2, PTL DEF Spec

\* In the store, too, a verified checkpoint stands for the expected bytes while the
\* program runs: what the install assembles is what was downloaded, whatever failed,
\* whatever a power loss took, and after any startup.
THEOREM StoreVerifiedIsWhole == Spec => [](phase = "up" => VerifiedIsWhole)
  <1>1. StoreInv => (phase = "up" => VerifiedIsWhole)
    BY DEF StoreInv, Stored, Rested, Whole, VerifiedIsWhole
  <1>2. QED
    BY <1>1, StoreInvariance, PTL

\* No deletion takes a leased bundle away, whatever the order of its steps, the
\* leases and the install.
THEOREM LeasesAreRespected == Spec => []LeasedBundleStays
  <1>1. StoreInv => LeasedBundleStays
    BY DEF StoreInv, Held, LeasedBundleStays
  <1>2. QED
    BY <1>1, StoreInvariance, PTL

\* An operation that ended has left no busy row behind, unless the one fault hit the
\* call that should have said what became of the row.
THEOREM DownloadsSettle == Spec => []DownloadSettles
  <1>1. StoreInv => DownloadSettles
    BY DEF StoreInv, Quiet, DownloadSettles
  <1>2. QED
    BY <1>1, StoreInvariance, PTL

\* A deletion that fails takes its row back, unless the one fault hit its first look
\* or the undo itself.
THEOREM DeletesAreUndone == Spec => []FailedDeletesAreUndone
  <1>1. StoreInv => FailedDeletesAreUndone
    BY DEF StoreInv, Undoing, FailedDeletesAreUndone
  <1>2. QED
    BY <1>1, StoreInvariance, PTL

\* A startup that succeeds leaves nothing half done, whatever it found.
THEOREM StartupsReconcile == Spec => StartupReconciles
  <1>1. StoreInv /\ StoreInv' /\ [Next]_vars =>
          [phase # "up" /\ phase' = "up" => Reconciled']_vars
    <2> SUFFICES ASSUME StoreInv, StoreInv', [Next]_vars, phase # "up", phase' = "up"
                 PROVE  Reconciled'
      OBVIOUS
    <2>1. ReconcileUnrecorded
      <3>1. StartNext
        BY StepsOfStore, FaultMoves, CompleteMoves, DeleteMoves, UserMoves
          DEF Ensure, Downloading, Crash, Damage, vars, svars
      <3>2. phase = "unrecorded"
        BY <3>1, StartMoves
      <3>3. QED
        BY <3>1, <3>2 DEF StartNext, Start, ReconcileTrash, RemoveTrash, StartDownloads, ClearStaging,
          ReconcileDeleting, CompleteDeletion, ReconcileRow, Quarantine, Startup
    <2>2. /\ trash = {} /\ ~staged /\ ~Deleting /\ (Qualified => dir.present)
          /\ UNCHANGED <<trash, staged, inst>>
      BY <2>1 DEF ReconcileUnrecorded, Startup, StoreInv, Starting, dvars
    <2>3. dl' \notin Busy
      BY <2>2, <2>1 DEF StoreInv, Quiet, Rested, ReconcileUnrecorded, Startup, dvars
    <2>4. /\ Valid' => row' # NoRow
          /\ Qualified' => dir'.present
          /\ ~Deleting'
      <3>1. CASE (row # NoRow \/ ~dir.present) /\ UNCHANGED <<row, dir>>
        BY <2>2, <3>1 DEF Valid, Qualified, Deleting
      <3>2. CASE Valid /\ PublishInstallation /\ UNCHANGED dir
        BY <3>2 DEF Valid, PublishInstallation, Installed, NoRow, Deleting
      <3>3. CASE row = NoRow /\ dir' = NoDir /\ UNCHANGED row
        BY <3>3 DEF NoDir, NoRow, Valid, Qualified, Deleting
      <3>4. QED
        BY <2>1, <3>1, <3>2, <3>3 DEF ReconcileUnrecorded
    <2>5. QED
      BY <2>2, <2>3, <2>4 DEF Reconciled
  <1>2. QED
    BY <1>1, StoreInvariance, PTL DEF Spec, StartupReconciles
=============================================================================
