------------------------------ MODULE JobTable ------------------------------
(***************************************************************************)
(* The ASR job table of the catalog (src-tauri/src/catalog/jobs.rs and     *)
(* publication.rs): one operator per SQL transaction on asr_jobs,          *)
(* provider_receipts and revisions.  This module has no Spec of its own:   *)
(* AsrClaims lets any number of coordinators call the operations,          *)
(* AsrWorker is the one worker thread of the desktop process.              *)
(*                                                                         *)
(* Wall-clock columns are abstracted to what the queries compare:          *)
(*   lease_expires_at   "none" (NULL), "live" (> now) or "lapsed" (<= now) *)
(*   available_at       a queued job is in the sequence ready once         *)
(*                      available_at <= now; ready is kept in the order    *)
(*                      available_at, created_at, id the claim sorts by    *)
(***************************************************************************)
EXTENDS Naturals, Sequences, FiniteSets

CONSTANTS
    Jobs,            \* job ids; a row that was never inserted is "absent"
    Fingerprints,    \* (input, model, parameters) identities of requests
    Chunks,          \* audio chunks, the inputs of jobs
    Sessions,        \* recording sessions; revisions are numbered per session
    Boots,           \* boot ids, one per start of the process
    Workers,         \* worker ids inside a process
    NoOwner,         \* claimed_by IS NULL
    Manual,          \* author of a revision a user typed
    FingerprintOf,   \* the fingerprint a job was requested with
    ChunkOf,         \* the chunk a fingerprint names
    SessionOf,       \* the session a chunk belongs to
    MaxAttempts,     \* max_attempts, 3 in the code
    RetryCap,        \* bound of the model: no retry beyond this generation
    EditCap          \* bound of the model: revisions of a session when users stop editing

Owners == Boots \X Workers

ASSUME TableAssumption ==
    /\ FingerprintOf \in [Jobs -> Fingerprints]
    /\ ChunkOf \in [Fingerprints -> Chunks]
    /\ SessionOf \in [Chunks -> Sessions]
    /\ NoOwner \notin Owners
    /\ Manual \notin Jobs
    /\ MaxAttempts \in Nat \ {0}
    /\ RetryCap \in Nat
    /\ EditCap \in Nat

VARIABLES
    job,             \* rows of asr_jobs
    ready,           \* queued jobs that are due, in claim order
    chunk,           \* integrity_state of each chunk
    receipts,        \* rows of provider_receipts: the claims that were published
    revisions        \* rows of revisions: per session, the author of number 1, 2, ...

table == <<job, ready, chunk, receipts, revisions>>

Running == {"preparing", "transcribing"}
Active == {"queued", "blocked_model"} \cup Running
Settled == {"succeeded", "failed", "cancelled"}

Row == [state : {"absent"} \cup Active \cup Settled,
        attempts : Nat, generation : Nat,
        owner : Owners \cup {NoOwner},
        lease : {"none", "live", "lapsed"},
        cancel : BOOLEAN]

NoRow == [state |-> "absent", attempts |-> 0, generation |-> 0,
          owner |-> NoOwner, lease |-> "none", cancel |-> FALSE]

\* ClaimToken: what a coordinator remembers of its claim and presents again.
Token == [job : Jobs, owner : Owners, generation : Nat]

InputOf(j) == ChunkOf[FingerprintOf[j]]
InputAvailable(j) == chunk[InputOf(j)] = "available"

TableInit ==
    /\ job = [j \in Jobs |-> NoRow]
    /\ ready = <<>>
    /\ chunk = [c \in Chunks |-> "available"]
    /\ receipts = {}
    /\ revisions = [s \in Sessions |-> <<>>]

\* UPDATE asr_jobs SET ... WHERE id = j.
SetRow(j, row) == job' = [job EXCEPT ![j] = row]

-----------------------------------------------------------------------------
(* Positions in ready.                                                     *)

Due(j) == \E i \in 1 .. Len(ready) : ready[i] = j

Drop(s, i) == SubSeq(s, 1, i - 1) \o SubSeq(s, i + 1, Len(s))

\* The order of claims when j stops being queued.
LeaveReady(j) ==
    \/ \E i \in 1 .. Len(ready) : ready[i] = j /\ ready' = Drop(ready, i)
    \/ ~Due(j) /\ UNCHANGED ready

-----------------------------------------------------------------------------
(* Insertion: enqueue, blocked by the model, failed at preflight.          *)

\* Mutant: a running twin is overlooked.
NoWaitingTwin(j) ==
    \A k \in Jobs :
        FingerprintOf[k] = FingerprintOf[j] => job[k].state \notin {"queued", "blocked_model"}

NoActiveTwin(j) ==
    \A k \in Jobs : FingerprintOf[k] = FingerprintOf[j] => job[k].state \notin Active

\* insert_asr_job: one immediate transaction that checks the input, looks for
\* an active job of the same fingerprint and inserts; otherwise it changes nothing.
InsertJob(j, state) ==
    /\ job[j].state = "absent"
    /\ InputAvailable(j)
    /\ NoActiveTwin(j)
    /\ SetRow(j, [NoRow EXCEPT !.state = state])
    /\ UNCHANGED <<chunk, receipts, revisions>>

Enqueue(j) == InsertJob(j, "queued") /\ ready' = Append(ready, j)
InsertBlocked(j) == InsertJob(j, "blocked_model") /\ UNCHANGED ready
InsertFailed(j) == InsertJob(j, "failed") /\ UNCHANGED ready

-----------------------------------------------------------------------------
(* Claim and the operations of its holder.                                 *)

\* Mutant: a job that is still being prepared does not count.
NobodyTranscribes == \A j \in Jobs : ~(job[j].state = "transcribing" /\ job[j].owner # NoOwner)

NobodyRuns == \A j \in Jobs : ~(job[j].state \in Running /\ job[j].owner # NoOwner)

Claimable(i) ==
    /\ job[ready[i]].state = "queued"
    /\ ~job[ready[i]].cancel
    /\ job[ready[i]].lease # "live"
    /\ InputAvailable(ready[i])
    /\ NobodyRuns

NothingClaimable == \A i \in 1 .. Len(ready) : ~Claimable(i)

\* Mutant: the generation is left to retries.
ClaimUnfenced(o, j) ==
    /\ \E i \in 1 .. Len(ready) :
         /\ ready[i] = j
         /\ Claimable(i)
         /\ \A k \in 1 .. i - 1 : ~Claimable(k)
         /\ ready' = Drop(ready, i)
    /\ SetRow(j, [job[j] EXCEPT !.state = "preparing", !.owner = o, !.lease = "live",
                                !.attempts = @ + 1])
    /\ UNCHANGED <<chunk, receipts, revisions>>

\* claim_asr_job: the first due queued job whose input is available, while no
\* job of any owner is preparing or transcribing.
Claim(o, j) ==
    /\ \E i \in 1 .. Len(ready) :
         /\ ready[i] = j
         /\ Claimable(i)
         /\ \A k \in 1 .. i - 1 : ~Claimable(k)
         /\ ready' = Drop(ready, i)
    /\ SetRow(j, [job[j] EXCEPT !.state = "preparing", !.owner = o, !.lease = "live",
                                !.attempts = @ + 1, !.generation = @ + 1])
    /\ UNCHANGED <<chunk, receipts, revisions>>

TokenOf(j) == [job |-> j, owner |-> job[j].owner, generation |-> job[j].generation]

\* Mutant: the owner is compared, the generation is not.
OwnsByName(t) == job[t.job].owner = t.owner

Owns(t) == job[t.job].owner = t.owner /\ job[t.job].generation = t.generation

\* The WHERE clause the mutations of an owner share.
Holds(t) ==
    /\ Owns(t)
    /\ job[t.job].state \in Running
    /\ job[t.job].lease = "live"

MayMutate(t) == Holds(t) /\ ~job[t.job].cancel
CancelSeen(t) == Holds(t) /\ job[t.job].cancel
OwnershipLost(t) == ~Holds(t)

\* Mutant: a lapsed lease is brought back.
RenewLapsed(t) ==
    /\ Owns(t) /\ job[t.job].state \in Running /\ ~job[t.job].cancel
    /\ SetRow(t.job, [job[t.job] EXCEPT !.lease = "live"])
    /\ UNCHANGED <<ready, chunk, receipts, revisions>>

\* renew_asr_job: a lease is extended while it is live, never brought back.
Renew(t) ==
    /\ MayMutate(t)
    /\ SetRow(t.job, [job[t.job] EXCEPT !.lease = "live"])
    /\ UNCHANGED <<ready, chunk, receipts, revisions>>

MarkTranscribing(t) ==
    /\ MayMutate(t)
    /\ job[t.job].state = "preparing"
    /\ SetRow(t.job, [job[t.job] EXCEPT !.state = "transcribing"])
    /\ UNCHANGED <<ready, chunk, receipts, revisions>>

\* A row that leaves the running states gives up its claim.
Released(row, state) == [row EXCEPT !.state = state, !.owner = NoOwner, !.lease = "none"]

Release(j, state) == SetRow(j, Released(job[j], state))

Fail(t) ==
    /\ MayMutate(t)
    /\ Release(t.job, "failed")
    /\ UNCHANGED <<ready, chunk, receipts, revisions>>

AcknowledgeCancel(t) ==
    /\ CancelSeen(t)
    /\ Release(t.job, "cancelled")
    /\ UNCHANGED <<ready, chunk, receipts, revisions>>

-----------------------------------------------------------------------------
(* Publication: receipt, revision and success in one transaction.          *)

\* The revision numbered COALESCE(MAX(number), 0) + 1: numbers start at 1 and
\* no operation deletes a revision, so the number is the position.
AppendRevision(s, author) == revisions' = [revisions EXCEPT ![s] = Append(@, author)]

MayPublish(t) == MayMutate(t) /\ job[t.job].state = "transcribing"

\* Mutant: the job is marked succeeded in a later transaction.
PublishEarly(t, speech) ==
    /\ MayPublish(t)
    /\ receipts' = receipts \cup {t}
    /\ IF speech THEN AppendRevision(SessionOf[InputOf(t.job)], t.job)
                 ELSE UNCHANGED revisions
    /\ UNCHANGED <<job, ready, chunk>>

\* publish_asr_result for a valid result; a result without speech segments
\* leaves a receipt and no revision.
Publish(t, speech) ==
    /\ MayPublish(t)
    /\ receipts' = receipts \cup {t}
    /\ IF speech THEN AppendRevision(SessionOf[InputOf(t.job)], t.job)
                 ELSE UNCHANGED revisions
    /\ Release(t.job, "succeeded")
    /\ UNCHANGED <<ready, chunk>>

\* The segments of a session's latest revision are those of the last job that
\* was published, whose audio is still available.
Editable(s) ==
    \E n \in 1 .. Len(revisions[s]) :
        /\ revisions[s][n] # Manual /\ InputAvailable(revisions[s][n])
        /\ \A m \in n + 1 .. Len(revisions[s]) : revisions[s][m] = Manual

\* create_manual_revision: a user saves an edit of the latest revision.
SaveManualRevision(s) ==
    /\ Editable(s)
    /\ Len(revisions[s]) < EditCap
    /\ AppendRevision(s, Manual)
    /\ UNCHANGED <<job, ready, chunk, receipts>>

-----------------------------------------------------------------------------
(* Operations of other callers.                                            *)

\* Mutant: a cancel after the success takes the job back.
RequestCancelLate(j) ==
    /\ job[j].state \in {"queued", "blocked_model", "succeeded"}
    /\ SetRow(j, [Released(job[j], "cancelled") EXCEPT !.cancel = TRUE])
    /\ LeaveReady(j)
    /\ UNCHANGED <<chunk, receipts, revisions>>

\* request_asr_job_cancel: a waiting job is cancelled at once, a running one is marked.
RequestCancel(j) ==
    \/ /\ job[j].state \in {"queued", "blocked_model"}
       /\ SetRow(j, [Released(job[j], "cancelled") EXCEPT !.cancel = TRUE])
       /\ LeaveReady(j)
       /\ UNCHANGED <<chunk, receipts, revisions>>
    \/ /\ job[j].state \in Running
       /\ ~job[j].cancel
       /\ SetRow(j, [job[j] EXCEPT !.cancel = TRUE])
       /\ UNCHANGED <<ready, chunk, receipts, revisions>>

\* recover_asr_jobs, row by row: a claim of another boot, or one whose lease
\* has lapsed, is taken away.
Stale(j, boot) ==
    /\ job[j].state \in Running
    /\ job[j].owner # NoOwner
    /\ ~(job[j].owner[1] = boot /\ job[j].lease = "live")

\* Mutant: a cancel is forgotten.
RecoveredUncancelled(row) == IF row.attempts >= MaxAttempts THEN "failed" ELSE "queued"

RecoveredState(row) ==
    IF row.cancel THEN "cancelled"
    ELSE IF row.attempts >= MaxAttempts THEN "failed" ELSE "queued"

\* One transaction over all stale rows; a requeued row becomes due later.
Recover(boot) ==
    /\ job' = [j \in Jobs |->
                 IF Stale(j, boot)
                 THEN Released(job[j], RecoveredState(job[j])) ELSE job[j]]
    /\ UNCHANGED <<ready, chunk, receipts, revisions>>

\* Mutant: a cancelled job may be retried too.
RetryCancelled(j) ==
    /\ job[j].state \in {"blocked_model", "failed", "cancelled"}
    /\ job[j].generation < RetryCap
    /\ InputAvailable(j)
    /\ \A k \in Jobs \ {j} : FingerprintOf[k] = FingerprintOf[j] => job[k].state \notin Active
    /\ SetRow(j, [NoRow EXCEPT !.state = "queued", !.generation = job[j].generation + 1])
    /\ ready' = Append(ready, j)
    /\ UNCHANGED <<chunk, receipts, revisions>>

\* retry_asr_job with a runtime-qualified model; the unique index on active
\* fingerprints makes the update fail when a twin is active.
Retry(j) ==
    /\ job[j].state \in {"blocked_model", "failed"}
    /\ job[j].generation < RetryCap
    /\ InputAvailable(j)
    /\ \A k \in Jobs \ {j} : FingerprintOf[k] = FingerprintOf[j] => job[k].state \notin Active
    /\ SetRow(j, [NoRow EXCEPT !.state = "queued", !.generation = job[j].generation + 1])
    /\ ready' = Append(ready, j)
    /\ UNCHANGED <<chunk, receipts, revisions>>

\* update_chunk_integrity with the verdict of a re-read of the file.
ChunkVerdict(c, verdict) ==
    /\ chunk[c] # verdict
    /\ chunk' = [chunk EXCEPT ![c] = verdict]
    /\ UNCHANGED <<job, ready, receipts, revisions>>

-----------------------------------------------------------------------------
(* The clock.                                                              *)

LeaseLapses(j) ==
    /\ job[j].lease = "live"
    /\ SetRow(j, [job[j] EXCEPT !.lease = "lapsed"])
    /\ UNCHANGED <<ready, chunk, receipts, revisions>>

\* Utc::now() is the wall clock: set back, it brings a lapsed lease back.
LeaseReturns(j) ==
    /\ job[j].lease = "lapsed"
    /\ SetRow(j, [job[j] EXCEPT !.lease = "live"])
    /\ UNCHANGED <<ready, chunk, receipts, revisions>>

\* The retry delay of a recovered job has passed.
BecomesDue(j) ==
    /\ job[j].state = "queued"
    /\ ~Due(j)
    /\ ready' = Append(ready, j)
    /\ UNCHANGED <<job, chunk, receipts, revisions>>

-----------------------------------------------------------------------------
(* What the table promises, whoever calls it.                              *)

TableTypeOK ==
    /\ job \in [Jobs -> Row]
    /\ ready \in Seq(Jobs)
    /\ chunk \in [Chunks -> {"available", "unavailable"}]
    /\ receipts \subseteq Token
    /\ revisions \in [Sessions -> Seq(Jobs \cup {Manual})]

\* A row has an owner and a lease exactly while it is running, so every running
\* job can be taken over by recovery and no settled job keeps a claim.
OwnedIffRunning ==
    \A j \in Jobs :
        /\ job[j].state \in Running <=> job[j].owner # NoOwner
        /\ job[j].state \in Running <=> job[j].lease # "none"

\* Two jobs are never running at once: large models are never resident twice,
\* across workers, boots, lapsed leases and recoveries.
OneClaimAtATime ==
    \A j, k \in Jobs :
        job[j].state \in Running /\ job[k].state \in Running => j = k

\* The partial unique index asr_jobs_one_active_fingerprint holds although
\* inserts, retries and recoveries all make jobs active.
OneActivePerFingerprint ==
    \A j, k \in Jobs :
        /\ job[j].state \in Active /\ job[k].state \in Active
        /\ FingerprintOf[j] = FingerprintOf[k]
        => j = k

\* At most MaxAttempts claims per manual execution generation, and a queued job
\* always has a claim left: recovery fails an exhausted job, it never requeues it.
AttemptsBounded ==
    \A j \in Jobs :
        /\ job[j].attempts <= MaxAttempts
        /\ job[j].attempts <= job[j].generation
        /\ job[j].state = "queued" => job[j].attempts < MaxAttempts

\* A cancel that was accepted wins every later race: the job can only still be
\* running or be cancelled, never failed, requeued or published.
CancelWins ==
    \A j \in Jobs :
        /\ job[j].cancel => job[j].state \in Running \cup {"cancelled"}
        /\ job[j].state = "cancelled" => job[j].cancel

\* A job succeeded exactly when one receipt names it, and the receipt is of the
\* claim generation the row still has: no superseded claim ever published.
ReceiptIffSucceeded ==
    /\ \A j \in Jobs : job[j].state = "succeeded" <=> \E r \in receipts : r.job = j
    /\ \A r \in receipts : r.generation = job[r.job].generation
    /\ \A q, r \in receipts : q.job = r.job => q = r

\* A transcript revision comes from a user's edit or from one job that succeeded,
\* in the session of that job's input, and no job writes two revisions.
RevisionsHaveReceipts ==
    \A s \in Sessions : \A n \in 1 .. Len(revisions[s]) :
        revisions[s][n] # Manual =>
            /\ job[revisions[s][n]].state = "succeeded"
            /\ SessionOf[InputOf(revisions[s][n])] = s
            /\ \A m \in 1 .. Len(revisions[s]) : revisions[s][m] = revisions[s][n] => m = n

\* Evidence is append-only: a success is never undone and no published revision
\* is replaced or renumbered, whatever cancels, retries or edits come later.
EvidenceIsFinal ==
    [][/\ \A j \in Jobs : job[j].state = "succeeded" => job'[j] = job[j]
       /\ receipts \subseteq receipts'
       /\ \A s \in Sessions : \A n \in 1 .. Len(revisions[s]) :
            n <= Len(revisions'[s]) /\ revisions'[s][n] = revisions[s][n]]_table

-----------------------------------------------------------------------------
(* The refinement of Transcripts.                                          *)

PhaseOf(row) ==
    CASE row.state = "absent" -> "new"
      [] row.state = "succeeded" -> "done"
      [] row.state \in {"failed", "cancelled"} -> row.state
      [] row.state \in Active -> IF row.cancel THEN "cancelling" ELSE "open"

Promise == INSTANCE Transcripts WITH
    Requests <- Jobs, Records <- Sessions, Editor <- Manual,
    RecordOf <- [j \in Jobs |-> SessionOf[InputOf(j)]],
    phase <- [j \in Jobs |-> PhaseOf(job[j])], history <- revisions

\* Claims, leases, boots, recoveries and stale coordinators are invisible: every
\* step of the table is a step of Transcripts or changes nothing a user sees.
ImplementsTranscripts == Promise!Spec
=============================================================================
