# A verification of LifeSub's core

LifeSub is a desktop application (Tauri: a Rust core, a React user interface, a Swift
helper for audio capture) that records or imports audio, keeps it as evidence and
transcribes it on the machine. This directory holds TLA+ modules that model the parts of
it whose correctness depends on order, crashes and concurrency, the TLC configurations
that check them on small instances, and proofs that TLAPS checks for every instance.

Paths below are relative to `src-tauri/src/` unless they start otherwise; paths that start
with `docs/` are relative to the repository.

Contents: 1 inventory, 2 modules, 3 runs, 4 proofs, 5 mutants, 6 findings, 7 status and
order of the work, 8 not modelled.

## 1. Inventory

| Part | State it keeps | Operations | Hard behaviour | What makes it correct |
|---|---|---|---|---|
| ASR job table (`catalog/jobs.rs`, `catalog/publication.rs`, `asr/job.rs`) | rows of `asr_jobs`, `provider_receipts`, `revisions` in SQLite | enqueue, claim, renew, mark, fail, publish, cancel, acknowledge, recover, retry | callers with old claims, lapsing leases, crashes, cancels racing publications | one running job, fenced claims, final cancels, append-only evidence |
| ASR worker (`asr/worker.rs`, `asr/native_engine.rs`) | a claim in memory, a detached inference thread | claim loop, prepare, run, observe, publish, shutdown | every transaction can be refused; errors end the thread | no forgotten running row, jobs are served, shutdown ends |
| Enqueue (`asr/service.rs`) | in-memory set of fingerprints in flight | validate, reserve, insert | two requests at once | one active job per fingerprint |
| Manual revisions (`catalog.rs`) | `revisions`, `segments` | save an edit of the latest revision | the latest revision changes while a user edits | numbering, no evidence overwritten |
| Import and audio store (`service.rs`, `service/audio_store.rs`, `catalog/chunks.rs`, parts of `commands.rs`) | files in `audio/`, rows of `chunks` | import, clean up, reconcile at the start | power loss between file and row, clean-ups that fail themselves, orphans younger than the grace period | no row without its file, integrity states that tell the truth, no start refused by leftovers |
| Capture sealing (`capture/seal.rs`, `capture/committer.rs`, `catalog/capture.rs`) | staging files, intent files, rows of `chunks` | stage, seal, adopt | crash at every step, sealing again | a sealed chunk is durable and in the catalog exactly once |
| Capture coordination (`capture/coordinator.rs`, `capture/session.rs`) | phase of a capture, recovery generations, a control channel | start, pause, resume, stop, events of the helper | late events, a device that recovers, callers that wait | a stopped capture is durable, both sides agree, calls return |
| Capture transport (`capture/protocol.rs`, `helper.rs`, `native_transport.rs`, `streaming.rs`) | two pipes, the child process | frames, events, shutdown of the child | the child dies at any moment | in order or an error |
| Swift helper (`src-tauri/native/capture-helper`) | controller, engines, open chunks, one recovery | start, pause, resume, stop, seal, recover | an actor re-entered at every `await`, device changes in a burst | every chunk announced before its source stops, one recovery at a time |
| Model manager (`asr/model_manager/*`, `catalog/models.rs`, `asr/runtime_qualifier.rs`) | downloads with checkpoints, bundles, rows, trash, leases | download, install, lease, delete, reconcile | a resumed download of a changed artifact, a crash between rename and row, deletion against a job | a verified artifact is the right one, a leased bundle stays, a start repairs everything |
| Runtime (`service/runtime_lock.rs`) | a lock file, a boot id, a reservation | initialize, ensure a model, lease | a failed start | one owner of the catalog |
| VAD and windows (`asr/audio.rs`, `asr/vad.rs`, parts of `asr/native_engine.rs`) | none | decode, detect, partition, transcribe, time | boundaries, rounding, resampling | no speech lost or heard twice, times within the audio |
| Local API (`api/*`) | idempotency keys, cursors | dispatch, replay, page | | not modelled, see section 8 |
| Migrations, VFS, manifests, providers, diagnostics, notes, dictionary, voiceprints, UI | | | | not modelled, see section 8 |

The parts interact as follows. An import or a sealed capture inserts a row of `chunks`
and asks the enqueue service for a job. The worker claims the job from the table, reads a
snapshot of the row, leases the bundle of the job's model, runs an inference in a thread
of its own (decode, detect, partition, transcribe) and publishes receipt, revision and
success in one transaction; a callback then tells the UI. Users cancel and retry jobs,
edit revisions, install and delete models through the same catalog. Every catalog call
takes one mutex around one connection, so a SQL transaction is a step; a process holds the
runtime lock for its whole life, so there is one process at a time, but rows and files
outlive it. At every start the program reconciles `audio/` and the model store with the
catalog before a user can do anything.

A capture has two processes. The Rust side (a command thread and a worker thread per
session) writes commands into a pipe and polls events from another; the Swift helper reads
one command at a time, while sources, device notifications and recoveries run beside it.

## 2. Modules

| Module | Models | Used by |
|---|---|---|
| `JobTable` | one operator per SQL transaction on jobs, receipts and revisions; no behaviour of its own | `AsrClaims`, `AsrWorker`, proofs |
| `AsrClaims` | the table under any number of coordinators, of several boots, each presenting any token it was ever given | `MCAsrClaims`, proofs |
| `Transcripts` | what a user is promised: the abstract specification | `AsrClaims`, `AsrWorker` (refinement) |
| `AsrWorker` | the one worker thread, its inference thread, users, the clock, shutdown and restart | `MCAsrWorker`, proofs |
| `Sealing` | `seal.rs` and the start of the program: files, intents and rows of captured chunks, step by step | `SealingReplay`, `CaptureCommit`, proofs |
| `ChunkLife` | what is promised about the audio of a chunk: the abstract specification | `Sealing` (refinement) |
| `SealingReplay` | `Sealing` with a caller that repeats its requests, and an end to trouble | `MCSealing` |
| `CaptureCommit` | the worker of a capture session, the one caller of `Sealing` in the program | `MCCaptureCommit`, proofs |
| `CaptureHelper` | the Swift helper process | `CaptureControl` |
| `CaptureControl` | session object, worker thread and coordinator, composed with `CaptureHelper` | `MCCaptureControl`, proofs |
| `ModelDownload` | the resumable download of one artifact and its install operation | `ModelStore`, proofs |
| `ModelStore` | bundle, row, staging, trash, deletion, leases and the start of the program, composed with `ModelDownload` | its own configurations, proofs |
| `AudioWindows` | what the inference thread does with the audio of one chunk | its own configurations, proofs |
| `AudioImport` | imports, their clean-ups and the reconciliation of `audio/` | `MCAudioImport`, proofs |
| `JobTable_proofs`, `AsrClaims_proofs`, `AsrWorker_proofs`, `Sealing_proofs`, `CaptureControl_proofs`, `ModelStore_proofs`, `AudioWindows_proofs`, `AudioImport_proofs` | theorems, see section 4 | |

### JobTable

A row is a record of the columns the queries compare: `state`, `attempt_count`,
`claim_generation`, `claimed_by`, `lease_expires_at`, `cancel_requested_at`. Times are
abstracted to the comparison they take part in: a lease is `none`, `live` or `lapsed`; a
queued job is due when it is in the sequence `ready`, kept in the order in which
`claim_asr_job` sorts. The integrity state of a chunk is `available` or `unavailable`
(missing and corrupted are treated alike by every query). A revision is its author: a job
or a user. Text, segments, receipts' contents and model identities are left out; what a
malformed result does is kept (the transaction is rolled back). A model that is not
qualified is the nondeterminism of `InsertBlocked` and of `Retry`.

### AsrWorker

`pc` is the worker's place between two transactions, `claim` is
`JobCoordinator.active`, `run` what `recv_timeout` would find. The action names follow
the code's branches: `RenewSeesCancel`, `PublishRefused`, `RefusedByCancel` and so on. An
error that leaves `run_until_shutdown` ends in `stopped`, because nothing restarts the
thread. `Abandon` models `cancel()` and the drop of a run: the inference thread goes on
as `leftover` until it notices its flag. What the inference thread computes is
`AudioWindows`; here it is one of `Results`.

### Sealing

Per chunk, `fs` says where its audio is (not recorded yet, in the staging directory, under
its final name, deleted), whether it is still the recorded file, which request its intent
file holds and whether a temporary of it is left. `row` is the pair of rows in `chunks`
and `capture_chunk_timing`. A request is a model value; `ChunkOf`, `SlotOf`, `Truthful`
and `Sourced` say of it what the code compares: the chunk it names, the (source,
sequence) pair that is unique in the catalog, whether its hash and length are those of the
recorded bytes, whether its capture source is registered for its session. `at` is the next
system call or transaction of `seal`, named for what it does; every one of them can fail,
and what the code does then is an action of its own (`TempFailure`, `LateFailure`, ...).

`disk` is the set of states a power loss may leave. A rename or unlink adds the new state
(`Alter`); a successful `sync` of a directory leaves only the present one (`Persist`).
This takes directory operations to reach the disk in the order in which they were made
and a sync to cover the operations before it, as a journalling file system does; a file
system that orders nothing between directories is not modelled. SQLite's commits are
durable. File contents are synced before every rename in the code, so a name never stands
for half a file. `Replace` is another file put in the place of the staged one at any
time, which the code guards against by comparing identities.

Several staging directories (one per session) are one here, because chunk ids are unique.
Malformed names, foreign files in the directories and symbolic links are refused by the
code before it changes anything and are left out. Errors have no kinds but
`RecoveryRequired` and the others.

### CaptureCommit

`inbox` holds the chunks the helper has announced, `taken` the committer's sequence
counter (one capture source per session), `due` the chunk between `seal` and
`after_commit`. `enqueue_auto_transcription` is abstracted to its outcomes: a job row, no
row because automatic transcription is off, an error. A stop may leave announced chunks
behind, as an error of the helper does.

### CaptureHelper and CaptureControl

A step is what happens between two `await`s. `cmds` and `evts` are the pipes; `loop` is the
lifecycle of `HelperCommandLoop`, `task` the command it is in the middle of with the
sources it still has to visit, `ctlState` and `enabled` belong to
`CaptureSessionController`, `mic` and `rec` to `MicrophoneCapture` and
`AudioEngineRecovery` (`rec.gen` is the generation, `rec.mine` that of the attempt under
way, `rec.stage` where it is suspended), `engine` says per source what the system does,
`unsealed` whether the encoder holds frames. `Frames`, `RollChunk`, `DeviceChange`,
`SystemStreamStops`, `FramePathFails` and `HelperCrash` are the world.

On the Rust side `caller` is the Tauri command in progress (they are serialised by one
mutex), `control` the message to the worker and `answer` the reply; `Serve` is the part of
`run_worker`'s loop that looks at the channel, the `Poll` actions the part that reads an
event and gives it to `handle_event`, `On...` the arms of that function. `flags` are the
locals `stop_requested` and `shutdown_sent`. A session that has stopped waits for
`shutdown_ack` in a phase that `handle_event` refuses: the worker of every clean stop ends
with `InvalidState`, which `stop` does not report; the model has it so (`PollRefused`).

Simplifications: one start per behaviour (a session object is used once);
`Rebuild` and `FailRecovery` of the helper are one step each although they await short
calls of the audio system; a shutdown command to a helper that is gone fails like the
next read does; the encoding of frames and the sampling of audio are left out; the
`committed` chunks are counted, their seal is `CaptureCommit`.

### ModelDownload and ModelStore

In `ModelDownload` bytes come in units marked with the version of the artifact they were
read from, so that a part file can mix two versions as a real one can; `HashMatches` is
the digest. `part` is the file as the process sees it, `disk` what was synced of it, `cp`
the row of `model_download_artifacts`, `dl` the state of the row of `model_downloads`,
`inst` the step of the install thread, `tries` and `cancel` the attempt counter of
`ensure_model_installed` and the operation's flag. When the process dies the next start
finds the part as it was written, synced or not; a power loss keeps any prefix between the
synced and the written bytes. In the run `download` such a death and the start after it
are one step (`Restart`), in `ModelStore` they are two. `StorageFails` is a call on the part
or its checkpoint that fails, `RecordFails` the failure of the statement that would put the
row into its next state.

`ModelStore` adds what happens to a verified artifact. `dir` is the final bundle directory
with the deletion markers in it, `trash` the trees in `trash/` (each as the set of its
markers), `staged` a tree in `staging/`; `del` is the deletion in progress, `user` the step
of each execution lease (counted, row read, files opened), `phase` the step of the start
of the program, which goes through trash, downloads, staging, deleting rows, rows and
unrecorded directories in the code's order. `qualified_at` values are stamps, because the
code tells one lease of a deletion from another by them.

Simplifications: one artifact and one bundle (bundles are independent but for the lease
registry, which is per model); one failing call per run of the program, at any step of an
install or a deletion; a failing call of a start ends that start, which is a crash in the model; any number of
crashes and of damage while the program does not run; a model of speech recognition and
the detector share one cancellation flag in the code, one of them is modelled. The failing call is remembered in `faulted`, because the properties
depend on which one it was: `record` is a statement that was to put the row of the
download into its next state, or the look that decides which state that is
(`install.rs:144`, `:153`, `download.rs:267`, `:270`, `:282` and those that record a failure
or a success). The code returns such an error with `?` and leaves the row busy (finding 12).
Deletion and qualification have no caller in the user interface yet; they are modelled from the
service functions. Three behaviours the model shows are accepted by its properties and
named here: the recovery of an install that failed late ignores the lease registry; the
bundle of a deletion that a start took back is validated only by the next start; and an
install that is republished across a look and a deletion may leave a qualified row whose
directory is gone until the next start.

### AudioWindows

`rate`, `frames`, `total` are the source's sample rate, the decoded frames and the length
after resampling; `limit` is the duration in the chunk's row, from host times for a
recording (`RecordedDuration`) and absent for an import. `detected` are the cores of the
detector, `cursor` and `windows` the locals of `partition_core`, `utterances` its result,
`heard` how far transcription got, `segments` what is published. Energies are not
modelled: `Boundaries` is the set of positions the search may select, and any of them may
be the quietest.

### AudioImport

`file` says under which kind of name the bytes of an import are (temporary, final,
tombstone of a clean-up), `whole` whether they are those that were hashed, `may` under
which names a loss of power may leave them: a rename adds a name, `SyncDirectory` leaves
the present one. `old` are the files older than the grace period. `row` is the integrity
state in `chunks`, `job` the imports with a job in whatever state. `step`, `cur`, `todo`
and `stale` belong to the main thread: import commands run there one after the other, and
the start of the program before them. `damaged` (touched by an outsider at any time),
`drift` (touched since the row was written), `misread` and `excused` (a call failed or an
outsider acted since the start began) are history variables for the properties.

Every call may fail, those of a clean-up too; a failing clean-up may leave the file under
either name. A validation at the start that cannot open or read a file, or look at its
directory again, calls the row corrupted whatever the file is, as the design says
(`docs/superpowers/specs/2026-08-15-lifesub-real-asr-design.md:289`), and the start goes
on; `misread` are the imports this happened to last, so that `IntegrityIsKnown` can say that
nothing else makes a row untrue. An id is used again only when no trace of it is left, as a random one would
be. Session row and chunk row are one transaction. The names of native captures belong to
`Sealing`. The check of one chunk on request (`verify_chunk`) has no caller in the program.

## 3. Runs

| Run | Instance | Shows |
|---|---|---|
| `claims` | 3 jobs of one chunk, two of them twins of one fingerprint, 2 boots, 2 attempts, 2 revisions by hand | the table's invariants, fencing, append-only evidence, refinement of `Transcripts` |
| `worker_safety` | 2 jobs, 2 boots, every result of an inference, catalog faults, one backward clock step | the worker never forgets a running row and never waits for a superseded inference |
| `worker_live` | 2 jobs of one chunk, 2 boots | queued jobs are served, cancels take effect, old claims are taken back, a shutdown ends |
| `sealing` | 2 chunks, 4 requests: the right one, one with other bytes, one of an unregistered source, one for the other chunk that names the same slot; every request repeated | the safety of sealing, the refinement of `ChunkLife`, and that repeated requests recover from whatever trouble leaves |
| `commit` | 2 chunks, 2 sessions | jobs only for registered chunks, no gap in the numbers of a source |
| `capture` | both sources, 2 device changes, 1 burst of audio, 2 pauses or resumes, bursts of 1 recovery | stopped means durable, both sides agree at rest, recoveries are never protocol errors, calls return |
| `download` | 3 units, 2 versions, 3 attempts, failing calls, restarts | a verified checkpoint is the right artifact; the operation ends |
| `store` | 1 unit, 1 attempt, 1 user, 3 stamps, one failing call per life of the program | leased bundles stay, a download is left busy by no failing call but the one that records its state, failed deletions are undone, a start repairs everything |
| `store_refused` | as `store` | finding 1: a start that is refused for good |
| `windows` | rates 4, 6 and 9 against a working rate of 6, up to 2 cores at 6 marks, windows of 9 samples | windows cover the speech and fit the provider, checks never fire, times are sound, the thread ends |
| `windows_fits` | rate 6, a clock that agrees with the samples | finding 2: a recording that is refused for its length |
| `import` | 2 imports | registered bytes are kept and rows are true of them, but for a file the start could not read, through failures, crashes, power losses and outsiders; no start is refused for leftovers |

`AsrWorkerQueue.cfg` (with `MCAsrWorker`) and `CaptureOrphan.cfg` (with `MCCaptureCommit`)
are two more configurations in which TLC finds the behaviours of findings 3 and 6;
`NeverQueuedForever` and `OrphanIsRecovered` are the statements they refute.
`UnavailableInputFailsJob` and `OneResidentModel` state the same for findings 4 and 5.
The runs of `AsrWorker`, `CaptureControl`, `AudioImport`, `CaptureCommit` and `ModelStore`
do not spend an invariant on types; those of the first two are theorems
(`WorkerTypeCorrect`, `ControlTypeCorrect`), and what the other proofs need of the types
is part of their inductive invariants.

### Bounds

*Job table.* Three jobs are enough for every race the table knows: the claim compares a
row with "some other running row", the unique index compares twins, tokens of one job are
compared with its own row. Two attempts instead of three keep the boundary
(`attempts >= MaxAttempts`) and shorten the way to it. `RetryCap` bounds the generations a
user opens by hand, `EditCap` the revisions of a session; both are only reached by users.
The twins and the boots are interchangeable (`MCAlike`). `MaxBoots = 2` has a crash
between any two steps of the worker and a whole second life after it.

*Sealing.* The files of two chunks never interact; two chunks are needed for the slot,
which is unique in the catalog, and for a session that goes on after a failed chunk. A
chunk is recorded and lost at most once, so the behaviours need no bound. Requests are
four because one can differ from the right one in its bytes, its source or its slot.

*Capture.* Two device changes give a change during a recovery, which is the case the
generations exist for, and with `BurstLimit = 1` also a burst over its limit; two toggles
give a pause and a resume, each of which may cross a recovery. The worker takes one control
message per turn of its loop and callers are serialised, so the channel never holds more
than one.

*Download.* Three units allow a checkpoint strictly inside a part strictly inside the
artifact. Two versions give a mixed file. Three attempts are the code's.

*Store.* One unit suffices because `download` covers the partial ones. Three stamps tell
the row, the deletion's lease and a stale marker apart; a publication waits for a free
one. One user shows every order of its three steps and a deletion's; a second one would
only hold another lease.

*Windows.* The code's constants (16 kHz, windows of 25 s, padding of 200 ms) are scaled down so
that all orders between core, padding, search radius and window occur: cores that fit,
that need one and several cuts, at both ends of the audio. `Marks` are the positions
around those borders. The rates are below, at and above the working one and no multiple of it.

*Import.* Two imports: one that is registered while the other fails or is swept. Nothing
else is bounded; the run has about 4.2 million distinct states.

### Fairness

`worker_live`: the worker thread is scheduled, an inference ends, a cancelled inference
notices its flag at the next window, a retry delay passes. These are the OS scheduler and
the clock; users, faults, restarts and shutdowns get none. A lease lapses, under fairness,
only while the worker waits for no inference: while it waits it polls every 200 ms and
renews every 5 s, and no lease of 30 s has to lapse. Each liveness property exempts a
worker that has stopped, because the code never restarts one. The clock does not step back
in this run: with one step back the worker may leave a running row that a recovery takes
for live and the queue waits for the next start (`NoOrphanClaim` states that proviso).

`sealing` (`ReplaySpec`): the steps of a call and of a start are run, and every request is
repeated, with strong fairness because a request waits for the call in progress. Tests of
`seal.rs` repeat requests, the program does not (finding 6). `calm` ends trouble at a
moment of the checker's choice, or never.

`capture`: the worker thread and the helper's tasks run, that is, calls of the audio system
and the permission prompt return. Users, audio, devices and crashes get no fairness. A
helper that dies closes the pipe, which the worker sees.

`download`: the install thread runs, and the HTTP client's timeouts end a request or a
read that does not come back. `windows`: the inference thread runs; a source has an end.

Deadlock is checked wherever a behaviour cannot come to rest. It is not in `claims`,
`worker_*`, `capture` and `windows*`, where all work may be done: every job settled and
every cap reached, a session over, a chunk published or failed.

## 4. Proofs

Every theorem holds for every value of the constants that satisfies the named assumption
of its module, which TLC evaluates in the runs: `TableAssumption`, `WorkerAssumption`,
`SealingAssumption`, `CommitAssumption`, `HelperAssumption`, `ControlAssumption`,
`DownloadAssumption`, `StoreAssumption`, `WindowAssumption`, `StrangerAssumption`. They say
that functions have their types, that numbers are natural (a window longer than its
paddings, a burst limit of at least one), that a capture asks for at least one of its two
sources, and that null values are in no other set. `WorkerAssumption` also says that the
process has one worker, which is how `AppState` starts it. No bound of a run (boots,
toggles, device changes, frames) is fixed by an assumption: the proofs hold for all of
them.

Every safety invariant and every action property that a passing run checks is also a
theorem, and so are the refinements of `Transcripts` (by `AsrClaims` and by `AsrWorker`) and
of `ChunkLife` (by `Sealing`). The arguments, module by module:

**`JobTable_proofs`** speaks of the transactions, whoever calls them. `TableInv` is the
conjunction of the table's promises and of `AbsentIsFresh` (a row that was never inserted
has generation 0); `TableKept` says every transaction keeps it. No conjunct is inductive
alone: `OneClaimAtATime` is kept by a claim only because every running row has an owner
(`OwnedIffRunning`), which `claim_asr_job` tests; `ReceiptIffSucceeded` is kept by a
publication only because the row of a live claim has no receipt. Most transactions rewrite
one row without making it active: `OneRowStep` covers them. `Recover` rewrites many rows
in one transaction and is proved by itself. `EvidenceKept` says no transaction takes
evidence back. `TableRefines` maps each transaction to one step of `Transcripts` or none: a
row maps to the phase a user sees; claims, renewals, lapses and requeues map to no step. A
recovery may rewrite several rows while `Transcripts` changes one request at a time: by
`OneClaimAtATime` at most one row is stale.

**`AsrClaims_proofs`.** Every step of every coordinator is a transaction of the table
(`StepsOfTable`), so the invariants, `Finality` and `Refinement` come from there. What
remains is about tokens: `TokensFence` needs that no token is ahead of its row, and
`Fencing` says a lost claim stays lost, with a clock that does not step back.

**`AsrWorker_proofs`.** The worker's steps are transactions too, with a clock that may step
back, so that a lapsed lease may return; the promises of the table and the refinement hold
all the same. For the worker itself `WorkerInv` adds: a claim in use is the row's
(`ClaimIsHeld`: nobody but the worker takes it away, only its lease may have lapsed);
owners are of this boot or earlier (`NoFutureOwner`); and on the way to a recovery, where
`NoOrphanClaim` says nothing, every running row the worker does not hold is lapsed or of an
earlier boot (`NoForgottenRow`), which is exactly what the recovery takes back. The many
branches of the worker's loop are of seven kinds (`Kinds`: carry on, settle the row, find
the claim lost, stop, claim, announce, recover), and the invariant is proved once per
kind.

**`Sealing_proofs`.** The properties speak of every state in `disk`; none is inductive.
`Inv` adds what the sealer knows at each step about all of those states (`Known`): from
`lookup` on that the disk agrees with what it sees of its chunk's name and intent, from
`check` on that the intent is on the disk, from `insert` on that the audio is. Each of
these is brought about by one `sync` in the code, and the proof of `SyncInv` is where they
are used. `Orphans` relates every unregistered final file to its intent and, unless its
seal is under way, to a report of trouble.

The refinement is `ChunkPromiseKept`. A step that changes no row and deletes nothing is a
step of `ChunkLife` by `Inv` alone (`OutageRefines`); an insertion and a deletion are one
each. That nothing else deletes needs a second invariant (`Deleted`): a power loss does not
bring deleted audio back, and what is published was in the staging directory.

The last part is about `CaptureCommit`. By `CaptureKeepsSealing` every step of the capture
worker is a step of `Sealing` or a stutter, so all of the above holds of the program's own
calls. On top of it `CommitInv` is inductive: every chunk the running session has numbered
is registered, but for the one whose seal is under way (`Front`), which is the one numbered
last (`Underway`). That gives `NoGapInSession`, because an error ends the session before
another number is given, and `QueuedIsRegistered`, because rows only grow (`RowsGrow`).

**`CaptureControl_proofs`** has two processes and the pipes between them. A step of the
helper enters the arguments through what it writes: it appends events and counts the
chunks among them (`Wrote`). Three results build on that.

- `StopIsDurable` is counting. `Ledger`: for each source, the chunks that were committed
  and those still in the pipe are the ones the helper sealed, and the end of a source
  stands behind every chunk it counts. When the last end has been heard, nothing it counts
  can be in the pipe any more. `StopInv` adds that an answer "saved" comes from a worker
  that exited in phase `Stopped`.
- `RecoveriesAreAccepted` is order. What the session knows of the last recovery (`Told`)
  and the events in the pipe form one line (`Line`), in which `recovering` and `recovered`
  alternate with growing generations (`Alternates`), and the last of them says how far the
  attempt in the helper is (`Fits`): the next event the attempt can write follows it. The
  line stays as it is when an event is read, because it moves from the pipe to what was
  told. `Starting`, `StartedFirst` and `Fresh` have no recovery before the microphone is
  announced, `Unstopped` and `Untoggled` say until when all of this is promised.
- `AgreementAtRest` is about the last command. It is in the pipe, being executed or done,
  and the phase the user sees is the one it stands for (`Steered`); each source is announced
  exactly once (`Announced`), so that `Running` with an empty pipe means all were; and until
  a terminal event is on its way, what recovers is a microphone that runs (`StillRuns`). That
  no source is left `Recovering` at rest then follows from the line above: with nothing in
  the pipe its last event is what the session was told, and an attempt that is over fits
  only `recovered`.

**`ModelStore_proofs`.** For the download, `VerifiedIsWhole` is inductive with one more fact:
nothing is verified while a response is asked for or read (`Whole`). Between a crash and
the start after it `VerifiedIsWhole` does not hold: a part that an earlier crash left
unsynced may be hashed, called verified and then lost with the power. It is the start that brings
both to the smaller length (`Cut`) and believes the checkpoint only after hashing, so that
the store's theorem speaks of a program that runs.

For the store, `StoreInv` says what each actor may rely on while the others go on: `Quiet`
for the install operation (idle and busy only after a `record` fault), `Undoing` for a deletion (one that cannot put the tree back,
because a new bundle has taken its place, leaves the row to the publication of that bundle,
which cannot fail as well), `Held` for the users of the bundle, `Starting` for the start of
the program: what its earlier steps have settled, which is why the order of the code's
steps matters. From it follow `LeasesAreRespected`, `DownloadsSettle`, `DeletesAreUndone`
and the action property `StartupsReconcile`. That one call at most fails per run of
the program is the model's simplification (section 2), and the proof of `Undoing` uses it.

**`AudioWindows_proofs`.** `Inv`: the windows cut so far tile the core up to the cursor
and fit the provider (`Cut`), and finished utterances are the detected cores in order.
`LatestSafeInside` is the arithmetic behind it: when a core does not fit, there is an
eligible boundary after the cursor that leaves room for the padding; without the padding
in `LatestSafe` it would not. `NeverRefusesValidAudio` also bounds the decoded frames
(`Budget`). `TimesAlwaysSound` is about rounding: a start is rounded down and an end up, so
two segments share at most a millisecond (`RoundedInOrder`), and the end of the resampled
audio, which is rounded up to samples and again to milliseconds, is the length of the
source rounded up once (`CeilOfCeil`,
`DecodedLength`).

**`AudioImport_proofs`.** `Inv` says what the main thread knows at each step: a file that
is being imported has no row until it is renamed and synced (`ImportKnows`), a clean-up
works on a file no intact row refers to (`CleanKnows`), a start that nothing has disturbed
finds only names of imports (`SweepKnows`), rows that were validated are true of
the disk or were `misread` (`RowsKnow`), entries that were swept are gone (`OrphansKnow`). `RecordsAreKept` follows
from the part of it that speaks of `may`: after the sync, the final name is the only one a
power loss can leave. There is one lemma per action, and in it one step per conjunct.

Only model-checked: what must happen in the end. `QueuedIsServed`, `CancelIsHonoured`,
`OldClaimsAreRecovered` and `ShutdownJoins` of the worker, `ReplayConverges` of the sealing,
`CallsReturn` of a capture, `InstallEnds` and `ThreadEnds` are liveness under fairness,
which rests on `ENABLED` and is beyond the prover. So are, by their nature, the two runs
that show a violation.

## 5. Reading the mutants

Beside the operators of the modules stand a few marked "Mutant": the same operator with a
plausible mistake in it (a dropped guard, a missing reset, a sync left out). No
specification uses them. Putting one in the place of the operator it imitates makes TLC
find a violation of the property listed with it in `PROJECT.json`.

## 6. Findings

With a run that shows them:

1. `store_refused`: a crash between the end of a deletion's transaction and the removal
   of its tree leaves a marked tree that no row explains; every later start of the program
   is refused (`asr/model_manager/anchored_reconcile.rs:688`), although the notes say the
   startup reconciliation handles what a deletion leaves in trash.
2. `windows_fits`: the end of a segment is rounded up, the duration of a recording down
   (`asr/native_engine.rs:274`, `capture/committer.rs:77`); without a detector a recording
   whose length is no whole millisecond is refused as exceeding its chunk. In the trace
   seven samples at three a millisecond have a duration of 2 and a segment that ends at 3; a
   duration of 0 is refused before the inference (`catalog/job_snapshot.rs:146`).

Met while modelling; 3 to 6 are also stated as formulas of `AsrWorker` and `CaptureCommit`
(section 3) that the models refute:

3. `asr/worker.rs:39` says the fail-closed engine never leaves work queued forever. A
   cancel or a lapsed lease met by `fail` is returned as an error, which ends the thread.
4. The design has active jobs of a chunk that stops being available become
   `failed/input_unavailable`; only running ones do (`catalog/chunks.rs:122`).
5. The design has one worker so that no two large models are resident; a cancelled
   inference is not joined before the next one starts (`asr/native_engine.rs:76`).
6. The handoff of the native capture says startup reconciliation covers the crash windows
   of the rename and native orphans. A start skips orphans with native names, nothing
   replays the intents, and the committer never repeats a request.
7. An empty set of cores is accepted, which the design excludes (`asr/vad.rs:329`).
8. Segments of adjacent cores may overlap by a millisecond, which the plan excludes
   (`asr/native_engine.rs:272`); `TimesAreSound` has the bound that holds.
9. A digest that differs is reported as unavailable input, not as
   `input_integrity_failed` (`asr/native_engine.rs:342`).
10. A device change while a capture is starting is dropped; the plan has its recovery wait
    for the start (`MicrophoneCapture.swift:230`).
11. Three departures of the local API from its design: keys are not compared with
    their fingerprint and method (`api/idempotency.rs:41`), a claim left in progress is
    never resolved (`api/dispatch.rs:699`), every page of a search is the first
    (`api/dispatch.rs:375`).
12. A statement that fails to put a download's row into its next state, or the look at the
    final directory that decides it, leaves the row busy without an operation
    (`asr/model_manager/install.rs:144`, `:153`, `download.rs:267`, `:270`, `:282`): the unique
    index then refuses every install of the model until the program is started again.
    `DownloadSettles` says that no other failing call does.
13. A file the start of the program fails to read for a moment makes an untouched recording
    corrupted until a later start reads it (`service/audio_store.rs:377`). The design wants
    unreadable files marked so; nothing tells the two apart or looks again.

## 7. Status and order of the work

The modules were written in the order of the risk they cover: the job table with its
worker, sealing with the committer, capture coordination with the helper, the model store,
the audio windows, imports. Each was checked first and proved about where the argument is
an invariant that does not depend on the size of the instance.

What would come next: a composition of sealing, enqueueing and the job table, so that what
is queued is shown to be transcribed or failed in the end; the local API once the program
constructs it.

## 8. Not modelled

- **Local API.** The dispatcher is constructed by tests only, and its mutations insert an
  `operations` row that nothing executes; a model would describe intentions. Its
  departures from the design are finding 11.
- **Bundles of several artifacts, archive extraction, the smoke run of a qualification.**
  Validation of input and the orchestration of a subprocess; a bundle is one artifact.
- **The validation before an enqueue and the reservation of fingerprints in memory.** The
  unique index, which is modelled, decides; the reservation only answers earlier.
- **Frames, authentication and version negotiation of the helper's pipes; the acquisition
  of lock files; the anchored VFS.** System I/O and checks of input without state.
- **Migrations and model manifests.** Data, applied or checked once before anything else.
- **Bindings to inference libraries, receipts, resampling arithmetic, energies.** Pure
  computation; lengths, boundaries and times are modelled, samples are not.
- **Diagnostics, quick input, polish, CRUD of notes, dictionary and voiceprints, the
  React interface.** No state of their own beyond single statements.
