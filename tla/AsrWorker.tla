------------------------------ MODULE AsrWorker ------------------------------
(***************************************************************************)
(* The one worker thread of the desktop process (asr/worker.rs over the    *)
(* JobCoordinator of asr/job.rs), its inference thread (native_engine.rs)  *)
(* and the rest of the application: users who enqueue, cancel and retry,   *)
(* audio files that are re-verified, a wall clock that may be set back, a  *)
(* process that is shut down or crashes and starts again.  Every SQL       *)
(* transaction is one step; the thread's place between two transactions is *)
(* pc.  Boots are 1, 2, ...: each start of the process draws a new id.     *)
(***************************************************************************)
EXTENDS JobTable

CONSTANTS
    Me,               \* the worker id, "desktop-worker"
    NoClaim,          \* JobCoordinator.active is None
    Native,           \* TRUE: the native engine; FALSE: the fail-closed one
    Results,          \* what an inference may end with
    Faults,           \* may a catalog call of the worker fail with an I/O error?
    MaxBoots,         \* bound of the model: starts of the process
    MaxAdjustments    \* bound of the model: backward steps of the wall clock

ASSUME WorkerAssumption ==
    /\ MaxBoots \in Nat \ {0} /\ Boots = 1 .. MaxBoots /\ Workers = {Me}
    /\ NoClaim \notin Token
    /\ Native \in BOOLEAN /\ Faults \in BOOLEAN
    /\ Results \subseteq {"speech", "silence", "oversized", "failure"}
    /\ MaxAdjustments \in Nat

VARIABLES
    pc,               \* where the worker thread is
    claim,            \* JobCoordinator.active: a token or NoClaim
    run,              \* the inference the worker waits for: "none", "busy" or its result
    leftover,         \* is a cancelled inference thread still in memory?
    boot,             \* the current boot
    shutdown,         \* the flag AppState raises before it joins the worker
    adjustments       \* backward clock steps so far

thread == <<pc, claim, run, leftover>>
process == <<boot, shutdown, adjustments>>
vars == <<table, thread, process>>

Init ==
    /\ TableInit
    /\ pc = "start" /\ claim = NoClaim /\ run = "none"
    /\ leftover = FALSE
    /\ boot = 1 /\ shutdown = FALSE /\ adjustments = 0

Goto(from, to) == pc = from /\ pc' = to

\* Mutant: the run stays in the worker's hands.
AbandonLate == UNCHANGED <<run, leftover>>

\* The worker stops waiting for its inference: run.cancel() and the drop of the
\* run raise a flag, they neither stop nor join the inference thread.
Abandon == run' = "none" /\ leftover' = (leftover \/ run = "busy")

KeepRun == UNCHANGED <<run, leftover>>
KeepClaim == UNCHANGED claim
DropClaim == claim' = NoClaim

-----------------------------------------------------------------------------
(* run_until_shutdown and run_once up to the claim.                        *)

\* Mutant: the worker stops only once the queue is empty.
QuitWhenDrained ==
    /\ pc \in {"start", "head"} /\ shutdown /\ claim = NoClaim /\ ready = <<>>
    /\ pc' = "stopped"
    /\ KeepRun /\ KeepClaim /\ UNCHANGED table

Quit ==
    /\ pc \in {"start", "head"} /\ shutdown /\ claim = NoClaim
    /\ pc' = "stopped"
    /\ KeepRun /\ KeepClaim /\ UNCHANGED table

\* Mutant: no recovery at the start.
StartUnrecovered ==
    /\ Goto("start", "head") /\ ~shutdown
    /\ KeepRun /\ KeepClaim /\ UNCHANGED table

\* The recovery of the first iteration.
Start ==
    /\ Goto("start", "head") /\ ~shutdown
    /\ Recover(boot)
    /\ KeepRun /\ KeepClaim

\* The last look at the flag before a claim.
Iterate ==
    /\ Goto("head", "claim")
    /\ ~(shutdown /\ claim = NoClaim)
    /\ KeepRun /\ KeepClaim /\ UNCHANGED table

\* claim_next with a claim in hand returns that claim.
KeepOldClaim ==
    /\ Goto("claim", "claimed") /\ claim # NoClaim
    /\ KeepRun /\ KeepClaim /\ UNCHANGED table

ClaimNext ==
    /\ Goto("claim", "claimed") /\ claim = NoClaim
    /\ \E j \in Jobs : Claim(<<boot, Me>>, j) /\ claim' =
          [job |-> j, owner |-> <<boot, Me>>, generation |-> job[j].generation + 1]
    /\ KeepRun

Idle ==
    /\ Goto("claim", "head") /\ claim = NoClaim
    /\ NothingClaimable
    /\ KeepRun /\ KeepClaim /\ UNCHANGED table

-----------------------------------------------------------------------------
(* The execution snapshot, its checks in the order of into_snapshot.       *)

SnapshotVerdict(stage) ==
    IF ~Owns(claim) \/ job[claim.job].state # stage THEN "lost"
    ELSE IF job[claim.job].cancel THEN "cancel"
    ELSE IF job[claim.job].lease # "live" THEN "lost"
    ELSE IF ~InputAvailable(claim.job) THEN "unavailable" ELSE "ok"

\* Where a verdict other than "ok" sends the worker.
Detour(stage) ==
    CASE SnapshotVerdict(stage) = "cancel" -> "acknowledge"
      [] SnapshotVerdict(stage) = "unavailable" -> "fail"
      [] OTHER -> "recover"

\* The snapshot is good; the native engine only copies it when it prepares,
\* the fail-closed one refuses every job.
PrepareJob ==
    /\ Goto("claimed", IF Native THEN "enter" ELSE "fail")
    /\ SnapshotVerdict("preparing") = "ok"
    /\ KeepRun /\ KeepClaim /\ UNCHANGED table

PrepareDetour ==
    /\ Goto("claimed", Detour("preparing"))
    /\ SnapshotVerdict("preparing") # "ok"
    /\ KeepRun /\ KeepClaim /\ UNCHANGED table

-----------------------------------------------------------------------------
(* enter_transcribing and fail: a renewal, then the mutation.  A cancel    *)
(* request met on the way is acknowledged and the error still leaves       *)
(* run_until_shutdown; so does a lost claim.                               *)

EnterRenew ==
    /\ Goto("enter", "mark")
    /\ Renew(claim)
    /\ KeepRun /\ KeepClaim

\* The start of the inference thread cannot fail and touches nothing shared.
StartInference ==
    /\ Goto("mark", "running")
    /\ MarkTranscribing(claim)
    /\ run' = "busy"
    /\ KeepClaim /\ UNCHANGED leftover

FailRenew ==
    /\ Goto("fail", "fail_mark")
    /\ Renew(claim)
    /\ KeepRun /\ KeepClaim

FailMark ==
    /\ Goto("fail_mark", "head")
    /\ Fail(claim)
    /\ Abandon /\ DropClaim

\* handle_running_result.
RefusedByCancel ==
    /\ pc \in {"enter", "mark", "fail", "fail_mark"} /\ pc' = "die"
    /\ CancelSeen(claim)
    /\ Abandon /\ KeepClaim /\ UNCHANGED table

RefusedByLoss ==
    /\ pc \in {"enter", "mark", "fail", "fail_mark"} /\ pc' = "stopped"
    /\ OwnershipLost(claim)
    /\ Abandon /\ DropClaim /\ UNCHANGED table

AcknowledgeAndDie ==
    /\ Goto("die", "stopped")
    /\ (AcknowledgeCancel(claim) \/ (OwnershipLost(claim) /\ UNCHANGED table))
    /\ Abandon /\ DropClaim

-----------------------------------------------------------------------------
(* observe_running: a renewal when it is due, else a fresh snapshot.       *)

Observing == pc = "running" /\ run = "busy"

RenewRunning ==
    /\ Observing /\ Renew(claim)
    /\ KeepRun /\ KeepClaim /\ UNCHANGED pc

RenewSeesCancel ==
    /\ Observing /\ CancelSeen(claim) /\ pc' = "acknowledge_renewal"
    /\ KeepRun /\ KeepClaim /\ UNCHANGED table

RenewFindsLoss ==
    /\ Observing /\ OwnershipLost(claim) /\ pc' = "recover"
    /\ Abandon /\ DropClaim /\ UNCHANGED table

ObserveDetour ==
    /\ Observing /\ SnapshotVerdict("transcribing") # "ok"
    /\ pc' = Detour("transcribing")
    /\ Abandon /\ KeepClaim /\ UNCHANGED table

\* Mutant: the lost claim is dropped without a recovery.
AcknowledgeRenewalLoosely ==
    /\ pc = "acknowledge_renewal" /\ pc' = "head"
    /\ AcknowledgeCancel(claim) \/ (OwnershipLost(claim) /\ UNCHANGED table)
    /\ Abandon /\ DropClaim

\* acknowledge_cancel inside renew_if_due: a lost claim leads to recovery.
AcknowledgeRenewal ==
    /\ pc = "acknowledge_renewal"
    /\ \/ AcknowledgeCancel(claim) /\ pc' = "head"
       \/ OwnershipLost(claim) /\ UNCHANGED table /\ pc' = "recover"
    /\ Abandon /\ DropClaim

\* acknowledge_cancel anywhere else: a lost claim ends the worker.
Acknowledge ==
    /\ pc = "acknowledge"
    /\ \/ AcknowledgeCancel(claim) /\ pc' = "head"
       \/ OwnershipLost(claim) /\ UNCHANGED table /\ pc' = "stopped"
    /\ Abandon /\ DropClaim

-----------------------------------------------------------------------------
(* The end of a run and the publication of its result.                     *)

Ended(result) == pc = "running" /\ run = result

InferenceFailed ==
    /\ Ended("failure") /\ pc' = "fail"
    /\ Abandon /\ KeepClaim /\ UNCHANGED table

PublishSpeech ==
    /\ Ended("speech") /\ pc' = "announce"
    /\ Publish(claim, TRUE)
    /\ Abandon /\ KeepClaim

PublishSilence ==
    /\ Ended("silence") /\ pc' = "recover"
    /\ Publish(claim, FALSE)
    /\ Abandon /\ KeepClaim

\* A segment beyond the recorded duration of the chunk: the transaction is
\* rolled back and the error ends the worker.
PublishRejected ==
    /\ Ended("oversized") /\ pc' = "stopped"
    /\ MayPublish(claim)
    /\ Abandon /\ DropClaim /\ UNCHANGED table

PublishRefused ==
    /\ run \in {"speech", "silence", "oversized"} /\ pc = "running"
    /\ ~MayPublish(claim)
    /\ pc' = IF CancelSeen(claim) THEN "acknowledge" ELSE "recover"
    /\ Abandon /\ KeepClaim /\ UNCHANGED table

\* The publication callback, after the commit.
Announce ==
    /\ Goto("announce", "recover")
    /\ KeepRun /\ KeepClaim /\ UNCHANGED table

\* JobCoordinator.recover: the claim is forgotten unless the row still has it.
RecoverClaim ==
    /\ Goto("recover", "head")
    /\ Recover(boot)
    /\ claim' = IF claim # NoClaim /\ Owns(claim) /\ job'[claim.job].state \in Running
                THEN claim ELSE NoClaim
    /\ KeepRun

\* Any other error of a catalog call ends the worker ...
WorkerFault ==
    /\ Faults /\ pc \notin {"head", "announce", "stopped"} /\ pc' = "stopped"
    /\ Abandon /\ DropClaim /\ UNCHANGED table

\* ... but a snapshot that cannot be read, or read back, fails the job.
SnapshotUnreadable ==
    /\ Faults /\ (pc = "claimed" \/ Observing) /\ pc' = "fail"
    /\ Abandon /\ KeepClaim /\ UNCHANGED table

-----------------------------------------------------------------------------
WorkerStep ==
    \/ Quit \/ Start \/ Iterate \/ KeepOldClaim \/ ClaimNext \/ Idle
    \/ PrepareJob \/ PrepareDetour
    \/ EnterRenew \/ StartInference \/ FailRenew \/ FailMark
    \/ RefusedByCancel \/ RefusedByLoss \/ AcknowledgeAndDie
    \/ RenewRunning \/ RenewSeesCancel \/ RenewFindsLoss \/ ObserveDetour
    \/ AcknowledgeRenewal \/ Acknowledge
    \/ InferenceFailed \/ PublishSpeech \/ PublishSilence \/ PublishRejected
    \/ PublishRefused \/ Announce \/ RecoverClaim

Worker == WorkerStep /\ UNCHANGED process

Fault == (WorkerFault \/ SnapshotUnreadable) /\ UNCHANGED process

EngineFinishes ==
    /\ run = "busy" /\ run' \in Results
    /\ UNCHANGED <<table, process, pc, claim, leftover>>

LeftoverExits ==
    /\ leftover /\ leftover' = FALSE
    /\ UNCHANGED <<table, process, pc, claim, run>>

-----------------------------------------------------------------------------
(* The rest of the application.                                            *)

Users ==
    /\ \/ \E j \in Jobs : Enqueue(j) \/ InsertBlocked(j) \/ InsertFailed(j)
                          \/ RequestCancel(j) \/ Retry(j)
       \/ \E c \in Chunks : \E v \in {"available", "unavailable"} : ChunkVerdict(c, v)
       \/ \E s \in Sessions : SaveManualRevision(s)
    /\ UNCHANGED <<thread, process>>

DelayPasses == \E j \in Jobs : BecomesDue(j) /\ UNCHANGED <<thread, process>>

LeasePasses == \E j \in Jobs : LeaseLapses(j) /\ UNCHANGED <<thread, process>>

ClockStepsBack ==
    /\ adjustments < MaxAdjustments
    /\ \E j \in Jobs : LeaseReturns(j)
    /\ adjustments' = adjustments + 1
    /\ UNCHANGED <<thread, boot, shutdown>>

Shutdown ==
    /\ ~shutdown /\ shutdown' = TRUE
    /\ UNCHANGED <<table, thread, boot, adjustments>>

\* The process ends at any point and is started again: the catalog survives,
\* the threads and the flag do not, the boot id is new.
Restart ==
    /\ boot < MaxBoots /\ boot' = boot + 1
    /\ pc' = "start" /\ claim' = NoClaim /\ run' = "none"
    /\ leftover' = FALSE /\ shutdown' = FALSE
    /\ UNCHANGED <<table, adjustments>>

Next ==
    \/ Worker \/ Fault \/ EngineFinishes \/ LeftoverExits
    \/ Users \/ DelayPasses \/ LeasePasses \/ ClockStepsBack
    \/ Shutdown \/ Restart

Spec == Init /\ [][Next]_vars

\* The thread is scheduled, an inference ends, a cancelled one notices its flag,
\* delays pass; a lease passes only while nobody is there to renew it.
Fairness ==
    /\ WF_vars(Worker) /\ WF_vars(EngineFinishes) /\ WF_vars(LeftoverExits)
    /\ WF_vars(DelayPasses) /\ WF_vars(run = "none" /\ LeasePasses)

FairSpec == Spec /\ Fairness

-----------------------------------------------------------------------------
Places == {"start", "head", "claim", "claimed", "enter", "mark", "running", "announce",
           "recover", "acknowledge", "acknowledge_renewal", "fail", "fail_mark", "die",
           "stopped"}

TypeOK ==
    /\ TableTypeOK
    /\ pc \in Places
    /\ claim \in Token \cup {NoClaim}
    /\ run \in {"none", "busy"} \cup Results
    /\ leftover \in BOOLEAN
    /\ boot \in 1 .. MaxBoots /\ shutdown \in BOOLEAN
    /\ adjustments \in 0 .. MaxAdjustments

\* While the worker of this boot is alive, past its first recovery and not on the
\* way to another, a running row is the claim it holds: a running row it forgot
\* would block every later claim.  It takes a clock that is never set back.
NoOrphanClaim ==
    adjustments = 0 /\ pc \notin {"start", "recover", "stopped"} =>
        \A j \in Jobs : job[j].state \in Running => claim = TokenOf(j)

\* The worker waits for an inference only for the claim it holds, whose row no
\* other claim of the job has overtaken.
RunBelongsToClaim ==
    run # "none" =>
        /\ pc \in {"running", "acknowledge_renewal"}
        /\ claim # NoClaim /\ job[claim.job].generation = claim.generation
        /\ claim.owner = <<boot, Me>>

-----------------------------------------------------------------------------
Stopped == pc = "stopped"

\* A queued job whose audio is available is claimed, cancelled or settled unless
\* the worker has stopped: lapsed leases, other jobs' retries, crashes and clock
\* adjustments delay it but never starve it.
QueuedIsServed ==
    \A j \in Jobs :
        job[j].state = "queued" ~> (job[j].state # "queued" \/ ~InputAvailable(j) \/ Stopped)

\* A cancel of a running job ends in "cancelled" unless the worker has stopped.
CancelIsHonoured ==
    \A j \in Jobs : job[j].cancel ~> (job[j].state = "cancelled" \/ Stopped)

\* A claim left by an earlier start of the process is taken back.
OldClaimsAreRecovered ==
    \A j \in Jobs :
        (job[j].owner # NoOwner /\ job[j].owner[1] < boot)
            ~> (job[j].owner = NoOwner \/ job[j].owner[1] = boot \/ Stopped)

\* AppState's drop joins the worker: a shutdown ends it, whatever it was doing.
ShutdownJoins == shutdown ~> (Stopped \/ ~shutdown)

\* The comment of FailClosedEngine: it never leaves work queued forever.
NeverQueuedForever ==
    \A j \in Jobs :
        job[j].state = "queued" ~> (job[j].state # "queued" \/ ~InputAvailable(j) \/ shutdown)

\* The design: a job that is active when its chunk stops being available becomes
\* failed (input_unavailable).
UnavailableInputFailsJob ==
    \A j \in Jobs :
        (job[j].state \in Active /\ ~InputAvailable(j))
            ~> (job[j].state \notin Active \/ InputAvailable(j) \/ Stopped)

\* The design: one worker, so that two large models are never in memory at once.
OneResidentModel == ~(leftover /\ run = "busy")
=============================================================================
