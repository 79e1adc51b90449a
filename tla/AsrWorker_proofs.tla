-------------------------- MODULE AsrWorker_proofs --------------------------
(***************************************************************************)
(* Theorems about AsrWorker, for every set of jobs, chunks and sessions,   *)
(* either engine, any number of restarts and of backward clock steps.      *)
(*                                                                         *)
(* Every step of the process is a TableStep, so the promises of the job    *)
(* table, that evidence is final and the refinement of Transcripts come    *)
(* from JobTable_proofs: unlike AsrClaims, here a lapsed lease may return. *)
(*                                                                         *)
(* For the worker itself, WorkerInv relates pc, claim and the rows:        *)
(*   ClaimIsHeld     a claim in use is really the row's (only its lease    *)
(*                   may have lapsed): nobody but the worker takes it away; *)
(*   NoFutureOwner   the owners of rows are this boot or earlier ones;     *)
(*   NoForgottenRow  what NoOrphanClaim leaves open, on the way to a       *)
(*                   recovery: a row the worker forgot is lapsed or old,   *)
(*                   so that the recovery takes it back.                   *)
(* The steps of the worker fall into the few kinds defined below; each     *)
(* kind keeps WorkerInv.                                                   *)
(***************************************************************************)
EXTENDS AsrWorker, JobTable_proofs

\* Places where the worker has a claim in hand and acts on it.
Holding == {"claimed", "enter", "mark", "running", "acknowledge", "acknowledge_renewal",
            "fail", "fail_mark", "die"}

\* Places where a claim, if there is one, is still the row's.
Trusting == Holding \cup {"head", "claim"}

ClaimIsHeld ==
    /\ claim # NoClaim => claim.owner = <<boot, Me>>
    /\ pc \in Holding => claim # NoClaim
    /\ pc \in {"start", "stopped"} => claim = NoClaim
    /\ pc \in Trusting /\ claim # NoClaim => Owns(claim) /\ job[claim.job].state \in Running

NoFutureOwner == \A j \in Jobs : job[j].owner # NoOwner => job[j].owner[1] <= boot

NoForgottenRow ==
    adjustments = 0 /\ pc # "stopped" =>
        \A j \in Jobs :
            job[j].state \in Running /\ job[j].owner = <<boot, Me>> /\ job[j].lease = "live"
            => claim = TokenOf(j)

RunIsAwaited == run # "none" => pc \in {"running", "acknowledge_renewal"}

WorkerInv ==
    /\ TableInv
    /\ TypeOK
    /\ ClaimIsHeld
    /\ NoFutureOwner
    /\ RunIsAwaited
    /\ NoForgottenRow
    /\ NoOrphanClaim

\* The owner of a row of this process is <<its boot, Me>>.
LEMMA OwnersAreMine ==
    ASSUME WorkerAssumption, NEW o \in Owners
    PROVE  o[1] \in 1 .. MaxBoots /\ o = <<o[1], Me>>
  BY DEF WorkerAssumption, Owners

\* A claim in hand is a token that can be presented to the table.
LEMMA ClaimIsToken ==
    ASSUME WorkerInv, WorkerAssumption, pc \in Holding \/ claim # NoClaim
    PROVE  claim \in Token /\ claim.job \in Jobs /\ job[claim.job] \in Row
  BY DEF WorkerInv, TypeOK, TableTypeOK, ClaimIsHeld, Token

-----------------------------------------------------------------------------
(* The kinds of steps.                                                     *)

\* No row starts or stops running, and no running row changes its claim.
SameClaims ==
    \A k \in Jobs :
        /\ job'[k].state \in Running <=> job[k].state \in Running
        /\ job[k].state \in Running => /\ job'[k].owner = job[k].owner
                                       /\ job'[k].generation = job[k].generation

NoLeaseReturns == \A k \in Jobs : job'[k].lease = "live" => job[k].lease = "live"

\* The worker moves on with what it has.
Carries ==
    /\ SameClaims /\ NoLeaseReturns /\ claim' = claim
    /\ pc \in Trusting
    /\ pc' \in Trusting \cup {"recover"}
    /\ pc' \in Holding => claim # NoClaim

\* The row of the claim is settled.
Settles ==
    /\ pc \in Holding
    /\ job'[claim.job].state \notin Running
    /\ \A k \in Jobs \ {claim.job} : job'[k] = job[k]
    /\ \/ claim' = NoClaim /\ pc' \in {"head", "stopped"}
       \/ claim' = claim /\ pc' \in {"announce", "recover"}

\* The claim turns out to be lost.
Loses ==
    /\ pc \in Holding /\ OwnershipLost(claim)
    /\ UNCHANGED table /\ claim' = NoClaim
    /\ pc' \in {"recover", "stopped"}

Stops == UNCHANGED table /\ claim' = NoClaim /\ pc' = "stopped"

Claims ==
    /\ pc = "claim" /\ claim = NoClaim /\ pc' = "claimed"
    /\ \E j \in Jobs :
         /\ Claim(<<boot, Me>>, j)
         /\ claim' = [job |-> j, owner |-> <<boot, Me>>, generation |-> job[j].generation + 1]

Recovers ==
    /\ pc \in {"start", "recover"} /\ pc' = "head"
    /\ Recover(boot)
    /\ \/ claim = NoClaim /\ claim' = NoClaim
       \/ claim' = IF claim # NoClaim /\ Owns(claim) /\ job'[claim.job].state \in Running
                   THEN claim ELSE NoClaim

Announces == pc = "announce" /\ pc' = "recover" /\ claim' = claim /\ UNCHANGED table

Kinds == Carries \/ Settles \/ Loses \/ Stops \/ Claims \/ Recovers \/ Announces

-----------------------------------------------------------------------------
(* What the operations of the table do to the running rows.                *)

\* Nothing happens to the rows.
LEMMA SameRows ==
    ASSUME UNCHANGED job
    PROVE  SameClaims /\ NoLeaseReturns
  BY DEF SameClaims, NoLeaseReturns

\* A renewal and a mark keep the claims: a lease that is extended was live.
LEMMA RenewSame ==
    ASSUME TableInv, TableAssumption, NEW t \in Token, Renew(t) \/ MarkTranscribing(t)
    PROVE  SameClaims /\ NoLeaseReturns
  <1>1. t.job \in Jobs /\ job[t.job] \in Row /\ job \in [Jobs -> Row]
    BY DEF TableInv, TableTypeOK, Token
  <1>2. job[t.job].state \in Running /\ job[t.job].lease = "live"
    BY DEF Renew, MarkTranscribing, MayMutate, Holds
  <1>3. PICK row \in Row : /\ SetRow(t.job, row)
                           /\ row.state \in Running /\ row.owner = job[t.job].owner
                           /\ row.generation = job[t.job].generation
    <2>1. CASE Renew(t)
      <3>1. PICK row \in Row : row = [job[t.job] EXCEPT !.lease = "live"]
        BY <1>1, RowTypes
      <3>2. SetRow(t.job, row)
        BY <2>1, <3>1 DEF Renew
      <3>3. QED
        BY <1>1, <1>2, <3>1, <3>2 DEF Row
    <2>2. CASE MarkTranscribing(t)
      <3>1. PICK row \in Row : row = [job[t.job] EXCEPT !.state = "transcribing"]
        BY <1>1, RowTypes
      <3>2. SetRow(t.job, row)
        BY <2>2, <3>1 DEF MarkTranscribing
      <3>3. QED
        BY <1>1, <3>1, <3>2 DEF Row, Running
    <2>3. QED
      BY <2>1, <2>2
  <1>4. job'[t.job] = row /\ \A k \in Jobs \ {t.job} : job'[k] = job[k]
    BY <1>1, <1>3 DEF SetRow
  <1>5. QED
    BY <1>2, <1>3, <1>4 DEF SameClaims, NoLeaseReturns

\* The row of a claim that fails, acknowledges a cancel or publishes stops running.
LEMMA ReleaseEnds ==
    ASSUME TableInv, TableAssumption, NEW t \in Token,
           Fail(t) \/ AcknowledgeCancel(t) \/ \E speech \in BOOLEAN : Publish(t, speech)
    PROVE  /\ job'[t.job].state \notin Running
           /\ \A k \in Jobs \ {t.job} : job'[k] = job[k]
  <1>1. t.job \in Jobs /\ job[t.job] \in Row /\ job \in [Jobs -> Row]
    BY DEF TableInv, TableTypeOK, Token
  <1>2. PICK s \in Settled : Release(t.job, s)
    BY DEF Fail, AcknowledgeCancel, Publish, Settled
  <1>3. Released(job[t.job], s).state = s
    BY <1>1, <1>2, ReleasedFields
  <1>4. job'[t.job] = Released(job[t.job], s) /\ \A k \in Jobs \ {t.job} : job'[k] = job[k]
    BY <1>1, <1>2 DEF Release, SetRow
  <1>5. s \notin Running
    BY <1>2 DEF Settled, Running
  <1>6. QED
    BY <1>3, <1>4, <1>5

\* A recovery keeps just the rows this boot holds with a live lease.
LEMMA RecoverKeeps ==
    ASSUME TableInv, TableAssumption, WorkerAssumption, Recover(boot), NEW k \in Jobs,
           job'[k].state \in Running
    PROVE  /\ job'[k] = job[k]
           /\ job[k].owner = <<boot, Me>> /\ job[k].lease = "live"
  <1>1. job[k] \in Row
    BY DEF TableInv, TableTypeOK
  <1>2. RecoveredState(job[k]) \in Active \cup Settled /\ RecoveredState(job[k]) \notin Running
    BY DEF RecoveredState, Active, Settled, Running
  <1>3. ~Stale(k, boot)
    BY <1>1, <1>2, ReleasedFields DEF Recover
  <1>4. job'[k] = job[k]
    BY <1>3 DEF Recover
  <1>5. job[k].owner \in Owners
    BY <1>1, <1>4 DEF TableInv, OwnedIffRunning, Row
  <1>6. QED
    BY <1>3, <1>4, <1>5, OwnersAreMine DEF Stale, TableInv, OwnedIffRunning

-----------------------------------------------------------------------------
(* Every step of the worker is of one kind, and one step of the table.     *)

\* Where the verdict on a snapshot sends the worker.
LEMMA DetourPlaces ==
    ASSUME NEW stage
    PROVE  Detour(stage) \in {"acknowledge", "fail", "recover"}
  BY DEF Detour

\* The steps up to the claim.
LEMMA HeadKinds ==
    ASSUME WorkerInv, WorkerAssumption, TableAssumption,
           Quit \/ Start \/ Iterate \/ KeepOldClaim \/ ClaimNext \/ Idle
    PROVE  Kinds /\ TableStep
  <1>1. CASE Quit
    BY <1>1 DEF Quit, KeepClaim, Kinds, Stops, TableStep
  <1>2. CASE Start
    <2>1. claim = NoClaim
      BY <1>2 DEF Start, Goto, WorkerInv, ClaimIsHeld
    <2>2. boot \in Boots
      BY DEF WorkerInv, TypeOK, WorkerAssumption
    <2>3. Recovers
      BY <1>2, <2>1 DEF Start, Goto, KeepClaim, Recovers
    <2>4. TableStep
      BY <1>2, <2>2 DEF Start, ByOthers, TableStep
    <2>5. QED
      BY <2>3, <2>4 DEF Kinds
  <1>3. CASE Iterate \/ KeepOldClaim \/ Idle
    <2>1. UNCHANGED table /\ claim' = claim
      BY <1>3 DEF Iterate, KeepOldClaim, Idle, KeepClaim
    <2>2. SameClaims /\ NoLeaseReturns
      BY <2>1, SameRows DEF table
    <2>3. Carries
      BY <1>3, <2>1, <2>2 DEF Iterate, KeepOldClaim, Idle, Goto, Carries, Trusting, Holding
    <2>4. QED
      BY <2>1, <2>3 DEF Kinds, TableStep
  <1>4. CASE ClaimNext
    <2>1. <<boot, Me>> \in Owners
      BY DEF WorkerInv, TypeOK, WorkerAssumption, Owners
    <2>2. Claims
      BY <1>4 DEF ClaimNext, Goto, Claims
    <2>3. TableStep
      BY <1>4, <2>1 DEF ClaimNext, TableStep
    <2>4. QED
      BY <2>2, <2>3 DEF Kinds
  <1>5. QED
    BY <1>1, <1>2, <1>3, <1>4

\* A step that leaves the table alone and keeps the claim in hand.
LEMMA CarriesOn ==
    ASSUME UNCHANGED table, KeepClaim, pc \in Holding, pc' \in Holding \cup {"recover"},
           ClaimIsHeld
    PROVE  Kinds /\ TableStep
  <1>1. SameClaims /\ NoLeaseReturns
    BY SameRows DEF table
  <1>2. Carries
    BY <1>1 DEF Carries, Trusting, KeepClaim, ClaimIsHeld
  <1>3. QED
    BY <1>2 DEF Kinds, TableStep

\* A renewal, a mark: the claim is kept.
LEMMA RenewsOn ==
    ASSUME WorkerInv, WorkerAssumption, TableAssumption,
           Renew(claim) \/ MarkTranscribing(claim), KeepClaim, pc \in Holding, pc' \in Holding
    PROVE  Kinds /\ TableStep
  <1>1. claim \in Token
    BY ClaimIsToken
  <1>2. SameClaims /\ NoLeaseReturns
    BY <1>1, RenewSame DEF WorkerInv
  <1>3. Carries
    BY <1>2 DEF Carries, Trusting, KeepClaim, ClaimIsHeld, WorkerInv
  <1>4. ByHolder(claim)
    BY DEF ByHolder
  <1>5. QED
    BY <1>1, <1>3, <1>4 DEF Kinds, TableStep

\* The row is settled.
LEMMA SettlesNow ==
    ASSUME WorkerInv, WorkerAssumption, TableAssumption, pc \in Holding,
           Fail(claim) \/ AcknowledgeCancel(claim) \/ \E speech \in BOOLEAN : Publish(claim, speech),
           \/ DropClaim /\ pc' \in {"head", "stopped"}
           \/ KeepClaim /\ pc' \in {"announce", "recover"}
    PROVE  Kinds /\ TableStep
  <1>1. claim \in Token
    BY ClaimIsToken
  <1>2. Settles
    BY <1>1, ReleaseEnds DEF Settles, DropClaim, KeepClaim, WorkerInv
  <1>3. ByHolder(claim)
    BY DEF ByHolder
  <1>4. QED
    BY <1>1, <1>2, <1>3 DEF Kinds, TableStep

\* The claim turns out to be lost.
LEMMA LosesNow ==
    ASSUME UNCHANGED table, DropClaim, OwnershipLost(claim), pc \in Holding,
           pc' \in {"recover", "stopped"}
    PROVE  Kinds /\ TableStep
  BY DEF Loses, DropClaim, Kinds, TableStep

\* The steps from a claim to the start of the inference, and those that fail a job.
LEMMA PrepareKinds ==
    ASSUME WorkerInv, WorkerAssumption, TableAssumption,
           \/ PrepareJob \/ PrepareDetour \/ EnterRenew \/ StartInference
           \/ FailRenew \/ FailMark \/ RefusedByCancel \/ RefusedByLoss \/ AcknowledgeAndDie
    PROVE  Kinds /\ TableStep
  <1>0. ClaimIsHeld
    BY DEF WorkerInv
  <1>1. CASE PrepareJob \/ PrepareDetour \/ RefusedByCancel
    <2>1. UNCHANGED table /\ KeepClaim
      BY <1>1 DEF PrepareJob, PrepareDetour, RefusedByCancel
    <2>2. pc \in Holding /\ pc' \in Holding \cup {"recover"}
      BY <1>1, DetourPlaces DEF PrepareJob, PrepareDetour, RefusedByCancel, Goto, Holding
    <2>3. QED
      BY <1>0, <2>1, <2>2, CarriesOn
  <1>2. CASE EnterRenew \/ StartInference \/ FailRenew
    <2>1. (Renew(claim) \/ MarkTranscribing(claim)) /\ KeepClaim
      BY <1>2 DEF EnterRenew, StartInference, FailRenew
    <2>2. pc \in Holding /\ pc' \in Holding
      BY <1>2 DEF EnterRenew, StartInference, FailRenew, Goto, Holding
    <2>3. QED
      BY <2>1, <2>2, RenewsOn
  <1>3. CASE FailMark
    BY <1>3, SettlesNow DEF FailMark, Goto, Holding
  <1>4. CASE RefusedByLoss
    BY <1>4, LosesNow DEF RefusedByLoss, Holding
  <1>5. CASE AcknowledgeAndDie
    BY <1>5, SettlesNow, LosesNow DEF AcknowledgeAndDie, Goto, Holding
  <1>6. QED
    BY <1>1, <1>2, <1>3, <1>4, <1>5

\* The steps of a running inference.
LEMMA RunningKinds ==
    ASSUME WorkerInv, WorkerAssumption, TableAssumption,
           \/ RenewRunning \/ RenewSeesCancel \/ RenewFindsLoss \/ ObserveDetour
           \/ AcknowledgeRenewal \/ Acknowledge
    PROVE  Kinds /\ TableStep
  <1>0. ClaimIsHeld
    BY DEF WorkerInv
  <1>1. CASE RenewRunning
    BY <1>1, RenewsOn DEF RenewRunning, Observing, Holding
  <1>2. CASE RenewSeesCancel \/ ObserveDetour
    <2>1. UNCHANGED table /\ KeepClaim
      BY <1>2 DEF RenewSeesCancel, ObserveDetour
    <2>2. pc \in Holding /\ pc' \in Holding \cup {"recover"}
      BY <1>2, DetourPlaces DEF RenewSeesCancel, ObserveDetour, Observing, Holding
    <2>3. QED
      BY <1>0, <2>1, <2>2, CarriesOn
  <1>3. CASE RenewFindsLoss
    BY <1>3, LosesNow DEF RenewFindsLoss, Observing, Holding
  <1>4. CASE AcknowledgeRenewal \/ Acknowledge
    BY <1>4, SettlesNow, LosesNow DEF AcknowledgeRenewal, Acknowledge, Holding
  <1>5. QED
    BY <1>1, <1>2, <1>3, <1>4

\* The steps that end a run, and the recovery.
LEMMA EndKinds ==
    ASSUME WorkerInv, WorkerAssumption, TableAssumption,
           \/ InferenceFailed \/ PublishSpeech \/ PublishSilence \/ PublishRejected
           \/ PublishRefused \/ Announce \/ RecoverClaim \/ WorkerFault \/ SnapshotUnreadable
    PROVE  Kinds /\ TableStep
  <1>0. ClaimIsHeld
    BY DEF WorkerInv
  <1>1. CASE InferenceFailed \/ PublishRefused \/ SnapshotUnreadable
    <2>1. UNCHANGED table /\ KeepClaim
      BY <1>1 DEF InferenceFailed, PublishRefused, SnapshotUnreadable
    <2>2. pc \in Holding /\ pc' \in Holding \cup {"recover"}
      BY <1>1 DEF InferenceFailed, PublishRefused, SnapshotUnreadable, Ended, Observing, Holding
    <2>3. QED
      BY <1>0, <2>1, <2>2, CarriesOn
  <1>2. CASE PublishSpeech \/ PublishSilence
    <2>1. pc \in Holding /\ KeepClaim /\ pc' \in {"announce", "recover"}
      BY <1>2 DEF PublishSpeech, PublishSilence, Ended, Holding
    <2>2. \E speech \in BOOLEAN : Publish(claim, speech)
      BY <1>2 DEF PublishSpeech, PublishSilence
    <2>3. QED
      BY <2>1, <2>2, SettlesNow
  <1>3. CASE PublishRejected \/ WorkerFault
    BY <1>3 DEF PublishRejected, WorkerFault, DropClaim, Stops, Kinds, TableStep
  <1>4. CASE Announce
    BY <1>4 DEF Announce, Goto, KeepClaim, Announces, Kinds, TableStep
  <1>5. CASE RecoverClaim
    <2>1. boot \in Boots
      BY DEF WorkerInv, TypeOK, WorkerAssumption
    <2>2. Recovers
      BY <1>5 DEF RecoverClaim, Goto, Recovers
    <2>3. TableStep
      BY <1>5, <2>1 DEF RecoverClaim, ByOthers, TableStep
    <2>4. QED
      BY <2>2, <2>3 DEF Kinds
  <1>6. QED
    BY <1>1, <1>2, <1>3, <1>4, <1>5

-----------------------------------------------------------------------------
(* Each kind keeps what is known of claims.                                *)

Core == ClaimIsHeld /\ NoFutureOwner /\ NoForgottenRow /\ NoOrphanClaim

\* The running rows, their claims and the claim in hand stay as they are.
LEMMA CarriesKeeps ==
    ASSUME WorkerInv, WorkerAssumption, Carries, TableInv', UNCHANGED <<boot, adjustments>>
    PROVE  Core'
  <1>1. /\ claim' = claim /\ pc \in Trusting /\ pc' \in Trusting \cup {"recover"}
        /\ pc' \in Holding => claim # NoClaim
    BY DEF Carries
  <1>2. pc \notin {"start", "recover", "stopped"} /\ pc' \notin {"start", "stopped"}
    BY <1>1 DEF Trusting, Holding
  <1>3. ClaimIsHeld'
    <2>1. ASSUME claim # NoClaim
          PROVE  /\ job'[claim.job].owner = claim.owner
                 /\ job'[claim.job].generation = claim.generation
                 /\ job'[claim.job].state \in Running
      <3>1. claim.job \in Jobs
        BY <2>1, ClaimIsToken
      <3>2. Owns(claim) /\ job[claim.job].state \in Running
        BY <1>1, <2>1 DEF WorkerInv, ClaimIsHeld
      <3>3. QED
        BY <3>1, <3>2 DEF Carries, SameClaims, Owns
    <2>2. QED
      BY <1>1, <1>2, <2>1 DEF WorkerInv, ClaimIsHeld, Owns
  <1>4. NoFutureOwner'
    BY DEF Carries, SameClaims, WorkerInv, NoFutureOwner, TableInv, OwnedIffRunning
  <1>5. adjustments = 0 =>
          \A j \in Jobs : job'[j].state \in Running =>
             claim' = [job |-> j, owner |-> job'[j].owner, generation |-> job'[j].generation]
    BY <1>1, <1>2 DEF Carries, SameClaims, WorkerInv, NoOrphanClaim, TokenOf
  <1>6. NoForgottenRow' /\ NoOrphanClaim'
    BY <1>5 DEF NoForgottenRow, NoOrphanClaim, TokenOf
  <1>7. QED
    BY <1>3, <1>4, <1>6 DEF Core

\* When the one running row is settled, none runs.
LEMMA SettlesKeeps ==
    ASSUME WorkerInv, WorkerAssumption, Settles, TableInv', UNCHANGED <<boot, adjustments>>
    PROVE  Core'
  <1>1. pc \in Holding /\ pc \notin {"start", "recover", "stopped"}
    BY DEF Settles, Holding
  <1>2. ClaimIsHeld'
    <2>1. CASE claim' = NoClaim /\ pc' \in {"head", "stopped"}
      BY <2>1 DEF ClaimIsHeld, Holding
    <2>2. CASE claim' = claim /\ pc' \in {"announce", "recover"}
      <3>1. pc' \notin Trusting /\ pc' \notin Holding /\ pc' \notin {"start", "stopped"}
        BY <2>2 DEF Trusting, Holding
      <3>2. QED
        BY <2>2, <3>1 DEF ClaimIsHeld, WorkerInv
    <2>3. QED
      BY <2>1, <2>2 DEF Settles
  <1>3. \A k \in Jobs : job'[k].owner # NoOwner => job'[k] = job[k]
    BY DEF Settles, TableInv, OwnedIffRunning
  <1>4. NoFutureOwner'
    BY <1>3 DEF WorkerInv, NoFutureOwner
  <1>5. adjustments = 0 => \A k \in Jobs : job'[k].state \notin Running
    BY <1>1 DEF Settles, WorkerInv, NoOrphanClaim, TokenOf
  <1>6. NoForgottenRow' /\ NoOrphanClaim'
    BY <1>5 DEF NoForgottenRow, NoOrphanClaim
  <1>7. QED
    BY <1>2, <1>4, <1>6 DEF Core

\* A claim is lost only when its lease has lapsed: the row is left for a recovery.
LEMMA LosesKeeps ==
    ASSUME WorkerInv, WorkerAssumption, Loses, TableInv', UNCHANGED <<boot, adjustments>>
    PROVE  Core'
  <1>1. /\ pc \in Holding /\ pc \notin {"start", "recover", "stopped"}
        /\ claim' = NoClaim /\ pc' \in {"recover", "stopped"} /\ job' = job
        /\ ~Holds(claim)
    BY DEF Loses, Holding, table, OwnershipLost
  <1>2. ClaimIsHeld' /\ NoOrphanClaim'
    <2>1. pc' \notin Holding /\ pc' # "start" /\ pc' \in {"start", "recover", "stopped"}
      BY <1>1 DEF Holding
    <2>2. QED
      BY <1>1, <2>1 DEF ClaimIsHeld, NoOrphanClaim
  <1>3. NoFutureOwner'
    BY <1>1 DEF WorkerInv, NoFutureOwner
  <1>4. job[claim.job].lease # "live"
    BY <1>1 DEF WorkerInv, ClaimIsHeld, Trusting, Holds
  <1>5. adjustments = 0 => \A k \in Jobs : job[k].state \in Running => job[k].lease # "live"
    BY <1>1, <1>4 DEF WorkerInv, NoOrphanClaim, TokenOf
  <1>6. NoForgottenRow'
    BY <1>1, <1>5 DEF NoForgottenRow
  <1>7. QED
    BY <1>2, <1>3, <1>6 DEF Core

\* A worker that stopped promises nothing.
LEMMA StopsKeeps ==
    ASSUME WorkerInv, Stops, UNCHANGED <<boot, adjustments>>
    PROVE  Core'
  BY DEF Stops, table, Core, WorkerInv, ClaimIsHeld, NoFutureOwner, NoForgottenRow, NoOrphanClaim,
    Holding, Trusting

\* A claim is made while nothing runs, and it is the claim in hand.
LEMMA ClaimsKeeps ==
    ASSUME WorkerInv, WorkerAssumption, TableAssumption, Claims, TableInv',
           UNCHANGED <<boot, adjustments>>
    PROVE  Core'
  <1>1. PICK j \in Jobs :
           /\ Claim(<<boot, Me>>, j)
           /\ claim' = [job |-> j, owner |-> <<boot, Me>>, generation |-> job[j].generation + 1]
    BY DEF Claims
  <1>2. job[j] \in Row /\ job \in [Jobs -> Row] /\ boot \in Nat
    BY DEF WorkerInv, TypeOK, TableTypeOK
  <1>3. \A k \in Jobs : job[k].state \notin Running
    BY <1>1 DEF Claim, Claimable, NobodyRuns, WorkerInv, TableInv, OwnedIffRunning
  <1>4. /\ job'[j].owner = <<boot, Me>>
        /\ job'[j].generation = job[j].generation + 1
        /\ job'[j].state \in Running
        /\ \A k \in Jobs \ {j} : job'[k] = job[k]
    BY <1>1, <1>2 DEF Claim, SetRow, Row, Running
  <1>5. pc' = "claimed" /\ claim' # NoClaim
    <2>1. claim' \in Token
      BY <1>1, <1>2 DEF Token, Row, Owners, WorkerAssumption, WorkerInv, TypeOK
    <2>2. QED
      BY <2>1 DEF Claims, WorkerAssumption
  <1>6. ClaimIsHeld'
    BY <1>1, <1>4, <1>5 DEF ClaimIsHeld, Owns, Trusting, Holding
  <1>7. NoFutureOwner'
    BY <1>2, <1>4 DEF WorkerInv, NoFutureOwner
  <1>8. \A k \in Jobs : job'[k].state \in Running =>
           claim' = [job |-> k, owner |-> job'[k].owner, generation |-> job'[k].generation]
    BY <1>1, <1>3, <1>4
  <1>9. NoForgottenRow' /\ NoOrphanClaim'
    BY <1>8 DEF NoForgottenRow, NoOrphanClaim, TokenOf
  <1>10. QED
    BY <1>6, <1>7, <1>9 DEF Core

\* After a recovery only a row of this boot with a live lease runs: the claim in hand.
LEMMA RecoversKeeps ==
    ASSUME WorkerInv, WorkerAssumption, TableAssumption, Recovers, TableInv',
           UNCHANGED <<boot, adjustments>>
    PROVE  Core'
  <1>1. pc \in {"start", "recover"} /\ pc' = "head" /\ Recover(boot)
    BY DEF Recovers
  <1>2. \A k \in Jobs : job'[k].state \in Running =>
           /\ job'[k] = job[k]
           /\ job[k].owner = <<boot, Me>> /\ job[k].lease = "live"
    BY <1>1, RecoverKeeps DEF WorkerInv
  <1>3. claim' # NoClaim => claim' = claim /\ Owns(claim) /\ job'[claim.job].state \in Running
    BY DEF Recovers
  <1>4. ClaimIsHeld'
    <2>1. ASSUME claim' # NoClaim
          PROVE  /\ claim'.owner = <<boot, Me>>
                 /\ job'[claim'.job].owner = claim'.owner
                 /\ job'[claim'.job].generation = claim'.generation
                 /\ job'[claim'.job].state \in Running
      <3>1. claim' = claim /\ claim # NoClaim /\ Owns(claim) /\ job'[claim.job].state \in Running
        BY <1>3, <2>1
      <3>2. claim.job \in Jobs
        BY <3>1, ClaimIsToken
      <3>3. QED
        BY <1>2, <3>1, <3>2 DEF Owns, WorkerInv, ClaimIsHeld
    <2>2. QED
      BY <1>1, <2>1 DEF ClaimIsHeld, Owns, Holding
  <1>5. NoFutureOwner'
    BY <1>2 DEF WorkerInv, NoFutureOwner, TableInv, OwnedIffRunning
  <1>6. ASSUME adjustments = 0, NEW k \in Jobs, job'[k].state \in Running
        PROVE  claim' = [job |-> k, owner |-> job'[k].owner, generation |-> job'[k].generation]
    <2>1. job'[k] = job[k] /\ claim = TokenOf(k)
      BY <1>1, <1>2, <1>6 DEF WorkerInv, NoForgottenRow
    <2>2. claim # NoClaim
      <3>1. job[k] \in Row /\ job[k].owner \in Owners
        BY <1>2, <1>6 DEF WorkerInv, TypeOK, TableTypeOK, Row, TableInv, OwnedIffRunning
      <3>2. claim \in Token
        BY <2>1, <3>1 DEF TokenOf, Token, Row
      <3>3. QED
        BY <3>2 DEF WorkerAssumption
    <2>3. claim' = claim
      BY <1>6, <2>1, <2>2 DEF Recovers, Owns, TokenOf
    <2>4. QED
      BY <2>1, <2>3 DEF TokenOf
  <1>7. NoForgottenRow' /\ NoOrphanClaim'
    BY <1>6 DEF NoForgottenRow, NoOrphanClaim, TokenOf
  <1>8. QED
    BY <1>4, <1>5, <1>7 DEF Core

\* The publication callback changes nothing.
LEMMA AnnouncesKeeps ==
    ASSUME WorkerInv, Announces, UNCHANGED <<boot, adjustments>>
    PROVE  Core'
  <1>1. /\ pc = "announce" /\ pc' = "recover" /\ claim' = claim /\ job' = job
    BY DEF Announces, table
  <1>2. pc' \notin Trusting /\ pc' \notin Holding /\ pc' \notin {"start", "stopped"}
    BY <1>1 DEF Trusting, Holding
  <1>3. ClaimIsHeld' /\ NoFutureOwner' /\ NoOrphanClaim'
    BY <1>1, <1>2 DEF WorkerInv, ClaimIsHeld, NoFutureOwner, NoOrphanClaim
  <1>4. NoForgottenRow'
    BY <1>1 DEF WorkerInv, NoForgottenRow, NoOrphanClaim, TokenOf
  <1>5. QED
    BY <1>3, <1>4 DEF Core

\* Whatever its kind.
LEMMA KindsKeep ==
    ASSUME WorkerInv, WorkerAssumption, TableAssumption, Kinds, TableInv',
           UNCHANGED <<boot, adjustments>>
    PROVE  Core'
  BY CarriesKeeps, SettlesKeeps, LosesKeeps, StopsKeeps, ClaimsKeeps, RecoversKeeps, AnnouncesKeeps
    DEF Kinds

-----------------------------------------------------------------------------
(* The rest of the application, and the process.                           *)

\* A user neither starts nor ends a running row; a running one is only marked.
LEMMA UserSame ==
    ASSUME TableInv, TableAssumption, NEW j \in Jobs, ByUser(j)
    PROVE  SameClaims /\ NoLeaseReturns
  <1>1. job \in [Jobs -> Row] /\ job[j] \in Row
    BY DEF TableInv, TableTypeOK
  <1>2. ASSUME NEW row \in Row, SetRow(j, row),
               row.state \in Running <=> job[j].state \in Running,
               row.lease = "live" => job[j].lease = "live",
               job[j].state \in Running =>
                  row.owner = job[j].owner /\ row.generation = job[j].generation
        PROVE  SameClaims /\ NoLeaseReturns
    <2>1. job'[j] = row /\ \A k \in Jobs \ {j} : job'[k] = job[k]
      BY <1>1, <1>2 DEF SetRow
    <2>2. QED
      BY <1>2, <2>1 DEF SameClaims, NoLeaseReturns
  <1>3. ASSUME NEW s \in {"queued", "blocked_model", "failed"}, InsertJob(j, s)
        PROVE  SameClaims /\ NoLeaseReturns
    <2>1. s \in Active \cup Settled /\ s \notin Running
      BY DEF Active, Settled, Running
    <2>2. PICK row \in Row : row = [NoRow EXCEPT !.state = s]
      BY <1>1, <2>1, RowTypes
    <2>3. SetRow(j, row) /\ job[j].state \notin Running
      BY <1>3, <2>2 DEF InsertJob, Running
    <2>4. row.state = s /\ row.lease = "none"
      BY <2>2 DEF NoRow
    <2>5. QED
      BY <1>2, <2>1, <2>3, <2>4
  <1>4. CASE Retry(j)
    <2>1. PICK row \in Row :
             row = [NoRow EXCEPT !.state = "queued", !.generation = job[j].generation + 1]
      BY <1>1, RowTypes
    <2>2. SetRow(j, row) /\ job[j].state \notin Running
      BY <1>4, <2>1 DEF Retry, Running
    <2>3. row.state \notin Running /\ row.lease = "none"
      BY <2>1 DEF NoRow, Running
    <2>4. QED
      BY <1>2, <2>2, <2>3
  <1>5. CASE RequestCancel(j) /\ job[j].state \in {"queued", "blocked_model"}
    <2>1. "cancelled" \in Active \cup Settled
      BY DEF Settled
    <2>2. PICK freed \in Row : freed = Released(job[j], "cancelled")
      BY <1>1, <2>1, RowTypes
    <2>3. PICK row \in Row : row = [freed EXCEPT !.cancel = TRUE]
      BY <2>2, RowTypes
    <2>4. row.state \notin Running /\ row.lease = "none" /\ job[j].state \notin Running
      BY <1>1, <1>5, <2>1, <2>2, <2>3, ReleasedFields DEF Row, Running
    <2>5. SetRow(j, row)
      BY <1>5, <2>2, <2>3 DEF RequestCancel, Running
    <2>6. QED
      BY <1>2, <2>4, <2>5
  <1>6. CASE RequestCancel(j) /\ job[j].state \in Running
    <2>1. PICK row \in Row : row = [job[j] EXCEPT !.cancel = TRUE]
      BY <1>1, RowTypes
    <2>2. SetRow(j, row)
      BY <1>6, <2>1 DEF RequestCancel, Running
    <2>3. /\ row.state = job[j].state /\ row.owner = job[j].owner
          /\ row.lease = job[j].lease /\ row.generation = job[j].generation
      BY <1>1, <2>1 DEF Row
    <2>4. QED
      BY <1>2, <2>2, <2>3
  <1>7. QED
    BY <1>3, <1>4, <1>5, <1>6
      DEF ByUser, Enqueue, InsertBlocked, InsertFailed, RequestCancel

\* The clock changes leases of running rows only.
LEMMA ClockSame ==
    ASSUME TableInv, NEW j \in Jobs, LeaseLapses(j) \/ LeaseReturns(j)
    PROVE  SameClaims /\ (LeaseLapses(j) => NoLeaseReturns)
  <1>1. job \in [Jobs -> Row] /\ job[j] \in Row
    BY DEF TableInv, TableTypeOK
  <1>2. PICK l \in {"live", "lapsed"} :
           /\ job' = [job EXCEPT ![j] = [job[j] EXCEPT !.lease = l]]
           /\ LeaseLapses(j) => l = "lapsed"
    BY DEF LeaseLapses, LeaseReturns, SetRow
  <1>3. /\ job'[j].state = job[j].state /\ job'[j].owner = job[j].owner
        /\ job'[j].generation = job[j].generation /\ job'[j].lease = l
        /\ \A k \in Jobs \ {j} : job'[k] = job[k]
    BY <1>1, <1>2 DEF Row
  <1>4. QED
    BY <1>2, <1>3 DEF SameClaims, NoLeaseReturns

\* Whatever others do while the worker stands still.
LEMMA BystandersKeep ==
    ASSUME WorkerInv, SameClaims, TableInv', UNCHANGED <<pc, claim, boot>>,
           \/ NoLeaseReturns /\ adjustments' = adjustments
           \/ adjustments' # 0,
           WorkerAssumption
    PROVE  Core'
  <1>1. ClaimIsHeld'
    <2>1. ASSUME claim # NoClaim PROVE claim.job \in Jobs
      BY <2>1, ClaimIsToken
    <2>2. QED
      BY <2>1 DEF SameClaims, WorkerInv, ClaimIsHeld, Owns
  <1>2. NoFutureOwner'
    BY DEF SameClaims, WorkerInv, NoFutureOwner, TableInv, OwnedIffRunning
  <1>3. NoForgottenRow' /\ NoOrphanClaim'
    BY DEF SameClaims, NoLeaseReturns, WorkerInv, NoForgottenRow, NoOrphanClaim, TokenOf
  <1>4. QED
    BY <1>1, <1>2, <1>3 DEF Core

\* A new boot: every claim in the table is of an earlier one.
LEMMA RestartKeeps ==
    ASSUME WorkerInv, WorkerAssumption, Restart
    PROVE  Core'
  <1>1. /\ pc' = "start" /\ claim' = NoClaim /\ boot' = boot + 1 /\ job' = job
        /\ boot \in Nat /\ UNCHANGED adjustments
    BY DEF Restart, table, WorkerInv, TypeOK
  <1>2. ClaimIsHeld' /\ NoOrphanClaim'
    BY <1>1 DEF ClaimIsHeld, NoOrphanClaim, Holding, Trusting
  <1>3. \A j \in Jobs : job[j].owner # NoOwner =>
           job[j].owner[1] \in Nat /\ job[j].owner[1] <= boot
    <2>1. \A j \in Jobs : job[j].owner \in Owners \cup {NoOwner}
      BY DEF WorkerInv, TypeOK, TableTypeOK, Row
    <2>2. \A o \in Owners : o[1] \in Boots
      BY DEF Owners
    <2>3. QED
      BY <2>1, <2>2 DEF WorkerInv, NoFutureOwner, WorkerAssumption
  <1>4. NoFutureOwner'
    BY <1>1, <1>3 DEF NoFutureOwner
  <1>5. NoForgottenRow'
    BY <1>1, <1>3 DEF NoForgottenRow, TableInv, OwnedIffRunning, WorkerInv
  <1>6. QED
    BY <1>2, <1>4, <1>5 DEF Core

-----------------------------------------------------------------------------
(* The inference and the types.                                            *)

\* The worker leaves its waiting place only with the run abandoned.
LEMMA RunStep ==
    ASSUME RunIsAwaited, [Next]_vars
    PROVE  RunIsAwaited'
  <1>1. CASE Quit \/ Start \/ Iterate \/ KeepOldClaim \/ ClaimNext \/ Idle \/ PrepareJob
               \/ PrepareDetour \/ EnterRenew \/ FailRenew \/ Announce \/ RecoverClaim
    BY <1>1 DEF Quit, Start, Iterate, KeepOldClaim, ClaimNext, Idle, PrepareJob, PrepareDetour,
      EnterRenew, FailRenew, Announce, RecoverClaim, Goto, KeepRun, RunIsAwaited
  <1>2. CASE StartInference \/ RenewRunning \/ RenewSeesCancel
    BY <1>2 DEF StartInference, RenewRunning, RenewSeesCancel, Goto, KeepRun, Observing, RunIsAwaited
  <1>3. CASE FailMark \/ RefusedByCancel \/ RefusedByLoss \/ AcknowledgeAndDie \/ RenewFindsLoss
               \/ ObserveDetour \/ AcknowledgeRenewal \/ Acknowledge \/ InferenceFailed
               \/ PublishSpeech \/ PublishSilence \/ PublishRejected \/ PublishRefused
               \/ WorkerFault \/ SnapshotUnreadable
    BY <1>3 DEF FailMark, RefusedByCancel, RefusedByLoss, AcknowledgeAndDie, RenewFindsLoss,
      ObserveDetour, AcknowledgeRenewal, Acknowledge, InferenceFailed, PublishSpeech,
      PublishSilence, PublishRejected, PublishRefused, WorkerFault, SnapshotUnreadable, Abandon,
      RunIsAwaited
  <1>4. CASE EngineFinishes \/ Restart
    BY <1>4 DEF EngineFinishes, Restart, RunIsAwaited
  <1>5. CASE UNCHANGED <<pc, run>>
    BY <1>5 DEF RunIsAwaited
  <1>6. QED
    BY <1>1, <1>2, <1>3, <1>4, <1>5 DEF Next, Worker, WorkerStep, Fault, LeftoverExits, Users,
      DelayPasses, LeasePasses, ClockStepsBack, Shutdown, vars, thread

\* Any place a kind of step leads to is a place, any claim a token.
LEMMA KindsTyped ==
    ASSUME WorkerInv, WorkerAssumption, TableAssumption, Kinds
    PROVE  pc' \in Places /\ claim' \in Token \cup {NoClaim}
  <1>0. claim \in Token \cup {NoClaim} /\ boot \in Boots
    BY DEF WorkerInv, TypeOK, WorkerAssumption
  <1>1. pc' \in Places
    BY DEF Kinds, Carries, Settles, Loses, Stops, Claims, Recovers, Announces, Trusting, Holding, Places
  <1>2. CASE Claims
    <2>1. PICK j \in Jobs :
             claim' = [job |-> j, owner |-> <<boot, Me>>, generation |-> job[j].generation + 1]
      BY <1>2 DEF Claims
    <2>2. job[j].generation + 1 \in Nat
      BY DEF WorkerInv, TypeOK, TableTypeOK, Row
    <2>3. <<boot, Me>> \in Owners
      BY <1>0 DEF Owners, WorkerAssumption
    <2>4. QED
      BY <1>1, <2>1, <2>2, <2>3 DEF Token
  <1>3. CASE ~Claims
    BY <1>0, <1>1, <1>3 DEF Kinds, Carries, Settles, Loses, Stops, Recovers, Announces
  <1>4. QED
    BY <1>2, <1>3

\* A run is started, kept or abandoned.
LEMMA RunTyped ==
    ASSUME TypeOK, Worker \/ Fault
    PROVE  run' \in {"none", "busy"} \cup Results /\ leftover' \in BOOLEAN
  <1>1. KeepRun \/ Abandon \/ (run' = "busy" /\ UNCHANGED leftover)
    <2>1. CASE Quit \/ Start \/ Iterate \/ KeepOldClaim \/ ClaimNext \/ Idle \/ PrepareJob
                 \/ PrepareDetour \/ EnterRenew \/ FailRenew \/ Announce \/ RecoverClaim
                 \/ RenewRunning \/ RenewSeesCancel
      BY <2>1 DEF Quit, Start, Iterate, KeepOldClaim, ClaimNext, Idle, PrepareJob, PrepareDetour,
        EnterRenew, FailRenew, Announce, RecoverClaim, RenewRunning, RenewSeesCancel
    <2>2. CASE StartInference
      BY <2>2 DEF StartInference
    <2>3. CASE FailMark \/ RefusedByCancel \/ RefusedByLoss \/ AcknowledgeAndDie \/ RenewFindsLoss
                 \/ ObserveDetour \/ AcknowledgeRenewal \/ Acknowledge \/ InferenceFailed
                 \/ PublishSpeech \/ PublishSilence \/ PublishRejected \/ PublishRefused
                 \/ WorkerFault \/ SnapshotUnreadable
      BY <2>3 DEF FailMark, RefusedByCancel, RefusedByLoss, AcknowledgeAndDie, RenewFindsLoss,
        ObserveDetour, AcknowledgeRenewal, Acknowledge, InferenceFailed, PublishSpeech,
        PublishSilence, PublishRejected, PublishRefused, WorkerFault, SnapshotUnreadable
    <2>4. QED
      BY <2>1, <2>2, <2>3 DEF Worker, WorkerStep, Fault
  <1>2. CASE KeepRun \/ (run' = "busy" /\ UNCHANGED leftover)
    BY <1>2 DEF KeepRun, TypeOK
  <1>3. CASE Abandon
    BY <1>3 DEF Abandon, TypeOK
  <1>4. QED
    BY <1>1, <1>2, <1>3

-----------------------------------------------------------------------------
(* Every step of the process.                                              *)

\* The worker's own steps.
LEMMA OwnSteps ==
    ASSUME WorkerInv, WorkerAssumption, TableAssumption, Worker \/ Fault
    PROVE  Kinds /\ TableStep /\ UNCHANGED process
  BY HeadKinds, PrepareKinds, RunningKinds, EndKinds DEF Worker, WorkerStep, Fault

\* The steps of the table that others make while the worker stands still.
Surroundings ==
    \/ \E j \in Jobs : ByUser(j) \/ BecomesDue(j) \/ LeaseLapses(j)
    \/ \E c \in Chunks : \E v \in {"available", "unavailable"} : ChunkVerdict(c, v)
    \/ \E s \in Sessions : SaveManualRevision(s)
    \/ UNCHANGED table

LEMMA SurroundingsSame ==
    ASSUME TableInv, TableAssumption, Surroundings
    PROVE  SameClaims /\ NoLeaseReturns /\ TableStep
  <1>1. ASSUME NEW j \in Jobs, ByUser(j) PROVE SameClaims /\ NoLeaseReturns /\ TableStep
    BY <1>1, UserSame DEF TableStep
  <1>2. ASSUME NEW j \in Jobs, LeaseLapses(j) PROVE SameClaims /\ NoLeaseReturns /\ TableStep
    BY <1>2, ClockSame DEF TableStep, ByOthers
  <1>3. CASE \/ \E j \in Jobs : BecomesDue(j)
             \/ \E c \in Chunks : \E v \in {"available", "unavailable"} : ChunkVerdict(c, v)
             \/ \E s \in Sessions : SaveManualRevision(s)
    <2>1. UNCHANGED job
      BY <1>3 DEF BecomesDue, ChunkVerdict, SaveManualRevision
    <2>2. TableStep
      BY <1>3 DEF TableStep, ByOthers
    <2>3. QED
      BY <2>1, <2>2, SameRows
  <1>4. CASE UNCHANGED table
    BY <1>4, SameRows DEF table, TableStep
  <1>5. QED
    BY <1>1, <1>2, <1>3, <1>4 DEF Surroundings

\* Whatever the rest of the application does.
LEMMA OtherSteps ==
    ASSUME [Next]_vars, ~Worker, ~Fault, ~Restart, ~ClockStepsBack
    PROVE  Surroundings /\ UNCHANGED <<pc, claim, boot, adjustments>>
  <1>1. CASE EngineFinishes \/ LeftoverExits \/ Shutdown \/ UNCHANGED vars
    BY <1>1 DEF EngineFinishes, LeftoverExits, Shutdown, Surroundings, vars, thread, process
  <1>2. CASE Users
    BY <1>2 DEF Users, ByUser, Surroundings, thread, process
  <1>3. CASE DelayPasses \/ LeasePasses
    BY <1>3 DEF DelayPasses, LeasePasses, Surroundings, thread, process
  <1>4. QED
    BY <1>1, <1>2, <1>3 DEF Next

\* Every step of the process is one transaction on the table, or none.
LEMMA TableOnly ==
    ASSUME WorkerInv, WorkerAssumption, TableAssumption, [Next]_vars
    PROVE  TableStep
  <1>1. CASE Worker \/ Fault
    BY <1>1, OwnSteps
  <1>2. CASE ClockStepsBack
    BY <1>2 DEF ClockStepsBack, TableStep
  <1>3. CASE Restart
    BY <1>3 DEF Restart, TableStep
  <1>4. CASE ~Worker /\ ~Fault /\ ~Restart /\ ~ClockStepsBack
    BY <1>4, OtherSteps, SurroundingsSame DEF WorkerInv
  <1>5. QED
    BY <1>1, <1>2, <1>3, <1>4

LEMMA CoreStep ==
    ASSUME WorkerInv, WorkerAssumption, TableAssumption, [Next]_vars, TableInv'
    PROVE  Core'
  <1>1. CASE Worker \/ Fault
    BY <1>1, OwnSteps, KindsKeep DEF process
  <1>2. CASE ClockStepsBack
    <2>1. PICK j \in Jobs : LeaseReturns(j)
      BY <1>2 DEF ClockStepsBack
    <2>2. SameClaims
      BY <2>1, ClockSame DEF WorkerInv
    <2>3. UNCHANGED <<pc, claim, boot>> /\ adjustments' # 0
      BY <1>2 DEF ClockStepsBack, thread, WorkerInv, TypeOK
    <2>4. QED
      BY <2>2, <2>3, BystandersKeep
  <1>3. CASE Restart
    BY <1>3, RestartKeeps
  <1>4. CASE ~Worker /\ ~Fault /\ ~Restart /\ ~ClockStepsBack
    <2>1. Surroundings /\ UNCHANGED <<pc, claim, boot, adjustments>>
      BY <1>4, OtherSteps
    <2>2. SameClaims /\ NoLeaseReturns
      BY <2>1, SurroundingsSame DEF WorkerInv
    <2>3. QED
      BY <2>1, <2>2, BystandersKeep
  <1>5. QED
    BY <1>1, <1>2, <1>3, <1>4

LEMMA TypeStep ==
    ASSUME WorkerInv, WorkerAssumption, TableAssumption, [Next]_vars, TableInv'
    PROVE  TypeOK'
  <1>0. TypeOK /\ TableTypeOK'
    BY DEF WorkerInv, TableInv
  <1>1. CASE Worker \/ Fault
    <2>1. pc' \in Places /\ claim' \in Token \cup {NoClaim} /\ UNCHANGED process
      BY <1>1, OwnSteps, KindsTyped
    <2>2. run' \in {"none", "busy"} \cup Results /\ leftover' \in BOOLEAN
      BY <1>0, <1>1, RunTyped
    <2>3. QED
      BY <1>0, <2>1, <2>2 DEF TypeOK, process
  <1>2. CASE ClockStepsBack
    <2>1. adjustments' \in 0 .. MaxAdjustments
      BY <1>2, <1>0 DEF ClockStepsBack, TypeOK, WorkerAssumption
    <2>2. QED
      BY <1>0, <1>2, <2>1 DEF ClockStepsBack, TypeOK, thread
  <1>3. CASE Restart
    <2>1. boot' \in 1 .. MaxBoots
      BY <1>3, <1>0 DEF Restart, TypeOK
    <2>2. QED
      BY <1>0, <1>3, <2>1 DEF Restart, TypeOK, Places
  <1>4. CASE EngineFinishes \/ LeftoverExits \/ Shutdown
    BY <1>0, <1>4 DEF EngineFinishes, LeftoverExits, Shutdown, TypeOK, thread, process
  <1>5. CASE UNCHANGED <<thread, process>>
    BY <1>0, <1>5 DEF TypeOK, thread, process
  <1>6. QED
    BY <1>1, <1>2, <1>3, <1>4, <1>5 DEF Next, Users, DelayPasses, LeasePasses, vars

LEMMA WorkerStart ==
    ASSUME Init, WorkerAssumption, TableAssumption
    PROVE  WorkerInv
  <1>1. TableInv
    BY TableInitInv DEF Init
  <1>2. \A j \in Jobs : job[j].owner = NoOwner /\ job[j].state = "absent"
    BY DEF Init, TableInit, NoRow
  <1>3. 1 \in 1 .. MaxBoots
    BY DEF WorkerAssumption
  <1>4. TypeOK
    <2>1. boot \in 1 .. MaxBoots /\ adjustments \in 0 .. MaxAdjustments
      BY <1>3 DEF Init, WorkerAssumption
    <2>2. QED
      BY <1>1, <2>1 DEF Init, TypeOK, TableInv, Places
  <1>5. ClaimIsHeld /\ RunIsAwaited
    BY DEF Init, ClaimIsHeld, RunIsAwaited, Holding, Trusting
  <1>6. NoFutureOwner /\ NoForgottenRow /\ NoOrphanClaim
    BY <1>2 DEF NoFutureOwner, NoForgottenRow, NoOrphanClaim, Running
  <1>7. QED
    BY <1>1, <1>4, <1>5, <1>6 DEF WorkerInv

-----------------------------------------------------------------------------
(* The theorems.                                                           *)

\* Every reachable state of the process satisfies the inductive invariant.
THEOREM WorkerInvariance == Spec => []WorkerInv
  <1>1. Init => WorkerInv
    BY WorkerStart, WorkerAssumption, TableAssumption
  <1>2. WorkerInv /\ [Next]_vars => WorkerInv'
    <2> SUFFICES ASSUME WorkerInv, [Next]_vars PROVE WorkerInv'
      OBVIOUS
    <2>1. TableInv'
      <3>1. TableStep
        BY TableOnly, WorkerAssumption, TableAssumption
      <3>2. QED
        BY <3>1, TableKept, TableAssumption DEF WorkerInv
    <2>2. Core' /\ TypeOK' /\ RunIsAwaited'
      BY <2>1, CoreStep, TypeStep, RunStep, WorkerAssumption, TableAssumption DEF WorkerInv
    <2>3. QED
      BY <2>1, <2>2 DEF WorkerInv, Core
  <1>3. QED
    BY <1>1, <1>2, PTL DEF Spec

\* The worker is always at one of its places, with a claim and a run of its types.
THEOREM WorkerTypeCorrect == Spec => []TypeOK
  BY WorkerInvariance, PTL DEF WorkerInv

\* While the clock is not set back, a live worker past its first recovery never
\* forgets a running row: no claim is left behind that blocks every later one.
THEOREM NothingForgotten == Spec => []NoOrphanClaim
  BY WorkerInvariance, PTL DEF WorkerInv

\* Whatever the clock does, an inference runs only for the claim in hand, and no
\* later claim of the same job was ever made while it ran.
THEOREM RunIsOfItsClaim == Spec => []RunBelongsToClaim
  <1>1. WorkerInv => RunBelongsToClaim
    BY DEF WorkerInv, RunIsAwaited, ClaimIsHeld, RunBelongsToClaim, Holding, Trusting, Owns
  <1>2. QED
    BY <1>1, WorkerInvariance, PTL

\* With the clock set back any number of times, two jobs never run at once.
THEOREM OneJobRuns == Spec => []OneClaimAtATime
  BY WorkerInvariance, PTL DEF WorkerInv, TableInv

\* A cancel that was accepted wins over the worker's failures and results.
THEOREM WorkerCancelPrevails == Spec => []CancelWins
  BY WorkerInvariance, PTL DEF WorkerInv, TableInv

\* The worker publishes a job at most once, for the row's last claim.
THEOREM WorkerReceipts == Spec => []ReceiptIffSucceeded
  BY WorkerInvariance, PTL DEF WorkerInv, TableInv

\* The worker, its crashes and the clock never take back what was published.
THEOREM WorkerFinality == Spec => EvidenceIsFinal
  <1>1. WorkerInv /\ [Next]_vars =>
          [/\ \A j \in Jobs : job[j].state = "succeeded" => job'[j] = job[j]
           /\ receipts \subseteq receipts'
           /\ \A s \in Sessions : \A n \in 1 .. Len(revisions[s]) :
                n <= Len(revisions'[s]) /\ revisions'[s][n] = revisions[s][n]]_table
    BY TableOnly, EvidenceKept, WorkerAssumption, TableAssumption DEF WorkerInv, EvidenceGrows
  <1>2. QED
    BY <1>1, WorkerInvariance, PTL DEF Spec, EvidenceIsFinal

\* The worker, its inference, crashes, users and the clock together implement the
\* promise made to the user.
THEOREM WorkerRefinement == Spec => ImplementsTranscripts
  <1>1. Init => Promise!Init
    BY TableInitRefines DEF Init
  <1>2. WorkerInv /\ [Next]_vars => [Promise!Next]_(Promise!tvars)
    BY TableOnly, TableRefines, WorkerAssumption, TableAssumption DEF WorkerInv
  <1>3. QED
    BY <1>1, <1>2, WorkerInvariance, PTL DEF Spec, ImplementsTranscripts, Promise!Spec
=============================================================================
