--------------------------- MODULE JobTable_proofs ---------------------------
(***************************************************************************)
(* What the transactions of the job table keep, whoever calls them, for    *)
(* every set of jobs, fingerprints, chunks, sessions, boots and workers    *)
(* and every MaxAttempts.  AsrClaims_proofs (any number of coordinators)   *)
(* and AsrWorker_proofs (the worker of the desktop process) only show that *)
(* their steps are TableSteps and inherit the rest from here:              *)
(*   TableKept      TableInv, the conjunction of the table's promises, is  *)
(*                  kept; the conjuncts need one another, as a claim makes *)
(*                  no second running row only because every running row   *)
(*                  has an owner;                                          *)
(*   EvidenceKept   receipts, successes and revisions are final;           *)
(*   TableRefines   each operation is one step of Transcripts or none.     *)
(* There is one ...Step lemma per operation; most of them are instances of *)
(* OneRowStep.  A token presented to an operation is any token at all.     *)
(***************************************************************************)
EXTENDS JobTable, TLAPS, SequenceTheorems

\* Taking one claimable job out of the ready queue leaves a queue of jobs.
LEMMA DropType ==
    ASSUME NEW S, NEW s \in Seq(S), NEW i \in 1 .. Len(s)
    PROVE  Drop(s, i) \in Seq(S)
  <1>1. SubSeq(s, 1, i - 1) \in Seq(S)
    BY SubSeqProperties, LenProperties
  <1>2. SubSeq(s, i + 1, Len(s)) \in Seq(S)
    BY SubSeqProperties, LenProperties
  <1>3. QED
    BY <1>1, <1>2, ConcatProperties DEF Drop

\* An UPDATE of one row by id leaves the other rows of asr_jobs alone.
LEMMA RowChange ==
    ASSUME job \in [Jobs -> Row], NEW j \in Jobs, NEW row \in Row, SetRow(j, row)
    PROVE  /\ job' \in [Jobs -> Row]
           /\ job'[j] = row
           /\ \A k \in Jobs \ {j} : job'[k] = job[k]
  BY DEF SetRow

\* The rows that the catalog's INSERTs and UPDATEs write are rows of the schema.
LEMMA RowTypes ==
    ASSUME TableAssumption, NEW row \in Row
    PROVE  /\ \A o \in Owners : [row EXCEPT !.state = "preparing", !.owner = o, !.lease = "live",
                                !.attempts = @ + 1, !.generation = @ + 1] \in Row
           /\ [row EXCEPT !.lease = "live"] \in Row
           /\ [row EXCEPT !.lease = "lapsed"] \in Row
           /\ [row EXCEPT !.state = "transcribing"] \in Row
           /\ [row EXCEPT !.cancel = TRUE] \in Row
           /\ \A s \in Active \cup Settled : Released(row, s) \in Row
           /\ \A s \in Active \cup Settled : [NoRow EXCEPT !.state = s] \in Row
           /\ [NoRow EXCEPT !.state = "queued", !.generation = row.generation + 1] \in Row
  <1>1. \A o \in Owners : [row EXCEPT !.state = "preparing", !.owner = o, !.lease = "live",
                                !.attempts = @ + 1, !.generation = @ + 1] \in Row
    <2>1. TAKE o \in Owners
    <2>2. /\ row.attempts + 1 \in Nat
          /\ row.generation + 1 \in Nat
      BY DEF Row
    <2>3. "preparing" \in Active
      BY DEF Active, Running
    <2>4. QED
      BY <2>2, <2>3 DEF Row
  <1>2. /\ [row EXCEPT !.lease = "live"] \in Row
        /\ [row EXCEPT !.lease = "lapsed"] \in Row
    BY DEF Row
  <1>3. [row EXCEPT !.state = "transcribing"] \in Row
    BY DEF Row, Active, Running
  <1>4. [row EXCEPT !.cancel = TRUE] \in Row
    BY DEF Row
  <1>5. \A s \in Active \cup Settled : Released(row, s) \in Row
    BY DEF Row, Released
  <1>6. NoRow \in Row
    BY DEF Row, NoRow
  <1>7. \A s \in Active \cup Settled : [NoRow EXCEPT !.state = s] \in Row
    BY <1>6 DEF Row
  <1>8. [NoRow EXCEPT !.state = "queued", !.generation = row.generation + 1] \in Row
    <2>1. row.generation + 1 \in Nat
      BY DEF Row
    <2>2. "queued" \in Active
      BY DEF Active
    <2>3. QED
      BY <1>6, <2>1, <2>2 DEF Row
  <1>9. QED
    BY <1>1, <1>2, <1>3, <1>4, <1>5, <1>7, <1>8

\* A row that was never inserted has no history: its first claim is generation 1.
AbsentIsFresh == \A j \in Jobs : job[j].state = "absent" => job[j].generation = 0

TableInv ==
    /\ TableTypeOK
    /\ AbsentIsFresh
    /\ OwnedIffRunning
    /\ OneClaimAtATime
    /\ OneActivePerFingerprint
    /\ AttemptsBounded
    /\ CancelWins
    /\ ReceiptIffSucceeded
    /\ RevisionsHaveReceipts

\* A transaction that leaves the succeeded rows, provider_receipts and revisions
\* alone keeps jobs and evidence in agreement.
LEMMA AgreementKept ==
    ASSUME TableInv, UNCHANGED <<receipts, revisions>>,
           \A k \in Jobs : job[k].state = "succeeded" <=> job'[k].state = "succeeded",
           \A k \in Jobs : job[k].state = "succeeded" => job'[k] = job[k]
    PROVE  ReceiptIffSucceeded' /\ RevisionsHaveReceipts'
  <1>1. \A r \in receipts : r.job \in Jobs
    BY DEF TableInv, TableTypeOK, Token
  <1>2. ReceiptIffSucceeded'
    BY <1>1 DEF TableInv, ReceiptIffSucceeded
  <1>3. \A s \in Sessions : \A n \in 1 .. Len(revisions[s]) :
            revisions[s][n] \in Jobs \cup {Manual}
    BY ElementOfSeq DEF TableInv, TableTypeOK
  <1>4. RevisionsHaveReceipts'
    BY <1>3 DEF TableInv, RevisionsHaveReceipts, InputOf
  <1>5. QED
    BY <1>2, <1>4

\* A transaction that makes no job active or running keeps the two uniqueness
\* properties, the one index and the single running claim.
LEMMA ActiveKept ==
    ASSUME TableInv,
           \A k \in Jobs : job'[k].state \in Active => job[k].state \in Active,
           \A k \in Jobs : job'[k].state \in Running => job[k].state \in Running
    PROVE  OneClaimAtATime' /\ OneActivePerFingerprint'
  BY DEF TableInv, OneClaimAtATime, OneActivePerFingerprint

\* claim_asr_job: the NOT EXISTS over running rows and the new generation keep TableInv.
LEMMA ClaimStep ==
    ASSUME TableInv, TableAssumption, NEW o \in Owners, NEW j \in Jobs, Claim(o, j)
    PROVE  TableInv'
  <1> USE TableAssumption
  <1> DEFINE row == [job[j] EXCEPT !.state = "preparing", !.owner = o, !.lease = "live",
                                   !.attempts = @ + 1, !.generation = @ + 1]
  <1>2. /\ job[j] \in Row
        /\ job[j].state = "queued"
        /\ \A k \in Jobs : job[k].state \notin Running
    BY DEF TableInv, TableTypeOK, OwnedIffRunning, Claim, Claimable, NobodyRuns
  <1>3. row \in Row /\ SetRow(j, row)
    BY <1>2, RowTypes DEF Claim
  <1>4. /\ job' \in [Jobs -> Row]
        /\ job'[j] = row
        /\ \A k \in Jobs \ {j} : job'[k] = job[k]
    BY <1>3, RowChange DEF TableInv, TableTypeOK
  <1>5. /\ row.state = "preparing" /\ row.owner = o /\ row.lease = "live"
        /\ row.cancel = job[j].cancel
        /\ row.attempts = job[j].attempts + 1
        /\ row.generation = job[j].generation + 1
    BY <1>2 DEF Row
  <1> HIDE DEF row
  <1>6. TableTypeOK'
    <2>1. ready' \in Seq(Jobs)
      BY DropType DEF TableInv, TableTypeOK, Claim
    <2>2. QED
      BY <1>4, <2>1 DEF TableInv, TableTypeOK, Claim
  <1>7. OwnedIffRunning'
    BY <1>4, <1>5 DEF TableInv, OwnedIffRunning, Running
  <1>8. OneClaimAtATime'
    BY <1>2, <1>4 DEF OneClaimAtATime
  <1>9. OneActivePerFingerprint'
    BY <1>2, <1>4, <1>5 DEF TableInv, OneActivePerFingerprint, Active, Running
  <1>10. AttemptsBounded'
    BY <1>2, <1>4, <1>5 DEF TableInv, AttemptsBounded, Row
  <1>11. CancelWins'
    BY <1>2, <1>4, <1>5 DEF TableInv, CancelWins, Running
  <1>12. ReceiptIffSucceeded' /\ RevisionsHaveReceipts'
    BY <1>2, <1>4, <1>5, AgreementKept DEF Claim
  <1>13. AbsentIsFresh'
    BY <1>4, <1>5 DEF TableInv, AbsentIsFresh
  <1>14. QED
    BY <1>6, <1>7, <1>8, <1>9, <1>10, <1>11, <1>12, <1>13 DEF TableInv

\* A step that rewrites one row without making a job active or running, and
\* leaves the evidence alone.
LEMMA OneRowStep ==
    ASSUME TableInv, TableAssumption, NEW j \in Jobs, NEW row \in Row, SetRow(j, row),
           ready' \in Seq(Jobs), UNCHANGED <<chunk, receipts, revisions>>,
           row.state \in Active => job[j].state \in Active,
           row.state \in Running => job[j].state \in Running,
           row.state \in Running <=> row.owner # NoOwner,
           row.state \in Running <=> row.lease # "none",
           row.generation = job[j].generation,
           row.attempts = job[j].attempts,
           row.state = "queued" => row.attempts < MaxAttempts,
           row.cancel => row.state \in Running \cup {"cancelled"},
           row.state = "cancelled" => row.cancel,
           job[j].state # "succeeded", row.state \notin {"succeeded", "absent"}
    PROVE  TableInv'
  <1>1. /\ job' \in [Jobs -> Row]
        /\ job'[j] = row
        /\ \A k \in Jobs \ {j} : job'[k] = job[k]
    BY RowChange DEF TableInv, TableTypeOK
  <1>2. TableTypeOK'
    BY <1>1 DEF TableInv, TableTypeOK
  <1>3. OwnedIffRunning'
    BY <1>1 DEF TableInv, OwnedIffRunning
  <1>4. OneClaimAtATime' /\ OneActivePerFingerprint'
    BY <1>1, ActiveKept
  <1>5. AttemptsBounded'
    BY <1>1 DEF TableInv, AttemptsBounded
  <1>6. CancelWins'
    BY <1>1 DEF TableInv, CancelWins
  <1>7. ReceiptIffSucceeded' /\ RevisionsHaveReceipts'
    BY <1>1, AgreementKept
  <1>8. AbsentIsFresh'
    BY <1>1 DEF TableInv, AbsentIsFresh
  <1>9. QED
    BY <1>2, <1>3, <1>4, <1>5, <1>6, <1>7, <1>8 DEF TableInv

\* What a row keeps and loses when it leaves the running states.
LEMMA ReleasedFields ==
    ASSUME NEW row \in Row, NEW s \in Active \cup Settled
    PROVE  /\ Released(row, s).state = s
           /\ Released(row, s).owner = NoOwner
           /\ Released(row, s).lease = "none"
           /\ Released(row, s).cancel = row.cancel
           /\ Released(row, s).attempts = row.attempts
           /\ Released(row, s).generation = row.generation
  BY DEF Released, Row

\* renew_asr_job keeps TableInv.
LEMMA RenewStep ==
    ASSUME TableInv, TableAssumption, NEW t \in Token, Renew(t)
    PROVE  TableInv'
  <1>1. /\ t.job \in Jobs /\ job[t.job] \in Row
        /\ job[t.job].state \in Running
        /\ ready \in Seq(Jobs)
    BY DEF TableInv, TableTypeOK, Token, Renew, MayMutate, Holds
  <1>2. PICK row \in Row : row = [job[t.job] EXCEPT !.lease = "live"]
    BY <1>1, RowTypes
  <1>3. /\ row.state = job[t.job].state /\ row.owner = job[t.job].owner
        /\ row.lease = "live" /\ row.cancel = job[t.job].cancel
        /\ row.attempts = job[t.job].attempts /\ row.generation = job[t.job].generation
    BY <1>1, <1>2 DEF Row
  <1>4. SetRow(t.job, row) /\ UNCHANGED <<ready, chunk, receipts, revisions>>
    BY <1>2 DEF Renew
  <1>5. row.state \notin {"queued", "cancelled", "succeeded", "absent"}
    BY <1>1, <1>3 DEF Running
  <1>6. row.owner # NoOwner
    BY <1>1, <1>3 DEF TableInv, OwnedIffRunning
  <1>7. QED
    BY <1>1, <1>3, <1>4, <1>5, <1>6, OneRowStep DEF TableInv, CancelWins

\* mark_asr_job_transcribing keeps TableInv.
LEMMA MarkStep ==
    ASSUME TableInv, TableAssumption, NEW t \in Token, MarkTranscribing(t)
    PROVE  TableInv'
  <1>1. /\ t.job \in Jobs /\ job[t.job] \in Row
        /\ job[t.job].state = "preparing"
        /\ job[t.job].lease = "live"
        /\ ready \in Seq(Jobs)
    BY DEF TableInv, TableTypeOK, Token, MarkTranscribing, MayMutate, Holds
  <1>2. PICK row \in Row : row = [job[t.job] EXCEPT !.state = "transcribing"]
    BY <1>1, RowTypes
  <1>3. /\ row.state = "transcribing" /\ row.owner = job[t.job].owner
        /\ row.lease = "live" /\ row.cancel = job[t.job].cancel
        /\ row.attempts = job[t.job].attempts /\ row.generation = job[t.job].generation
    BY <1>1, <1>2 DEF Row
  <1>4. SetRow(t.job, row) /\ UNCHANGED <<ready, chunk, receipts, revisions>>
    BY <1>2 DEF MarkTranscribing
  <1>5. {"preparing", "transcribing"} = Running /\ Running \subseteq Active
    BY DEF Running, Active
  <1>6. row.owner # NoOwner
    BY <1>1, <1>3, <1>5 DEF TableInv, OwnedIffRunning
  <1>7. QED
    BY <1>1, <1>3, <1>4, <1>5, <1>6, OneRowStep DEF TableInv, CancelWins

\* fail_asr_job and acknowledge_asr_job_cancel keep TableInv.
LEMMA ReleaseStep ==
    ASSUME TableInv, TableAssumption, NEW t \in Token, Fail(t) \/ AcknowledgeCancel(t)
    PROVE  TableInv'
  <1>1. /\ t.job \in Jobs /\ job[t.job] \in Row
        /\ job[t.job].state \in Running
        /\ ready \in Seq(Jobs)
    BY DEF TableInv, TableTypeOK, Token, Fail, AcknowledgeCancel, MayMutate, CancelSeen, Holds
  <1>2. PICK s \in {"failed", "cancelled"} :
           /\ Release(t.job, s)
           /\ UNCHANGED <<ready, chunk, receipts, revisions>>
           /\ job[t.job].cancel <=> s = "cancelled"
    BY DEF Fail, AcknowledgeCancel, MayMutate, CancelSeen
  <1>3. s \in Settled /\ s \notin Active /\ s \notin Running
    BY <1>2 DEF Settled, Active, Running
  <1>4. PICK row \in Row : row = Released(job[t.job], s)
    BY <1>1, <1>3, RowTypes
  <1>5. /\ row.state = s /\ row.owner = NoOwner
        /\ row.lease = "none" /\ row.cancel = job[t.job].cancel
        /\ row.attempts = job[t.job].attempts /\ row.generation = job[t.job].generation
    BY <1>1, <1>3, <1>4, ReleasedFields
  <1>6. job[t.job].state # "succeeded" /\ row.state \notin {"queued", "succeeded", "absent"}
    BY <1>1, <1>2, <1>5 DEF Running
  <1>7. QED
    BY <1>1, <1>2, <1>3, <1>4, <1>5, <1>6, OneRowStep DEF Release

\* publish_asr_result keeps TableInv: receipt, revision and success move together.
LEMMA PublishStep ==
    ASSUME TableInv, TableAssumption, NEW t \in Token, NEW speech \in BOOLEAN,
           Publish(t, speech)
    PROVE  TableInv'
  <1> USE TableAssumption
  <1> DEFINE j == t.job
             d == SessionOf[InputOf(j)]
  <1>1. /\ t \in Token /\ j \in Jobs /\ job[j] \in Row
        /\ job[j].state = "transcribing"
        /\ job[j].generation = t.generation
        /\ ~job[j].cancel
        /\ d \in Sessions
    BY DEF TableInv, TableTypeOK, Token, Publish, MayPublish, MayMutate, Holds, Owns, InputOf
  <1>2. PICK row \in Row : row = Released(job[j], "succeeded") /\ SetRow(j, row)
    BY <1>1, RowTypes DEF Publish, Release, Settled
  <1>3. /\ row.state = "succeeded" /\ row.owner = NoOwner
        /\ row.lease = "none" /\ row.cancel = job[j].cancel
        /\ row.attempts = job[j].attempts /\ row.generation = job[j].generation
    BY <1>1, <1>2, ReleasedFields DEF Settled
  <1>4. /\ job' \in [Jobs -> Row]
        /\ job'[j] = row
        /\ \A k \in Jobs \ {j} : job'[k] = job[k]
    BY <1>1, <1>2, RowChange DEF TableInv, TableTypeOK
  <1>5. /\ UNCHANGED <<ready, chunk>>
        /\ receipts' = receipts \cup {t}
        /\ \/ revisions' = [revisions EXCEPT ![d] = Append(@, j)]
           \/ UNCHANGED revisions
    BY DEF Publish, AppendRevision
  <1>6. revisions \in [Sessions -> Seq(Jobs \cup {Manual})]
    BY DEF TableInv, TableTypeOK
  <1>7. Append(revisions[d], j) \in Seq(Jobs \cup {Manual})
    BY <1>1, <1>6, AppendProperties
  <1> HIDE DEF j, d
  <1>8. TableTypeOK'
    BY <1>1, <1>4, <1>5, <1>6, <1>7 DEF TableInv, TableTypeOK
  <1>9. OwnedIffRunning'
    BY <1>3, <1>4 DEF TableInv, OwnedIffRunning, Running
  <1>10. OneClaimAtATime' /\ OneActivePerFingerprint'
    BY <1>3, <1>4, ActiveKept DEF Active, Running
  <1>11. AttemptsBounded'
    BY <1>3, <1>4 DEF TableInv, AttemptsBounded
  <1>12. CancelWins'
    BY <1>1, <1>3, <1>4 DEF TableInv, CancelWins
  <1>13. \A r \in receipts : r.job \in Jobs /\ r.job # j
    <2>1. \A r \in receipts : r.job \in Jobs
      BY DEF TableInv, TableTypeOK, Token
    <2>2. ~ \E r \in receipts : r.job = j
      BY <1>1 DEF TableInv, ReceiptIffSucceeded
    <2>3. QED
      BY <2>1, <2>2
  <1>14. ReceiptIffSucceeded'
    <2>1. t.job = j
      BY DEF j
    <2>2. \A k \in Jobs : job'[k].state = "succeeded" <=> \E r \in receipts' : r.job = k
      BY <1>3, <1>4, <1>5, <1>13, <2>1 DEF TableInv, ReceiptIffSucceeded
    <2>3. \A r \in receipts' : r.generation = job'[r.job].generation
      BY <1>1, <1>3, <1>4, <1>5, <1>13, <2>1 DEF TableInv, ReceiptIffSucceeded
    <2>4. \A q, r \in receipts' : q.job = r.job => q = r
      BY <1>5, <1>13, <2>1 DEF TableInv, ReceiptIffSucceeded
    <2>5. QED
      BY <2>2, <2>3, <2>4 DEF ReceiptIffSucceeded
  <1>15. RevisionsHaveReceipts'
    <2>1. \A s \in Sessions : \A n \in 1 .. Len(revisions[s]) :
             /\ revisions[s][n] \in Jobs \cup {Manual}
             /\ revisions[s][n] # j
      BY <1>1, <1>6, ElementOfSeq DEF TableInv, RevisionsHaveReceipts
    <2>2. \A k \in Jobs : job[k].state = "succeeded" => job'[k].state = "succeeded"
      BY <1>1, <1>4
    <2>3. CASE UNCHANGED revisions
      BY <2>1, <2>2, <2>3 DEF TableInv, RevisionsHaveReceipts, InputOf
    <2>4. CASE revisions' = [revisions EXCEPT ![d] = Append(@, j)]
      <3>1. /\ Len(revisions'[d]) = Len(revisions[d]) + 1
            /\ revisions'[d][Len(revisions[d]) + 1] = j
            /\ \A n \in 1 .. Len(revisions[d]) : revisions'[d][n] = revisions[d][n]
            /\ Len(revisions[d]) \in Nat
        BY <1>1, <1>6, <2>4, AppendProperties, LenProperties
      <3>2. \A s \in Sessions \ {d} : revisions'[s] = revisions[s]
        BY <1>6, <2>4
      <3>3. SessionOf[InputOf(j)] = d
        BY DEF d
      <3> SUFFICES ASSUME NEW s \in Sessions, NEW n \in 1 .. Len(revisions'[s]),
                          revisions'[s][n] # Manual
                   PROVE  /\ job'[revisions'[s][n]].state = "succeeded"
                          /\ SessionOf[InputOf(revisions'[s][n])] = s
                          /\ \A m \in 1 .. Len(revisions'[s]) :
                                revisions'[s][m] = revisions'[s][n] => m = n
        BY DEF RevisionsHaveReceipts, InputOf
      <3>4. CASE s # d
        BY <2>1, <2>2, <3>2, <3>4 DEF TableInv, RevisionsHaveReceipts
      <3>5. CASE s = d /\ n # Len(revisions[d]) + 1
        <4>1. n \in 1 .. Len(revisions[d]) /\ revisions'[s][n] = revisions[d][n]
          BY <3>1, <3>5
        <4>2. /\ job[revisions[d][n]].state = "succeeded"
              /\ SessionOf[InputOf(revisions[d][n])] = d
              /\ \A m \in 1 .. Len(revisions[d]) : revisions[d][m] = revisions[d][n] => m = n
              /\ revisions[d][n] \in Jobs
          BY <1>6, <2>1, <3>5, <4>1 DEF TableInv, RevisionsHaveReceipts
        <4>3. job'[revisions'[s][n]].state = "succeeded"
          BY <2>2, <4>1, <4>2
        <4>4. d \in Sessions /\ revisions'[s][n] # j
          BY <2>1, <3>5, <4>1
        <4>5. ASSUME NEW m \in 1 .. Len(revisions'[s]), revisions'[s][m] = revisions'[s][n]
              PROVE  m = n
          <5>1. m \in 1 .. Len(revisions'[d]) /\ revisions'[d][m] # j
            BY <3>5, <4>4, <4>5
          <5>2. m # Len(revisions[d]) + 1 /\ m \in 1 .. Len(revisions[d]) + 1
            BY <3>1, <5>1
          <5>3. m \in 1 .. Len(revisions[d])
            BY <3>1, <5>2
          <5>4. revisions'[d][m] = revisions[d][m]
            BY <3>1, <5>3
          <5>5. QED
            BY <3>5, <4>1, <4>2, <4>5, <5>3, <5>4
        <4>6. QED
          BY <3>5, <4>1, <4>2, <4>3, <4>5
      <3>6. CASE s = d /\ n = Len(revisions[d]) + 1
        <4>1. revisions'[s][n] = j /\ job'[j].state = "succeeded"
          BY <1>3, <1>4, <3>1, <3>6
        <4>2. ASSUME NEW m \in 1 .. Len(revisions'[s]), revisions'[s][m] = revisions'[s][n]
              PROVE  m = n
          <5>1. ASSUME m \in 1 .. Len(revisions[d]) PROVE FALSE
            BY <1>6, <2>1, <3>1, <3>6, <4>1, <4>2, <5>1
          <5>2. QED
            BY <3>1, <3>6, <5>1
        <4>3. QED
          BY <3>3, <3>6, <4>1, <4>2
      <3>7. QED
        BY <3>4, <3>5, <3>6
    <2>5. QED
      BY <1>5, <2>3, <2>4
  <1>16. AbsentIsFresh'
    BY <1>3, <1>4 DEF TableInv, AbsentIsFresh
  <1>17. QED
    BY <1>8, <1>9, <1>10, <1>11, <1>12, <1>14, <1>15, <1>16 DEF TableInv

\* insert_asr_job keeps TableInv, whichever state it inserts.
LEMMA InsertStep ==
    ASSUME TableInv, TableAssumption, NEW j \in Jobs, NEW s \in {"queued", "blocked_model", "failed"},
           InsertJob(j, s), ready' \in Seq(Jobs)
    PROVE  TableInv'
  <1> USE TableAssumption
  <1>0. s \in Active \cup Settled /\ job[j] \in Row
    BY DEF Active, Settled, TableInv, TableTypeOK
  <1>1. PICK row \in Row : row = [NoRow EXCEPT !.state = s] /\ SetRow(j, row)
    BY <1>0, RowTypes DEF InsertJob
  <1>2. /\ row.state = s /\ row.owner = NoOwner /\ row.lease = "none" /\ row.cancel = FALSE
        /\ row.attempts = 0 /\ row.generation = 0
    BY <1>1 DEF NoRow
  <1>3. /\ job' \in [Jobs -> Row]
        /\ job'[j] = row
        /\ \A k \in Jobs \ {j} : job'[k] = job[k]
    BY <1>1, RowChange DEF TableInv, TableTypeOK
  <1>4. /\ job[j].state = "absent" /\ NoActiveTwin(j)
        /\ UNCHANGED <<chunk, receipts, revisions>>
    BY DEF InsertJob
  <1>5. TableTypeOK'
    BY <1>3, <1>4 DEF TableInv, TableTypeOK
  <1>6. OwnedIffRunning'
    BY <1>2, <1>3 DEF TableInv, OwnedIffRunning, Running
  <1>7. OneClaimAtATime'
    BY <1>2, <1>3 DEF TableInv, OneClaimAtATime, Running
  <1>8. OneActivePerFingerprint'
    BY <1>3, <1>4 DEF TableInv, OneActivePerFingerprint, NoActiveTwin
  <1>9. AttemptsBounded'
    BY <1>2, <1>3 DEF TableInv, AttemptsBounded
  <1>10. CancelWins'
    BY <1>2, <1>3 DEF TableInv, CancelWins
  <1>11. ReceiptIffSucceeded' /\ RevisionsHaveReceipts'
    BY <1>2, <1>3, <1>4, AgreementKept
  <1>12. AbsentIsFresh'
    BY <1>2, <1>3 DEF TableInv, AbsentIsFresh
  <1>13. QED
    BY <1>5, <1>6, <1>7, <1>8, <1>9, <1>10, <1>11, <1>12 DEF TableInv

\* A job that stops being queued leaves a queue of jobs behind.
LEMMA LeaveReadyType ==
    ASSUME ready \in Seq(Jobs), NEW j, LeaveReady(j)
    PROVE  ready' \in Seq(Jobs)
  BY DropType DEF LeaveReady

\* request_asr_job_cancel keeps TableInv, for a waiting and for a running job.
LEMMA CancelStep ==
    ASSUME TableInv, TableAssumption, NEW j \in Jobs, RequestCancel(j)
    PROVE  TableInv'
  <1>1. job[j] \in Row /\ ready \in Seq(Jobs)
    BY DEF TableInv, TableTypeOK
  <1>2. CASE /\ job[j].state \in {"queued", "blocked_model"}
             /\ SetRow(j, [Released(job[j], "cancelled") EXCEPT !.cancel = TRUE])
             /\ LeaveReady(j)
             /\ UNCHANGED <<chunk, receipts, revisions>>
    <2>1. "cancelled" \in Settled /\ "cancelled" \notin Active /\ "cancelled" \notin Running
      BY DEF Settled, Active, Running
    <2>2. PICK old \in Row : old = Released(job[j], "cancelled")
      BY <1>1, <2>1, RowTypes
    <2>3. PICK row \in Row : row = [old EXCEPT !.cancel = TRUE]
      BY <2>2, RowTypes
    <2>4. /\ row.state = "cancelled" /\ row.owner = NoOwner
          /\ row.lease = "none" /\ row.cancel = TRUE
          /\ row.attempts = job[j].attempts /\ row.generation = job[j].generation
      BY <1>1, <2>1, <2>2, <2>3, ReleasedFields DEF Row
    <2>5. ready' \in Seq(Jobs)
      BY <1>1, <1>2, LeaveReadyType
    <2>6. QED
      BY <1>1, <1>2, <2>1, <2>2, <2>3, <2>4, <2>5, OneRowStep
  <1>3. CASE /\ job[j].state \in Running
             /\ SetRow(j, [job[j] EXCEPT !.cancel = TRUE])
             /\ UNCHANGED <<ready, chunk, receipts, revisions>>
    <2>1. PICK row \in Row : row = [job[j] EXCEPT !.cancel = TRUE]
      BY <1>1, RowTypes
    <2>2. /\ row.state = job[j].state /\ row.owner = job[j].owner
          /\ row.lease = job[j].lease /\ row.cancel = TRUE
          /\ row.attempts = job[j].attempts /\ row.generation = job[j].generation
      BY <1>1, <2>1 DEF Row
    <2>3. row.state \notin {"queued", "succeeded", "absent"}
      BY <1>3, <2>2 DEF Running
    <2>4. QED
      BY <1>1, <1>3, <2>1, <2>2, <2>3, OneRowStep DEF TableInv, OwnedIffRunning
  <1>4. QED
    BY <1>2, <1>3 DEF RequestCancel

\* retry_asr_job keeps TableInv: a new generation, with no receipt and no owner.
LEMMA RetryStep ==
    ASSUME TableInv, TableAssumption, NEW j \in Jobs, Retry(j)
    PROVE  TableInv'
  <1> USE TableAssumption
  <1>1. job[j] \in Row /\ ready \in Seq(Jobs)
    BY DEF TableInv, TableTypeOK
  <1>2. PICK row \in Row :
           /\ row = [NoRow EXCEPT !.state = "queued", !.generation = job[j].generation + 1]
           /\ SetRow(j, row)
    BY <1>1, RowTypes DEF Retry
  <1>3. /\ row.state = "queued" /\ row.owner = NoOwner /\ row.lease = "none"
        /\ row.cancel = FALSE /\ row.attempts = 0
        /\ row.generation = job[j].generation + 1 /\ row.generation \in Nat
    BY <1>1, <1>2 DEF NoRow, Row
  <1>4. /\ job' \in [Jobs -> Row]
        /\ job'[j] = row
        /\ \A k \in Jobs \ {j} : job'[k] = job[k]
    BY <1>2, RowChange DEF TableInv, TableTypeOK
  <1>5. /\ job[j].state \in {"blocked_model", "failed"}
        /\ \A k \in Jobs \ {j} : FingerprintOf[k] = FingerprintOf[j] => job[k].state \notin Active
        /\ ready' = Append(ready, j)
        /\ UNCHANGED <<chunk, receipts, revisions>>
    BY DEF Retry
  <1>6. TableTypeOK'
    BY <1>1, <1>4, <1>5, AppendProperties DEF TableInv, TableTypeOK
  <1>7. OwnedIffRunning'
    BY <1>3, <1>4 DEF TableInv, OwnedIffRunning, Running
  <1>8. OneClaimAtATime'
    BY <1>3, <1>4 DEF TableInv, OneClaimAtATime, Running
  <1>9. OneActivePerFingerprint'
    BY <1>4, <1>5 DEF TableInv, OneActivePerFingerprint
  <1>10. AttemptsBounded'
    BY <1>3, <1>4 DEF TableInv, AttemptsBounded
  <1>11. CancelWins'
    BY <1>3, <1>4 DEF TableInv, CancelWins
  <1>12. ReceiptIffSucceeded' /\ RevisionsHaveReceipts'
    BY <1>3, <1>4, <1>5, AgreementKept
  <1>13. AbsentIsFresh'
    BY <1>3, <1>4 DEF TableInv, AbsentIsFresh
  <1>14. QED
    BY <1>6, <1>7, <1>8, <1>9, <1>10, <1>11, <1>12, <1>13 DEF TableInv

\* recover_asr_jobs keeps TableInv although it may rewrite many rows at once.
LEMMA RecoverStep ==
    ASSUME TableInv, TableAssumption, NEW b \in Boots, Recover(b)
    PROVE  TableInv'
  <1> USE TableAssumption
  <1> DEFINE row(j) == Released(job[j], RecoveredState(job[j]))
  <1>1. \A j \in Jobs : job[j] \in Row
    BY DEF TableInv, TableTypeOK
  <1>2. \A j \in Jobs : /\ RecoveredState(job[j]) \in {"cancelled", "failed", "queued"}
                        /\ RecoveredState(job[j]) = "cancelled" <=> job[j].cancel
                        /\ RecoveredState(job[j]) = "queued" => job[j].attempts < MaxAttempts
    BY <1>1 DEF RecoveredState, Row
  <1>3. {"cancelled", "failed", "queued"} \subseteq Active \cup Settled
    BY DEF Active, Settled
  <1>4. \A j \in Jobs : /\ row(j) \in Row
                        /\ row(j).state = RecoveredState(job[j])
                        /\ row(j).owner = NoOwner /\ row(j).lease = "none"
                        /\ row(j).cancel = job[j].cancel
                        /\ row(j).attempts = job[j].attempts
                        /\ row(j).generation = job[j].generation
    <2>1. TAKE j \in Jobs
    <2>2. job[j] \in Row /\ RecoveredState(job[j]) \in Active \cup Settled
      BY <1>1, <1>2, <1>3
    <2>3. row(j) \in Row
      BY <2>2, RowTypes
    <2>4. QED
      BY <2>2, <2>3, ReleasedFields
  <1>5. \A j \in Jobs : \/ job'[j] = job[j]
                        \/ job'[j] = row(j) /\ job[j].state \in Running
    BY DEF Recover, Stale
  <1>6. job' \in [Jobs -> Row] /\ UNCHANGED <<ready, chunk, receipts, revisions>>
    BY <1>1, <1>4 DEF Recover
  <1> HIDE DEF row
  <1>7. TableTypeOK'
    BY <1>6 DEF TableInv, TableTypeOK
  <1>8. OwnedIffRunning'
    BY <1>2, <1>4, <1>5 DEF TableInv, OwnedIffRunning, Running
  <1>9. OneClaimAtATime' /\ OneActivePerFingerprint'
    <2>1. \A j \in Jobs : job'[j].state \in Running => job[j].state \in Running
      BY <1>2, <1>4, <1>5 DEF Running
    <2>2. \A j \in Jobs : job'[j].state \in Active => job[j].state \in Active
      BY <1>5 DEF Active
    <2>3. QED
      BY <2>1, <2>2, ActiveKept
  <1>10. AttemptsBounded'
    BY <1>2, <1>4, <1>5 DEF TableInv, AttemptsBounded
  <1>11. CancelWins'
    BY <1>2, <1>4, <1>5 DEF TableInv, CancelWins
  <1>12. ReceiptIffSucceeded' /\ RevisionsHaveReceipts'
    <2>1. \A j \in Jobs : job[j].state \in Running => job[j].state # "succeeded"
      BY DEF Running
    <2>2. QED
      BY <1>2, <1>4, <1>5, <1>6, <2>1, AgreementKept
  <1>13. AbsentIsFresh'
    BY <1>2, <1>4, <1>5 DEF TableInv, AbsentIsFresh
  <1>14. QED
    BY <1>7, <1>8, <1>9, <1>10, <1>11, <1>12, <1>13 DEF TableInv

\* Time that passes or is set back (a lease lapses or returns, a delayed job becomes
\* due) keeps TableInv.
LEMMA ClockStep ==
    ASSUME TableInv, TableAssumption, NEW j \in Jobs,
           LeaseLapses(j) \/ LeaseReturns(j) \/ BecomesDue(j)
    PROVE  TableInv'
  <1>1. job[j] \in Row /\ ready \in Seq(Jobs)
    BY DEF TableInv, TableTypeOK
  <1>2. CASE LeaseLapses(j) \/ LeaseReturns(j)
    <2>1. PICK l \in {"live", "lapsed"} :
             /\ SetRow(j, [job[j] EXCEPT !.lease = l])
             /\ UNCHANGED <<ready, chunk, receipts, revisions>>
      BY <1>2 DEF LeaseLapses, LeaseReturns
    <2>2. PICK row \in Row : row = [job[j] EXCEPT !.lease = l]
      BY <1>1, RowTypes
    <2>3. /\ row.state = job[j].state /\ row.owner = job[j].owner
          /\ row.lease = l /\ row.cancel = job[j].cancel
          /\ row.attempts = job[j].attempts /\ row.generation = job[j].generation
      BY <1>1, <2>2 DEF Row
    <2>4. /\ job[j].state \in Running /\ row.state \notin {"succeeded", "absent", "queued", "cancelled"}
          /\ job[j].state # "succeeded"
      BY <1>2, <2>3 DEF LeaseLapses, LeaseReturns, TableInv, OwnedIffRunning, Running
    <2>5. row.owner # NoOwner
      BY <2>3, <2>4 DEF TableInv, OwnedIffRunning
    <2>6. QED
      BY <1>1, <2>1, <2>2, <2>3, <2>4, <2>5, OneRowStep
  <1>3. CASE BecomesDue(j)
    <2>1. ready' \in Seq(Jobs)
      BY <1>1, <1>3, AppendProperties DEF BecomesDue
    <2>2. QED
      BY <1>3, <2>1 DEF BecomesDue, TableInv, AbsentIsFresh, TableTypeOK, OwnedIffRunning, OneClaimAtATime,
        OneActivePerFingerprint, AttemptsBounded, CancelWins, ReceiptIffSucceeded,
        RevisionsHaveReceipts, InputOf
  <1>4. QED
    BY <1>2, <1>3

\* update_chunk_integrity keeps TableInv: it only writes the chunk.
LEMMA VerdictStep ==
    ASSUME TableInv, TableAssumption, NEW c \in Chunks, NEW v \in {"available", "unavailable"},
           ChunkVerdict(c, v)
    PROVE  TableInv'
  <1>1. /\ UNCHANGED <<job, ready, receipts, revisions>>
        /\ chunk' = [chunk EXCEPT ![c] = v]
    BY DEF ChunkVerdict
  <1>2. chunk' \in [Chunks -> {"available", "unavailable"}]
    BY <1>1 DEF TableInv, TableTypeOK
  <1>3. QED
    BY <1>1, <1>2 DEF TableInv, AbsentIsFresh, TableTypeOK, OwnedIffRunning, OneClaimAtATime,
      OneActivePerFingerprint, AttemptsBounded, CancelWins, ReceiptIffSucceeded,
      RevisionsHaveReceipts, InputOf

\* create_manual_revision keeps TableInv: the new revision is nobody's result.
LEMMA EditStep ==
    ASSUME TableInv, TableAssumption, NEW s \in Sessions, SaveManualRevision(s)
    PROVE  TableInv'
  <1> USE TableAssumption
  <1>1. /\ UNCHANGED <<job, ready, chunk, receipts>>
        /\ revisions' = [revisions EXCEPT ![s] = Append(@, Manual)]
    BY DEF SaveManualRevision, AppendRevision
  <1>2. revisions \in [Sessions -> Seq(Jobs \cup {Manual})]
    BY DEF TableInv, TableTypeOK
  <1>3. Append(revisions[s], Manual) \in Seq(Jobs \cup {Manual})
    BY <1>2, AppendProperties
  <1>4. TableTypeOK'
    BY <1>1, <1>2, <1>3 DEF TableInv, TableTypeOK
  <1>5. /\ Len(revisions'[s]) = Len(revisions[s]) + 1
        /\ revisions'[s][Len(revisions[s]) + 1] = Manual
        /\ \A n \in 1 .. Len(revisions[s]) : revisions'[s][n] = revisions[s][n]
        /\ Len(revisions[s]) \in Nat
    BY <1>1, <1>2, AppendProperties, LenProperties
  <1>6. \A d \in Sessions \ {s} : revisions'[d] = revisions[d]
    BY <1>1, <1>2
  <1>7. RevisionsHaveReceipts'
    <2> SUFFICES ASSUME NEW d \in Sessions, NEW n \in 1 .. Len(revisions'[d]),
                        revisions'[d][n] # Manual
                 PROVE  /\ job[revisions'[d][n]].state = "succeeded"
                        /\ SessionOf[InputOf(revisions'[d][n])] = d
                        /\ \A m \in 1 .. Len(revisions'[d]) :
                              revisions'[d][m] = revisions'[d][n] => m = n
      BY <1>1 DEF RevisionsHaveReceipts, InputOf
    <2>1. CASE d # s
      BY <1>6, <2>1 DEF TableInv, RevisionsHaveReceipts
    <2>2. CASE d = s
      <3>1. n \in 1 .. Len(revisions[d]) /\ revisions'[d][n] = revisions[d][n]
        BY <1>5, <2>2
      <3>2. QED
        BY <1>5, <2>2, <3>1, SMTT(40) DEF TableInv, RevisionsHaveReceipts
    <2>3. QED
      BY <2>1, <2>2
  <1>8. QED
    BY <1>1, <1>4, <1>7 DEF TableInv, AbsentIsFresh, OwnedIffRunning, OneClaimAtATime,
      OneActivePerFingerprint, AttemptsBounded, CancelWins, ReceiptIffSucceeded

\* The migrated, empty catalog satisfies TableInv.
LEMMA TableInitInv ==
    ASSUME TableAssumption, TableInit
    PROVE  TableInv
  <1> USE TableAssumption
  <1>1. /\ \A j \in Jobs : job[j] = NoRow
        /\ job = [j \in Jobs |-> NoRow]
        /\ receipts = {}
        /\ \A s \in Sessions : revisions[s] = <<>>
    BY DEF TableInit
  <1>2. NoRow \in Row /\ NoRow.state = "absent" /\ NoRow.owner = NoOwner /\ NoRow.lease = "none"
        /\ NoRow.cancel = FALSE /\ NoRow.attempts = 0 /\ NoRow.generation = 0
    BY DEF NoRow, Row
  <1>3. TableTypeOK
    BY <1>1, <1>2, EmptySeq DEF TableInit, TableTypeOK
  <1>4. "absent" \notin Active /\ "absent" \notin Running
    BY DEF Active, Running
  <1>5. QED
    BY <1>1, <1>2, <1>3, <1>4 DEF TableInv, AbsentIsFresh, OwnedIffRunning, OneClaimAtATime,
      OneActivePerFingerprint, AttemptsBounded, CancelWins, ReceiptIffSucceeded,
      RevisionsHaveReceipts

-----------------------------------------------------------------------------
(* Any step of the table.                                                  *)

ByHolder(t) ==
    \/ Renew(t) \/ MarkTranscribing(t) \/ Fail(t) \/ AcknowledgeCancel(t)
    \/ \E speech \in BOOLEAN : Publish(t, speech)

ByUser(j) ==
    Enqueue(j) \/ InsertBlocked(j) \/ InsertFailed(j) \/ RequestCancel(j) \/ Retry(j)

ByOthers ==
    \/ \E b \in Boots : Recover(b)
    \/ \E c \in Chunks : \E v \in {"available", "unavailable"} : ChunkVerdict(c, v)
    \/ \E s \in Sessions : SaveManualRevision(s)
    \/ \E j \in Jobs : LeaseLapses(j) \/ BecomesDue(j)

TableStep ==
    \/ \E o \in Owners : \E j \in Jobs : Claim(o, j)
    \/ \E t \in Token : ByHolder(t)
    \/ \E j \in Jobs : ByUser(j) \/ LeaseReturns(j)
    \/ ByOthers
    \/ UNCHANGED table

\* Every transaction of every caller keeps TableInv.
LEMMA TableKept ==
    ASSUME TableInv, TableAssumption, TableStep
    PROVE  TableInv'
  <1>1. ASSUME NEW o \in Owners, NEW j \in Jobs, Claim(o, j) PROVE TableInv'
    BY <1>1, ClaimStep
  <1>2. ASSUME NEW t \in Token, ByHolder(t) PROVE TableInv'
    BY <1>2, RenewStep, MarkStep, ReleaseStep, PublishStep DEF ByHolder
  <1>3. ASSUME NEW j \in Jobs, ByUser(j) PROVE TableInv'
    <2>1. ready \in Seq(Jobs)
      BY DEF TableInv, TableTypeOK
    <2>2. CASE Enqueue(j)
      BY <2>1, <2>2, InsertStep, AppendProperties DEF Enqueue
    <2>3. CASE InsertBlocked(j) \/ InsertFailed(j)
      BY <2>1, <2>3, InsertStep DEF InsertBlocked, InsertFailed
    <2>4. QED
      BY <1>3, <2>2, <2>3, CancelStep, RetryStep DEF ByUser
  <1>4. CASE ByOthers \/ \E j \in Jobs : LeaseReturns(j)
    BY <1>4, RecoverStep, VerdictStep, EditStep, ClockStep DEF ByOthers
  <1>5. CASE UNCHANGED table
    BY <1>5 DEF table, TableInv, AbsentIsFresh, TableTypeOK, OwnedIffRunning, OneClaimAtATime,
      OneActivePerFingerprint, AttemptsBounded, CancelWins, ReceiptIffSucceeded,
      RevisionsHaveReceipts, InputOf
  <1>6. QED
    BY <1>1, <1>2, <1>3, <1>4, <1>5 DEF TableStep

-----------------------------------------------------------------------------
(* What one step may do to a claim and to the evidence.                    *)

\* No step but a claim gives a row a claim it did not have, and none lowers a
\* generation.
KeepsOrDrops(k) ==
    /\ job'[k].generation >= job[k].generation
    /\ \/ job'[k].owner = NoOwner
       \/ /\ job'[k].owner = job[k].owner
          /\ job'[k].generation = job[k].generation
          /\ job'[k].lease = "live" => job[k].lease = "live"
          /\ job'[k].state \in Running => job[k].state \in Running

EvidenceGrows ==
    /\ \A j \in Jobs : job[j].state = "succeeded" => job'[j] = job[j]
    /\ receipts \subseteq receipts'
    /\ \A s \in Sessions : \A n \in 1 .. Len(revisions[s]) :
         n <= Len(revisions'[s]) /\ revisions'[s][n] = revisions[s][n]

\* Generations are numbers, and a row that a step leaves alone keeps its claim.
LEMMA RowKeeps ==
    ASSUME TableInv, NEW k \in Jobs
    PROVE  /\ job[k].generation \in Nat
           /\ job'[k] = job[k] => KeepsOrDrops(k)
           /\ job'[k].owner = NoOwner /\ job'[k].generation = job[k].generation
                => KeepsOrDrops(k)
  BY DEF TableInv, TableTypeOK, Row, KeepsOrDrops

\* A step that leaves the evidence and the succeeded rows alone makes it no shorter.
LEMMA SameEvidence ==
    ASSUME TableInv, UNCHANGED <<receipts, revisions>>,
           \A j \in Jobs : job[j].state = "succeeded" => job'[j] = job[j]
    PROVE  EvidenceGrows
  BY LenProperties DEF TableInv, TableTypeOK, EvidenceGrows

\* The operations of claim holders neither revive a claim nor undo evidence.
LEMMA HolderEffect ==
    ASSUME TableInv, TableAssumption, NEW t \in Token, ByHolder(t)
    PROVE  (\A k \in Jobs : KeepsOrDrops(k)) /\ EvidenceGrows
  <1> USE TableAssumption
  <1>1. /\ t.job \in Jobs /\ job \in [Jobs -> Row] /\ job[t.job] \in Row
        /\ revisions \in [Sessions -> Seq(Jobs \cup {Manual})]
    BY DEF TableInv, TableTypeOK, Token
  <1>2. CASE Renew(t) \/ MarkTranscribing(t)
    <2>1. /\ job[t.job].lease = "live" /\ job[t.job].state \in Running
          /\ UNCHANGED <<receipts, revisions>>
      BY <1>2 DEF Renew, MarkTranscribing, MayMutate, Holds
    <2>2. /\ job'[t.job].owner = job[t.job].owner
          /\ job'[t.job].generation = job[t.job].generation
          /\ \A k \in Jobs \ {t.job} : job'[k] = job[k]
      <3>1. CASE SetRow(t.job, [job[t.job] EXCEPT !.lease = "live"])
        BY <1>1, <3>1 DEF SetRow, Row
      <3>2. CASE SetRow(t.job, [job[t.job] EXCEPT !.state = "transcribing"])
        BY <1>1, <3>2 DEF SetRow, Row
      <3>3. QED
        BY <1>2, <3>1, <3>2 DEF Renew, MarkTranscribing
    <2>3. \A k \in Jobs : KeepsOrDrops(k)
      BY <2>1, <2>2, RowKeeps DEF KeepsOrDrops
    <2>4. QED
      BY <2>1, <2>2, <2>3, SameEvidence DEF Running
  <1>3. CASE Fail(t) \/ AcknowledgeCancel(t)
    <2>1. PICK s \in Settled : Release(t.job, s)
      BY <1>3 DEF Fail, AcknowledgeCancel, Settled
    <2>2. job[t.job].state \in Running /\ UNCHANGED <<receipts, revisions>>
      BY <1>3 DEF Fail, AcknowledgeCancel, MayMutate, CancelSeen, Holds
    <2>3. /\ job'[t.job].owner = NoOwner /\ job'[t.job].generation = job[t.job].generation
          /\ \A k \in Jobs \ {t.job} : job'[k] = job[k]
      BY <1>1, <2>1, ReleasedFields DEF Release, SetRow
    <2>4. \A k \in Jobs : KeepsOrDrops(k)
      BY <2>3, RowKeeps
    <2>5. QED
      BY <2>2, <2>3, <2>4, SameEvidence DEF Running
  <1>4. CASE \E speech \in BOOLEAN : Publish(t, speech)
    <2> DEFINE d == SessionOf[InputOf(t.job)]
    <2>1. /\ job[t.job].state = "transcribing"
          /\ Release(t.job, "succeeded")
          /\ receipts' = receipts \cup {t}
          /\ \/ revisions' = [revisions EXCEPT ![d] = Append(@, t.job)]
             \/ UNCHANGED revisions
      BY <1>4 DEF Publish, MayPublish, AppendRevision
    <2> HIDE DEF d
    <2>2. /\ job'[t.job].owner = NoOwner /\ job'[t.job].generation = job[t.job].generation
          /\ \A k \in Jobs \ {t.job} : job'[k] = job[k]
      BY <1>1, <2>1, ReleasedFields DEF Release, SetRow, Settled
    <2>3. \A k \in Jobs : KeepsOrDrops(k)
      BY <2>2, RowKeeps
    <2>4. \A s \in Sessions : \A n \in 1 .. Len(revisions[s]) :
             n <= Len(revisions'[s]) /\ revisions'[s][n] = revisions[s][n]
      <3>1. CASE UNCHANGED revisions
        BY <1>1, <3>1, LenProperties
      <3>2. CASE revisions' = [revisions EXCEPT ![d] = Append(@, t.job)]
        BY <1>1, <3>2, AppendProperties, LenProperties
      <3>3. QED
        BY <2>1, <3>1, <3>2
    <2>5. QED
      BY <2>1, <2>2, <2>3, <2>4 DEF EvidenceGrows
  <1>5. QED
    BY <1>2, <1>3, <1>4 DEF ByHolder

\* Inserts, cancels and retries neither revive a claim nor undo evidence.
LEMMA ControlEffect ==
    ASSUME TableInv, TableAssumption, NEW j \in Jobs, ByUser(j)
    PROVE  (\A k \in Jobs : KeepsOrDrops(k)) /\ EvidenceGrows
  <1> USE TableAssumption
  <1>1. job \in [Jobs -> Row] /\ job[j] \in Row /\ job[j].generation \in Nat
    BY DEF TableInv, TableTypeOK, Row
  <1>2. UNCHANGED <<receipts, revisions>> /\ job[j].state # "succeeded"
    BY DEF ByUser, Enqueue, InsertBlocked, InsertFailed, InsertJob, RequestCancel, Retry, Running
  <1>3. ASSUME NEW row \in Row, SetRow(j, row),
               \/ row.owner = NoOwner /\ row.generation >= job[j].generation
               \/ row = [job[j] EXCEPT !.cancel = TRUE]
        PROVE  (\A k \in Jobs : KeepsOrDrops(k)) /\ EvidenceGrows
    <2>1. job'[j] = row /\ \A k \in Jobs \ {j} : job'[k] = job[k]
      BY <1>1, <1>3 DEF SetRow
    <2>2. KeepsOrDrops(j)
      BY <1>1, <1>3, <2>1 DEF KeepsOrDrops, Row
    <2>3. \A k \in Jobs : KeepsOrDrops(k)
      BY <2>1, <2>2, RowKeeps
    <2>4. QED
      BY <1>2, <2>1, <2>3, SameEvidence
  <1>4. ASSUME NEW s \in {"queued", "blocked_model", "failed"}, InsertJob(j, s)
        PROVE  (\A k \in Jobs : KeepsOrDrops(k)) /\ EvidenceGrows
    <2>1. s \in Active \cup Settled
      BY DEF Active, Settled
    <2>2. PICK row \in Row : row = [NoRow EXCEPT !.state = s]
      BY <2>1, RowTypes, <1>1
    <2>3. SetRow(j, row)
      BY <1>4, <2>2 DEF InsertJob
    <2>4. row.owner = NoOwner /\ row.generation = 0
      BY <2>2 DEF NoRow
    <2>5. job[j].generation = 0
      BY <1>4 DEF InsertJob, TableInv, AbsentIsFresh
    <2>6. row.generation >= job[j].generation
      BY <2>4, <2>5
    <2>7. QED
      BY <1>3, <2>2, <2>3, <2>4, <2>6
  <1>5. CASE Retry(j)
    <2>1. PICK row \in Row : row = [NoRow EXCEPT !.state = "queued", !.generation = job[j].generation + 1]
      BY <1>1, RowTypes
    <2>2. SetRow(j, row)
      BY <1>5, <2>1 DEF Retry
    <2>3. row.owner = NoOwner /\ row.generation = job[j].generation + 1
      BY <2>1 DEF NoRow
    <2>4. row.generation >= job[j].generation
      BY <1>1, <2>3
    <2>5. QED
      BY <1>3, <2>1, <2>2, <2>3, <2>4
  <1>6. CASE RequestCancel(j)
    <2>1. "cancelled" \in Active \cup Settled
      BY DEF Settled
    <2>2. PICK freed \in Row : freed = Released(job[j], "cancelled")
      BY <1>1, <2>1, RowTypes
    <2>3. freed.owner = NoOwner /\ freed.generation = job[j].generation
      BY <1>1, <2>1, <2>2, ReleasedFields
    <2>4. PICK row \in Row : row = [freed EXCEPT !.cancel = TRUE]
      BY <2>2, RowTypes
    <2>5. row.owner = NoOwner /\ row.generation >= job[j].generation
      BY <1>1, <2>2, <2>3, <2>4 DEF Row
    <2>6. PICK marked \in Row : marked = [job[j] EXCEPT !.cancel = TRUE]
      BY <1>1, RowTypes
    <2>7. SetRow(j, row) \/ SetRow(j, marked)
      BY <1>6, <2>2, <2>4, <2>6 DEF RequestCancel
    <2>8. QED
      BY <1>3, <2>4, <2>5, <2>6, <2>7
  <1>7. QED
    BY <1>4, <1>5, <1>6 DEF ByUser, Enqueue, InsertBlocked, InsertFailed

\* A recovery neither revives a claim nor undoes evidence.
LEMMA RecoverEffect ==
    ASSUME TableInv, TableAssumption, NEW b \in Boots, Recover(b)
    PROVE  (\A k \in Jobs : KeepsOrDrops(k)) /\ EvidenceGrows
  <1>1. \A k \in Jobs : \/ job'[k] = job[k]
                        \/ /\ job[k].state \in Running
                           /\ job'[k] = Released(job[k], RecoveredState(job[k]))
    BY DEF Recover, Stale
  <1>2. \A k \in Jobs : RecoveredState(job[k]) \in Active \cup Settled /\ job[k] \in Row
    BY DEF RecoveredState, Active, Settled, TableInv, TableTypeOK
  <1>3. \A k \in Jobs : job'[k] = job[k] \/ /\ job'[k].owner = NoOwner
                                            /\ job'[k].generation = job[k].generation
    BY <1>1, <1>2, ReleasedFields
  <1>4. \A k \in Jobs : KeepsOrDrops(k)
    BY <1>3, RowKeeps
  <1>5. QED
    BY <1>1, <1>4, SameEvidence DEF Recover, Running

\* The clock, integrity verdicts and edits neither revive a claim nor undo evidence.
LEMMA OtherEffect ==
    ASSUME TableInv, TableAssumption, ByOthers
    PROVE  (\A k \in Jobs : KeepsOrDrops(k)) /\ EvidenceGrows
  <1>1. /\ job \in [Jobs -> Row]
        /\ revisions \in [Sessions -> Seq(Jobs \cup {Manual})]
    BY DEF TableInv, TableTypeOK
  <1>2. ASSUME NEW j \in Jobs, LeaseLapses(j)
        PROVE  (\A k \in Jobs : KeepsOrDrops(k)) /\ EvidenceGrows
    <2>1. /\ job'[j].lease = "lapsed" /\ job'[j].owner = job[j].owner
          /\ job'[j].generation = job[j].generation /\ job'[j].state = job[j].state
          /\ \A k \in Jobs \ {j} : job'[k] = job[k]
      BY <1>1, <1>2 DEF LeaseLapses, SetRow, Row
    <2>2. \A k \in Jobs : KeepsOrDrops(k)
      BY <2>1, RowKeeps DEF KeepsOrDrops
    <2>3. job[j].state # "succeeded"
      BY <1>2 DEF LeaseLapses, TableInv, OwnedIffRunning, Running
    <2>4. QED
      BY <1>2, <2>1, <2>2, <2>3, SameEvidence DEF LeaseLapses
  <1>3. ASSUME UNCHANGED <<job, receipts, revisions>>
        PROVE  (\A k \in Jobs : KeepsOrDrops(k)) /\ EvidenceGrows
    BY <1>3, SameEvidence, RowKeeps
  <1>4. ASSUME NEW s \in Sessions, SaveManualRevision(s)
        PROVE  (\A k \in Jobs : KeepsOrDrops(k)) /\ EvidenceGrows
    <2>1. /\ UNCHANGED <<job, receipts>>
          /\ revisions' = [revisions EXCEPT ![s] = Append(@, Manual)]
      BY <1>4 DEF SaveManualRevision, AppendRevision
    <2>2. \A d \in Sessions : \A n \in 1 .. Len(revisions[d]) :
             n <= Len(revisions'[d]) /\ revisions'[d][n] = revisions[d][n]
      BY <1>1, <2>1, AppendProperties, LenProperties
    <2>3. QED
      BY <2>1, <2>2, RowKeeps DEF EvidenceGrows
  <1>5. QED
    BY <1>2, <1>3, <1>4, RecoverEffect DEF ByOthers, BecomesDue, ChunkVerdict

\* No transaction of any caller shortens or replaces evidence.
LEMMA EvidenceKept ==
    ASSUME TableInv, TableAssumption, TableStep
    PROVE  EvidenceGrows
  <1>1. ASSUME NEW o \in Owners, NEW j \in Jobs, Claim(o, j) PROVE EvidenceGrows
    <2>1. job[j].state = "queued" /\ UNCHANGED <<receipts, revisions>>
      BY <1>1 DEF Claim, Claimable
    <2>2. \A k \in Jobs \ {j} : job'[k] = job[k]
      BY <1>1 DEF Claim, SetRow, TableInv, TableTypeOK
    <2>3. QED
      BY <2>1, <2>2, SameEvidence
  <1>2. ASSUME NEW j \in Jobs, LeaseReturns(j) PROVE EvidenceGrows
    <2>1. job[j].state # "succeeded" /\ UNCHANGED <<receipts, revisions>>
      BY <1>2 DEF LeaseReturns, TableInv, OwnedIffRunning, Running
    <2>2. \A k \in Jobs \ {j} : job'[k] = job[k]
      BY <1>2 DEF LeaseReturns, SetRow, TableInv, TableTypeOK
    <2>3. QED
      BY <2>1, <2>2, SameEvidence
  <1>3. CASE UNCHANGED table
    BY <1>3, SameEvidence DEF table
  <1>4. QED
    BY <1>1, <1>2, <1>3, HolderEffect, ControlEffect, OtherEffect DEF TableStep

-----------------------------------------------------------------------------
(* The table implements Transcripts.  A row is mapped to the phase the     *)
(* user sees (PhaseOf), the revisions are the history.  Claims, renewals,  *)
(* lapsed leases, requeues and stale coordinators are invisible.  The      *)
(* interesting case is a recovery, which rewrites all stale rows at once   *)
(* but has at most one to rewrite, because of OneClaimAtATime.             *)

phases == [j \in Jobs |-> PhaseOf(job[j])]

\* The phase of a row, case by case of its state and cancel mark.
LEMMA PhaseFacts ==
    ASSUME NEW row \in Row
    PROVE  /\ row.state = "absent" => PhaseOf(row) = "new"
           /\ row.state = "succeeded" => PhaseOf(row) = "done"
           /\ row.state = "failed" => PhaseOf(row) = "failed"
           /\ row.state = "cancelled" => PhaseOf(row) = "cancelled"
           /\ row.state \in Active /\ row.cancel => PhaseOf(row) = "cancelling"
           /\ row.state \in Active /\ ~row.cancel => PhaseOf(row) = "open"
  BY DEF Row, PhaseOf, Active, Running

\* An UPDATE of one row changes the phase of that request at most.
LEMMA PhaseChange ==
    ASSUME TableInv, NEW j \in Jobs, NEW row \in Row, SetRow(j, row)
    PROVE  /\ phases' = [phases EXCEPT ![j] = PhaseOf(row)]
           /\ phases[j] = PhaseOf(job[j])
           /\ PhaseOf(row) = PhaseOf(job[j]) => phases' = phases
           /\ job[j] \in Row
  BY DEF TableInv, TableTypeOK, SetRow, phases

\* An UPDATE that changes the phase is a move of the request in Transcripts.
LEMMA Moves ==
    ASSUME TableInv, NEW j \in Jobs, NEW row \in Row, SetRow(j, row), NEW from,
           PhaseOf(job[j]) \in from
    PROVE  Promise!Move(j, from, PhaseOf(row))
  BY PhaseChange DEF Promise!Move, phases

\* An UPDATE that keeps the phase and writes no revision is invisible.
LEMMA Stutters ==
    ASSUME TableInv, NEW j \in Jobs, NEW row \in Row, SetRow(j, row), UNCHANGED revisions,
           PhaseOf(job[j]) = PhaseOf(row)
    PROVE  UNCHANGED Promise!tvars
  BY PhaseChange DEF Promise!tvars, phases

\* A claim is invisible to the user.
LEMMA ClaimStutters ==
    ASSUME TableInv, TableAssumption, NEW o \in Owners, NEW j \in Jobs, Claim(o, j)
    PROVE  UNCHANGED Promise!tvars
  <1>2. job[j] \in Row /\ job[j].state = "queued" /\ UNCHANGED revisions
    BY DEF TableInv, TableTypeOK, Claim, Claimable
  <1>3. PICK row \in Row :
           /\ row = [job[j] EXCEPT !.state = "preparing", !.owner = o, !.lease = "live",
                                   !.attempts = @ + 1, !.generation = @ + 1]
           /\ SetRow(j, row)
    BY <1>2, RowTypes DEF Claim
  <1>4. row.state = "preparing" /\ row.cancel = job[j].cancel
    BY <1>2, <1>3 DEF Row
  <1>5. PhaseOf(row) = PhaseOf(job[j])
    BY <1>2, <1>4, PhaseFacts DEF Active, Running, Row
  <1>6. QED
    BY <1>2, <1>3, <1>5, Stutters

\* Publishing, failing and acknowledging a cancel are the steps Commit, GiveUp and
\* Cancel; renewing and marking are invisible.
LEMMA HolderRefines ==
    ASSUME TableInv, TableAssumption, NEW t \in Token, ByHolder(t)
    PROVE  Promise!Next \/ UNCHANGED Promise!tvars
  <1> USE TableAssumption
  <1>1. t.job \in Jobs /\ job[t.job] \in Row
    BY DEF TableInv, TableTypeOK, Token
  <1>2. Running \subseteq Active /\ {"preparing", "transcribing"} = Running
    BY DEF Running, Active
  <1>3. CASE Renew(t)
    <2>1. PICK row \in Row : row = [job[t.job] EXCEPT !.lease = "live"] /\ SetRow(t.job, row)
      BY <1>1, <1>3, RowTypes DEF Renew
    <2>2. row.state = job[t.job].state /\ row.cancel = job[t.job].cancel
      BY <1>1, <2>1 DEF Row
    <2>3. job[t.job].state \in Running /\ UNCHANGED revisions
      BY <1>3 DEF Renew, MayMutate, Holds
    <2>4. PhaseOf(row) = PhaseOf(job[t.job])
      BY <1>1, <1>2, <2>2, <2>3, PhaseFacts DEF Row
    <2>5. QED
      BY <1>1, <2>1, <2>3, <2>4, Stutters
  <1>4. CASE MarkTranscribing(t)
    <2>1. PICK row \in Row :
             row = [job[t.job] EXCEPT !.state = "transcribing"] /\ SetRow(t.job, row)
      BY <1>1, <1>4, RowTypes DEF MarkTranscribing
    <2>2. row.state = "transcribing" /\ row.cancel = job[t.job].cancel
      BY <1>1, <2>1 DEF Row
    <2>3. job[t.job].state \in Running /\ UNCHANGED revisions
      BY <1>4 DEF MarkTranscribing, MayMutate, Holds
    <2>4. PhaseOf(row) = PhaseOf(job[t.job])
      BY <1>1, <1>2, <2>2, <2>3, PhaseFacts DEF Row
    <2>5. QED
      BY <1>1, <2>1, <2>3, <2>4, Stutters
  <1>5. ASSUME NEW s \in Settled, Release(t.job, s), job[t.job].state \in Running
        PROVE  \E row \in Row : /\ SetRow(t.job, row)
                                /\ row.state = s /\ row.cancel = job[t.job].cancel
    <2>1. s \in Active \cup Settled
      BY <1>5
    <2>2. /\ Released(job[t.job], s) \in Row
          /\ Released(job[t.job], s).state = s
          /\ Released(job[t.job], s).cancel = job[t.job].cancel
      BY <1>1, <2>1, RowTypes, ReleasedFields
    <2>3. QED
      BY <1>5, <2>2 DEF Release
  <1>6. CASE Fail(t)
    <2>1. /\ Release(t.job, "failed") /\ job[t.job].state \in Running /\ ~job[t.job].cancel
          /\ UNCHANGED revisions
      BY <1>6 DEF Fail, MayMutate, Holds
    <2>2. PICK row \in Row : SetRow(t.job, row) /\ row.state = "failed"
      BY <1>5, <2>1 DEF Settled
    <2>3. PhaseOf(job[t.job]) = "open" /\ PhaseOf(row) = "failed"
      BY <1>1, <1>2, <2>1, <2>2, PhaseFacts
    <2>4. Promise!GiveUp(t.job)
      BY <1>1, <2>1, <2>2, <2>3, Moves DEF Promise!GiveUp
    <2>5. QED
      BY <1>1, <2>4 DEF Promise!Next
  <1>7. CASE AcknowledgeCancel(t)
    <2>1. /\ Release(t.job, "cancelled") /\ job[t.job].state \in Running /\ job[t.job].cancel
          /\ UNCHANGED revisions
      BY <1>7 DEF AcknowledgeCancel, CancelSeen, Holds
    <2>2. PICK row \in Row : SetRow(t.job, row) /\ row.state = "cancelled"
      BY <1>5, <2>1 DEF Settled
    <2>3. PhaseOf(job[t.job]) = "cancelling" /\ PhaseOf(row) = "cancelled"
      BY <1>1, <1>2, <2>1, <2>2, PhaseFacts
    <2>4. Promise!Cancel(t.job)
      BY <1>1, <2>1, <2>2, <2>3, Moves DEF Promise!Cancel
    <2>5. QED
      BY <1>1, <2>4 DEF Promise!Next
  <1>8. CASE \E speech \in BOOLEAN : Publish(t, speech)
    <2>1. /\ Release(t.job, "succeeded") /\ job[t.job].state \in Running /\ ~job[t.job].cancel
          /\ \/ revisions' = [revisions EXCEPT ![SessionOf[InputOf(t.job)]] = Append(@, t.job)]
             \/ UNCHANGED revisions
      BY <1>8 DEF Publish, MayPublish, MayMutate, Holds, AppendRevision
    <2>2. PICK row \in Row : SetRow(t.job, row) /\ row.state = "succeeded"
      BY <1>5, <2>1 DEF Settled
    <2>3. PhaseOf(job[t.job]) = "open" /\ PhaseOf(row) = "done"
      BY <1>1, <1>2, <2>1, <2>2, PhaseFacts
    <2>4. Promise!Move(t.job, {"open"}, "done")
      BY <1>1, <2>2, <2>3, Moves
    <2>5. Promise!Commit(t.job)
      BY <1>1, <2>1, <2>4 DEF Promise!Commit, Promise!Write
    <2>6. QED
      BY <1>1, <2>5 DEF Promise!Next
  <1>9. QED
    BY <1>3, <1>4, <1>6, <1>7, <1>8 DEF ByHolder

\* Inserting, cancelling and retrying are the steps Submit, AskCancel or Cancel, and Reopen.
LEMMA ControlRefines ==
    ASSUME TableInv, TableAssumption, NEW j \in Jobs, ByUser(j)
    PROVE  Promise!Next \/ UNCHANGED Promise!tvars
  <1> USE TableAssumption
  <1>1. job[j] \in Row /\ UNCHANGED revisions
    BY DEF TableInv, TableTypeOK, ByUser, Enqueue, InsertBlocked, InsertFailed, InsertJob,
      RequestCancel, Retry
  <1>2. {"queued", "blocked_model"} \subseteq Active /\ Running \subseteq Active
        /\ {"failed", "cancelled"} \subseteq Settled
    BY DEF Active, Settled
  <1>3. ASSUME NEW s \in {"queued", "blocked_model", "failed"}, InsertJob(j, s)
        PROVE  Promise!Next
    <2>1. s \in Active \cup Settled
      BY <1>2
    <2>2. PICK row \in Row : row = [NoRow EXCEPT !.state = s] /\ SetRow(j, row)
      BY <1>1, <1>3, <2>1, RowTypes DEF InsertJob
    <2>3. row.state = s /\ ~row.cancel
      BY <2>2 DEF NoRow
    <2>4. PhaseOf(job[j]) = "new" /\ PhaseOf(row) \in {"open", "failed"}
      BY <1>1, <1>2, <1>3, <2>3, PhaseFacts DEF InsertJob
    <2>5. Promise!Move(j, {"new"}, "open") \/ Promise!Move(j, {"new"}, "failed")
      BY <2>2, <2>4, Moves
    <2>6. Promise!Submit(j)
      BY <1>1, <2>5 DEF Promise!Submit
    <2>7. QED
      BY <2>6 DEF Promise!Next
  <1>4. CASE RequestCancel(j) /\ job[j].state \in {"queued", "blocked_model"}
    <2>1. SetRow(j, [Released(job[j], "cancelled") EXCEPT !.cancel = TRUE])
      BY <1>4 DEF RequestCancel, Running
    <2>2. PICK old \in Row : old = Released(job[j], "cancelled")
      BY <1>1, <1>2, RowTypes
    <2>3. PICK row \in Row : row = [old EXCEPT !.cancel = TRUE]
      BY <2>2, RowTypes
    <2>4. row.state = "cancelled"
      BY <1>1, <1>2, <2>2, <2>3, ReleasedFields DEF Row
    <2>5. ~job[j].cancel
      BY <1>4 DEF TableInv, CancelWins, Running
    <2>6. PhaseOf(job[j]) = "open" /\ PhaseOf(row) = "cancelled"
      BY <1>1, <1>2, <1>4, <2>4, <2>5, PhaseFacts
    <2>7. Promise!Cancel(j)
      BY <1>1, <2>1, <2>2, <2>3, <2>6, Moves DEF Promise!Cancel
    <2>8. QED
      BY <2>7 DEF Promise!Next
  <1>5. CASE RequestCancel(j) /\ job[j].state \notin {"queued", "blocked_model"}
    <2>1. /\ SetRow(j, [job[j] EXCEPT !.cancel = TRUE])
          /\ job[j].state \in Running /\ ~job[j].cancel
      BY <1>5 DEF RequestCancel
    <2>2. PICK row \in Row : row = [job[j] EXCEPT !.cancel = TRUE]
      BY <1>1, RowTypes
    <2>3. row.state = job[j].state /\ row.cancel
      BY <1>1, <2>2 DEF Row
    <2>4. PhaseOf(job[j]) = "open" /\ PhaseOf(row) = "cancelling"
      BY <1>1, <1>2, <2>1, <2>3, PhaseFacts
    <2>5. Promise!AskCancel(j)
      BY <1>1, <2>1, <2>2, <2>4, Moves DEF Promise!AskCancel
    <2>6. QED
      BY <2>5 DEF Promise!Next
  <1>6. CASE Retry(j)
    <2>1. PICK row \in Row :
             /\ row = [NoRow EXCEPT !.state = "queued", !.generation = job[j].generation + 1]
             /\ SetRow(j, row)
      BY <1>1, <1>6, RowTypes DEF Retry
    <2>2. PhaseOf(row) = "open"
      BY <1>2, <2>1, PhaseFacts DEF NoRow
    <2>3. CASE job[j].state = "failed"
      <3>1. PhaseOf(job[j]) = "failed"
        BY <1>1, <2>3, PhaseFacts
      <3>2. Promise!Reopen(j)
        BY <1>1, <2>1, <2>2, <3>1, Moves DEF Promise!Reopen
      <3>3. QED
        BY <3>2 DEF Promise!Next
    <2>4. CASE job[j].state = "blocked_model"
      <3>1. ~job[j].cancel
        BY <2>4 DEF TableInv, CancelWins, Running
      <3>2. PhaseOf(job[j]) = "open"
        BY <1>1, <1>2, <2>4, <3>1, PhaseFacts
      <3>3. QED
        BY <1>1, <2>1, <2>2, <3>2, Stutters
    <2>5. QED
      BY <1>6, <2>3, <2>4 DEF Retry
  <1>7. QED
    BY <1>3, <1>4, <1>5, <1>6 DEF ByUser, Enqueue, InsertBlocked, InsertFailed

\* One recovery may rewrite many rows, but only one of them was running.
LEMMA RecoverRefines ==
    ASSUME TableInv, TableAssumption, NEW b \in Boots, Recover(b)
    PROVE  Promise!Next \/ UNCHANGED Promise!tvars
  <1> USE TableAssumption
  <1>1. UNCHANGED revisions /\ job \in [Jobs -> Row]
    BY DEF TableInv, TableTypeOK, Recover
  <1>2. CASE \A j \in Jobs : ~Stale(j, b)
    <2>1. job' = job
      BY <1>1, <1>2 DEF Recover
    <2>2. QED
      BY <1>1, <2>1 DEF Promise!tvars
  <1>3. ASSUME NEW j \in Jobs, Stale(j, b)
        PROVE  Promise!Next \/ UNCHANGED Promise!tvars
    <2>1. \A k \in Jobs \ {j} : ~Stale(k, b)
      BY <1>3 DEF Stale, TableInv, OneClaimAtATime
    <2>2. /\ RecoveredState(job[j]) \in {"cancelled", "failed", "queued"}
          /\ RecoveredState(job[j]) = "cancelled" <=> job[j].cancel
      BY <1>1 DEF RecoveredState, Row
    <2>3. RecoveredState(job[j]) \in Active \cup Settled /\ "queued" \in Active
      BY <2>2 DEF Active, Settled
    <2>4. PICK row \in Row : row = Released(job[j], RecoveredState(job[j]))
      BY <1>1, <2>3, RowTypes
    <2>5. row.state = RecoveredState(job[j]) /\ row.cancel = job[j].cancel
      BY <1>1, <2>3, <2>4, ReleasedFields
    <2>6. SetRow(j, row)
      BY <1>1, <1>3, <2>1, <2>4 DEF Recover, SetRow
    <2>7. job[j].state \in Active /\ job[j] \in Row
      BY <1>1, <1>3 DEF Stale, Active
    <2>8. CASE RecoveredState(job[j]) = "cancelled"
      <3>1. PhaseOf(job[j]) = "cancelling" /\ PhaseOf(row) = "cancelled"
        BY <2>2, <2>5, <2>7, <2>8, PhaseFacts
      <3>2. Promise!Cancel(j)
        BY <1>1, <2>6, <3>1, Moves DEF Promise!Cancel
      <3>3. QED
        BY <3>2 DEF Promise!Next
    <2>9. CASE RecoveredState(job[j]) = "failed"
      <3>1. PhaseOf(job[j]) = "open" /\ PhaseOf(row) = "failed"
        BY <2>2, <2>5, <2>7, <2>9, PhaseFacts
      <3>2. Promise!GiveUp(j)
        BY <1>1, <2>6, <3>1, Moves DEF Promise!GiveUp
      <3>3. QED
        BY <3>2 DEF Promise!Next
    <2>10. CASE RecoveredState(job[j]) = "queued"
      <3>1. PhaseOf(job[j]) = "open" /\ PhaseOf(row) = "open"
        BY <2>2, <2>3, <2>5, <2>7, <2>10, PhaseFacts
      <3>2. QED
        BY <1>1, <2>6, <3>1, Stutters
    <2>11. QED
      BY <2>2, <2>8, <2>9, <2>10
  <1>4. QED
    BY <1>2, <1>3

\* An edit is the step Edit; the clock and integrity verdicts are invisible.
LEMMA OtherRefines ==
    ASSUME TableInv, TableAssumption,
           ByOthers \/ \E j \in Jobs : LeaseReturns(j)
    PROVE  Promise!Next \/ UNCHANGED Promise!tvars
  <1>1. ASSUME NEW j \in Jobs, LeaseLapses(j) \/ LeaseReturns(j)
        PROVE  UNCHANGED Promise!tvars
    <2>1. job[j] \in Row
      BY DEF TableInv, TableTypeOK
    <2>2. PICK row \in Row : /\ SetRow(j, row) /\ UNCHANGED revisions
                             /\ \/ row = [job[j] EXCEPT !.lease = "lapsed"]
                                \/ row = [job[j] EXCEPT !.lease = "live"]
      BY <1>1, <2>1, RowTypes, TableAssumption DEF LeaseLapses, LeaseReturns
    <2>3. row.state = job[j].state /\ row.cancel = job[j].cancel
      BY <2>1, <2>2 DEF Row
    <2>4. PhaseOf(row) = PhaseOf(job[j])
      BY <2>3 DEF PhaseOf
    <2>5. QED
      BY <2>2, <2>4, Stutters
  <1>2. ASSUME NEW s \in Sessions, SaveManualRevision(s) PROVE Promise!Next
    <2>1. /\ UNCHANGED job
          /\ revisions' = [revisions EXCEPT ![s] = Append(@, Manual)]
          /\ Editable(s)
      BY <1>2 DEF SaveManualRevision, AppendRevision
    <2>2. revisions[s] # <<>>
      <3>1. PICK n \in 1 .. Len(revisions[s]) : TRUE
        BY <2>1 DEF Editable
      <3>2. Len(revisions[s]) # 0
        BY <3>1, LenProperties DEF TableInv, TableTypeOK
      <3>3. QED
        BY <3>2
    <2>3. Promise!Edit(s)
      BY <2>1, <2>2 DEF Promise!Edit, Promise!Write
    <2>4. QED
      BY <2>3 DEF Promise!Next
  <1>3. ASSUME UNCHANGED <<job, revisions>> PROVE UNCHANGED Promise!tvars
    BY <1>3 DEF Promise!tvars
  <1>4. QED
    BY <1>1, <1>2, <1>3, RecoverRefines DEF ByOthers, BecomesDue, ChunkVerdict

\* The empty catalog is the initial state of Transcripts.
LEMMA TableInitRefines ==
    ASSUME TableInit
    PROVE  Promise!Init
  <1>1. job = [j \in Jobs |-> NoRow] /\ revisions = [s \in Sessions |-> <<>>]
    BY DEF TableInit
  <1>2. NoRow \in Row /\ NoRow.state = "absent"
    BY DEF NoRow, Row
  <1>3. PhaseOf(NoRow) = "new"
    BY <1>2, PhaseFacts
  <1>4. QED
    BY <1>1, <1>3 DEF Promise!Init

\* Every transaction of every caller is a step of Transcripts or invisible.
LEMMA TableRefines ==
    ASSUME TableInv, TableAssumption, TableStep
    PROVE  [Promise!Next]_(Promise!tvars)
  <1>1. CASE UNCHANGED table
    BY <1>1 DEF table, Promise!tvars
  <1>2. QED
    BY <1>1, ClaimStutters, HolderRefines, ControlRefines, OtherRefines DEF TableStep
=============================================================================
