-------------------------- MODULE AsrClaims_proofs --------------------------
(***************************************************************************)
(* Theorems about AsrClaims: the promises of the job table hold however    *)
(* many coordinators use it, with claims of any age.  Every step is a      *)
(* TableStep, so TableInv comes from JobTable_proofs; what is added here   *)
(* is about the tokens: they fence because no token is ahead of its row,   *)
(* and a claim that was lost stays lost.                                   *)
(***************************************************************************)
EXTENDS AsrClaims, JobTable_proofs

Inv == TableInv /\ TypeOK /\ TokensFence

\* Every step of every caller is a transaction of the table, or nothing.
LEMMA StepsOfTable ==
    ASSUME TypeOK, [Next]_vars
    PROVE  TableStep
  <1>1. ASSUME NEW o \in Owners, ClaimNext(o) PROVE TableStep
    BY <1>1 DEF ClaimNext, TableStep
  <1>2. ASSUME NEW t \in issued, Holder(t) PROVE TableStep
    <2>1. t \in Token /\ ByHolder(t)
      BY <1>2 DEF TypeOK, Holder, ByHolder
    <2>2. QED
      BY <2>1 DEF TableStep
  <1>3. ASSUME NEW j \in Jobs, Control(j) PROVE TableStep
    <2>1. ByUser(j)
      BY <1>3 DEF Control, ByUser
    <2>2. QED
      BY <2>1 DEF TableStep
  <1>4. CASE \/ \E j \in Jobs : Clock(j)
             \/ \E b \in Boots : RecoverBoot(b)
             \/ \E c \in Chunks : Verdict(c)
             \/ \E s \in Sessions : Edit(s)
    BY <1>4 DEF Clock, RecoverBoot, Verdict, Edit, ByOthers, TableStep
  <1>5. CASE UNCHANGED vars
    BY <1>5 DEF vars, table, TableStep
  <1>6. QED
    BY <1>1, <1>2, <1>3, <1>4, <1>5 DEF Next

\* A step other than a claim issues no token, and keeps or drops every claim.
LEMMA ClaimOrKeep ==
    ASSUME Inv, TableAssumption, [Next]_vars
    PROVE  \/ \E o \in Owners : ClaimNext(o)
           \/ UNCHANGED issued /\ \A k \in Jobs : KeepsOrDrops(k)
  <1>1. ASSUME NEW t \in issued, Holder(t)
        PROVE  UNCHANGED issued /\ \A k \in Jobs : KeepsOrDrops(k)
    <2>1. t \in Token /\ ByHolder(t) /\ UNCHANGED issued
      BY <1>1 DEF Inv, TypeOK, Holder, ByHolder
    <2>2. QED
      BY <2>1, HolderEffect DEF Inv
  <1>2. ASSUME NEW j \in Jobs, Control(j)
        PROVE  UNCHANGED issued /\ \A k \in Jobs : KeepsOrDrops(k)
    <2>1. ByUser(j) /\ UNCHANGED issued
      BY <1>2 DEF Control, ByUser
    <2>2. QED
      BY <2>1, ControlEffect DEF Inv
  <1>3. CASE \/ \E j \in Jobs : Clock(j)
             \/ \E b \in Boots : RecoverBoot(b)
             \/ \E c \in Chunks : Verdict(c)
             \/ \E s \in Sessions : Edit(s)
    <2>1. ByOthers /\ UNCHANGED issued
      BY <1>3 DEF Clock, RecoverBoot, Verdict, Edit, ByOthers
    <2>2. QED
      BY <2>1, OtherEffect DEF Inv
  <1>4. CASE UNCHANGED vars
    BY <1>4, RowKeeps DEF Inv, vars
  <1>5. QED
    BY <1>1, <1>2, <1>3, <1>4 DEF Next

\* A claim raises the generation of its row by one; it touches no other row.
LEMMA ClaimEffect ==
    ASSUME Inv, NEW o \in Owners, NEW j \in Jobs, Claim(o, j)
    PROVE  /\ job'[j].owner = o
           /\ job'[j].generation = job[j].generation + 1
           /\ job[j].generation \in Nat
           /\ \A k \in Jobs \ {j} : job'[k] = job[k]
  BY DEF Inv, TypeOK, TableTypeOK, Claim, SetRow, Row

\* Every step of every caller keeps the tokens fencing.
LEMMA TokensStep ==
    ASSUME Inv, TableAssumption, [Next]_vars
    PROVE  TypeOK' /\ TokensFence'
  <1>1. TableTypeOK'
    BY StepsOfTable, TableKept DEF Inv, TableInv
  <1>2. CASE UNCHANGED issued /\ \A k \in Jobs : KeepsOrDrops(k)
    <2>1. TypeOK'
      BY <1>1, <1>2 DEF Inv, TypeOK
    <2>2. TokensFence'
      BY <1>1, <1>2 DEF Inv, KeepsOrDrops, TokensFence, TypeOK, TableTypeOK, Token, TokenOf, Row
    <2>3. QED
      BY <2>1, <2>2
  <1>3. ASSUME NEW o \in Owners, ClaimNext(o)
        PROVE  TypeOK' /\ TokensFence'
    <2>1. PICK j \in Jobs : Claim(o, j) /\ issued' = issued \cup
               {[job |-> j, owner |-> o, generation |-> job[j].generation + 1]}
      BY <1>3 DEF ClaimNext
    <2>2. /\ job'[j].owner = o
          /\ job'[j].generation = job[j].generation + 1
          /\ job[j].generation \in Nat
          /\ \A k \in Jobs \ {j} : job'[k] = job[k]
      BY <2>1, ClaimEffect
    <2>3. TypeOK'
      BY <1>1, <2>1, <2>2 DEF Inv, TypeOK, Token
    <2>4. TokensFence'
      <3>0. PICK new : new = [job |-> j, owner |-> o, generation |-> job[j].generation + 1]
        OBVIOUS
      <3>1. /\ issued' = issued \cup {new}
            /\ new.job = j /\ new.generation = job[j].generation + 1
            /\ new.generation \in Nat
        BY <2>1, <2>2, <3>0
      <3>2. \A t \in issued :
               /\ t.job \in Jobs /\ t.generation \in Nat
               /\ job[t.job].generation \in Nat
               /\ t.generation <= job[t.job].generation
               /\ t.job = j => t.generation < new.generation
        <4>1. TAKE t \in issued
        <4>2. /\ t.job \in Jobs /\ t.generation \in Nat
              /\ job[t.job].generation \in Nat
              /\ t.generation <= job[t.job].generation
          BY DEF Inv, TokensFence, TypeOK, TableTypeOK, Token, Row
        <4>3. QED
          BY <2>2, <3>1, <4>2
      <3>3. \A t, u \in issued' : t.job = u.job /\ t.generation = u.generation => t = u
        <4>1. TAKE t, u \in issued'
        <4>2. CASE t \in issued /\ u \in issued
          BY <4>2 DEF Inv, TokensFence
        <4>3. \A w \in issued : w.job = new.job => w.generation # new.generation
          BY <3>1, <3>2
        <4>4. QED
          BY <3>1, <4>2, <4>3, Zenon
      <3>4. \A t \in issued' : t.generation <= job'[t.job].generation
        <4>1. \A t \in issued : t.job # j => job'[t.job] = job[t.job]
          BY <2>2, <3>2
        <4>2. \A t \in issued : t.job = j => t.generation <= job'[j].generation
          BY <2>2, <3>1, <3>2
        <4>3. \A t \in issued : t.generation <= job'[t.job].generation
          BY <3>2, <4>1, <4>2
        <4>4. new.generation <= job'[new.job].generation
          BY <2>2, <3>1
        <4>5. QED
          BY <3>1, <4>3, <4>4
      <3>5. ASSUME NEW k \in Jobs, job'[k].owner # NoOwner
            PROVE  [job |-> k, owner |-> job'[k].owner, generation |-> job'[k].generation] \in issued'
        <4>1. CASE k = j
          BY <2>2, <3>0, <3>1, <4>1
        <4>2. CASE k # j
          BY <2>2, <3>1, <3>5, <4>2 DEF Inv, TokensFence, TokenOf
        <4>3. QED
          BY <4>1, <4>2
      <3>6. QED
        BY <3>3, <3>4, <3>5 DEF TokensFence, TokenOf
    <2>5. QED
      BY <2>3, <2>4
  <1>4. QED
    BY <1>2, <1>3, ClaimOrKeep

\* Every reachable state satisfies the inductive invariant.
THEOREM Invariance == Spec => []Inv
  <1>1. Init => Inv
    <2> SUFFICES ASSUME Init PROVE Inv
      OBVIOUS
    <2>1. TableInv /\ issued = {}
      BY TableInitInv, TableAssumption DEF Init
    <2>2. \A j \in Jobs : job[j].owner = NoOwner
      BY DEF Init, TableInit, NoRow
    <2>3. QED
      BY <2>1, <2>2 DEF Inv, TableInv, TypeOK, TokensFence
  <1>2. Inv /\ [Next]_vars => Inv'
    BY StepsOfTable, TableKept, TokensStep, TableAssumption DEF Inv
  <1>3. QED
    BY <1>1, <1>2, PTL DEF Spec

\* A token that does not hold its row before a step does not hold it after.
LEMMA LostStep ==
    ASSUME Inv, TableAssumption, [Next]_vars, NEW t \in issued, Holds(t)'
    PROVE  Holds(t)
  <1> USE TableAssumption
  <1>1. t \in Token /\ t.job \in Jobs /\ t.owner # NoOwner
    BY DEF Inv, TypeOK, TableTypeOK, Token
  <1>2. ASSUME \A k \in Jobs : KeepsOrDrops(k) PROVE Holds(t)
    BY <1>1, <1>2 DEF KeepsOrDrops, Holds, Owns
  <1>3. ASSUME NEW o \in Owners, ClaimNext(o) PROVE Holds(t)
    <2>1. PICK j \in Jobs : Claim(o, j)
      BY <1>3 DEF ClaimNext
    <2>2. /\ \A k \in Jobs \ {j} : job'[k] = job[k]
          /\ job'[j].generation = job[j].generation + 1
          /\ job[j].generation \in Nat
      BY <2>1, ClaimEffect
    <2>3. t.generation \in Nat
      BY <1>1 DEF Token
    <2>4. t.job # j
      BY <1>1, <2>2, <2>3 DEF Inv, TokensFence, Holds, Owns
    <2>5. QED
      BY <1>1, <2>2, <2>4 DEF Holds, Owns
  <1>4. QED
    BY <1>2, <1>3, ClaimOrKeep

-----------------------------------------------------------------------------
(* The theorems.                                                           *)

\* The CAS on owner, generation and lease fences: a coordinator whose claim lapsed,
\* was recovered or was superseded can never renew, fail or publish again.
THEOREM Fencing == Spec => LostClaimStaysLost
  <1>1. Inv /\ [Next]_vars => [\A t \in issued : ~Holds(t) => ~Holds(t)']_vars
    BY LostStep, TableAssumption
  <1>2. QED
    BY <1>1, Invariance, PTL DEF Spec, LostClaimStaysLost

\* No cancel, retry, recovery or edit takes back a published receipt or revision.
THEOREM Finality == Spec => EvidenceIsFinal
  <1>1. Inv /\ [Next]_vars =>
          [/\ \A j \in Jobs : job[j].state = "succeeded" => job'[j] = job[j]
           /\ receipts \subseteq receipts'
           /\ \A s \in Sessions : \A n \in 1 .. Len(revisions[s]) :
                n <= Len(revisions'[s]) /\ revisions'[s][n] = revisions[s][n]]_table
    BY StepsOfTable, EvidenceKept, TableAssumption DEF Inv, EvidenceGrows
  <1>2. QED
    BY <1>1, Invariance, PTL DEF Spec, EvidenceIsFinal

\* The job table implements the promise made to the user, whoever its callers are.
THEOREM Refinement == Spec => ImplementsTranscripts
  <1>1. Init => Promise!Init
    BY TableInitRefines DEF Init
  <1>2. Inv /\ [Next]_vars => [Promise!Next]_(Promise!tvars)
    BY StepsOfTable, TableRefines, TableAssumption DEF Inv
  <1>3. QED
    BY <1>1, <1>2, Invariance, PTL DEF Spec, ImplementsTranscripts, Promise!Spec

\* Every row the catalog can hold is a row of the schema.
THEOREM TypeCorrect == Spec => []TypeOK
  BY Invariance, PTL DEF Inv, TableInv

\* At no time do two jobs run, over all workers, boots and recoveries.
THEOREM SingleClaim == Spec => []OneClaimAtATime
  BY Invariance, PTL DEF Inv, TableInv

\* A row has an owner and a lease exactly while it runs, so recovery can free it.
THEOREM RunningIsOwned == Spec => []OwnedIffRunning
  BY Invariance, PTL DEF Inv, TableInv

\* The unique index on active fingerprints is never violated by a retry or recovery.
THEOREM SingleActive == Spec => []OneActivePerFingerprint
  BY Invariance, PTL DEF Inv, TableInv

\* A job is claimed at most MaxAttempts times per generation, and is never left queued
\* with its attempts used up.
THEOREM BoundedAttempts == Spec => []AttemptsBounded
  BY Invariance, PTL DEF Inv, TableInv

\* Once a cancel was accepted the job is not failed, requeued or published.
THEOREM CancelPrevails == Spec => []CancelWins
  BY Invariance, PTL DEF Inv, TableInv

\* Success and receipt come together, and the receipt is of the row's last claim.
THEOREM SuccessIsReceipted == Spec => []ReceiptIffSucceeded
  BY Invariance, PTL DEF Inv, TableInv

\* A machine-made revision comes from a job that succeeded, once, in its session.
THEOREM RevisionsAreReceipted == Spec => []RevisionsHaveReceipts
  BY Invariance, PTL DEF Inv, TableInv

\* Generations number the claims of a job without repetition.
THEOREM TokensAreFences == Spec => []TokensFence
  BY Invariance, PTL DEF Inv, TableInv
=============================================================================
