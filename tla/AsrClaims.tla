------------------------------ MODULE AsrClaims ------------------------------
(***************************************************************************)
(* The job table as its callers may use it: any number of coordinators,    *)
(* of several boots, claim jobs and later present the token of any claim   *)
(* they were ever given, in any order and however late.  Everything the    *)
(* catalog promises here rests on the fencing of the SQL statements, not   *)
(* on there being one worker.                                              *)
(***************************************************************************)
EXTENDS JobTable

VARIABLE issued      \* the claim tokens handed out so far

vars == <<job, ready, chunk, receipts, revisions, issued>>

Init == TableInit /\ issued = {}

-----------------------------------------------------------------------------
ClaimNext(o) ==
    \E j \in Jobs :
        /\ Claim(o, j)
        /\ issued' = issued \cup
             {[job |-> j, owner |-> o, generation |-> job[j].generation + 1]}

Holder(t) ==
    /\ \/ Renew(t)
       \/ MarkTranscribing(t)
       \/ Fail(t)
       \/ AcknowledgeCancel(t)
       \/ \E speech \in BOOLEAN : Publish(t, speech)
    /\ UNCHANGED issued

Control(j) ==
    /\ \/ Enqueue(j)
       \/ InsertBlocked(j)
       \/ InsertFailed(j)
       \/ RequestCancel(j)
       \/ Retry(j)
    /\ UNCHANGED issued

RecoverBoot(b) == Recover(b) /\ UNCHANGED issued

Clock(j) == (LeaseLapses(j) \/ BecomesDue(j)) /\ UNCHANGED issued

Verdict(c) == (\E v \in {"available", "unavailable"} : ChunkVerdict(c, v)) /\ UNCHANGED issued

Edit(s) == SaveManualRevision(s) /\ UNCHANGED issued

Next ==
    \/ \E o \in Owners : ClaimNext(o)
    \/ \E t \in issued : Holder(t)
    \/ \E j \in Jobs : Control(j) \/ Clock(j)
    \/ \E b \in Boots : RecoverBoot(b)
    \/ \E c \in Chunks : Verdict(c)
    \/ \E s \in Sessions : Edit(s)

Spec == Init /\ [][Next]_vars

-----------------------------------------------------------------------------
TypeOK == TableTypeOK /\ issued \subseteq Token

\* The generation of a claim is a fencing token: no two claims of a job share
\* one, none is ahead of the row, and the owner of a row is a claim handed out.
TokensFence ==
    /\ \A t, u \in issued : t.job = u.job /\ t.generation = u.generation => t = u
    /\ \A t \in issued : t.generation <= job[t.job].generation
    /\ \A j \in Jobs : job[j].owner # NoOwner => TokenOf(j) \in issued

\* A claim that was lost (lapsed, recovered, released, superseded) is lost for
\* good: no renewal or later claim lets its holder write again.
LostClaimStaysLost ==
    [][\A t \in issued : ~Holds(t) => ~Holds(t)']_vars
=============================================================================
