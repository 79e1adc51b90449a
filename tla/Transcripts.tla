----------------------------- MODULE Transcripts -----------------------------
(***************************************************************************)
(* What the user of LifeSub is promised about transcription, without       *)
(* claims, leases, boots or retries of the machinery: a request is open    *)
(* until it is done, failed or cancelled; only an open request can be done *)
(* and it then writes at most one revision, at that very moment; asking to *)
(* cancel an open request settles the matter; a failed one may be opened   *)
(* again; a session's revisions only grow.                                 *)
(***************************************************************************)
EXTENDS Sequences

CONSTANTS Requests, Records, Editor, RecordOf

VARIABLES phase, history

tvars == <<phase, history>>

Init ==
    /\ phase = [r \in Requests |-> "new"]
    /\ history = [d \in Records |-> <<>>]

Move(r, from, to) == phase[r] \in from /\ phase' = [phase EXCEPT ![r] = to]

Write(d, author) == history' = [history EXCEPT ![d] = Append(@, author)]

Submit(r) ==
    /\ Move(r, {"new"}, "open") \/ Move(r, {"new"}, "failed")
    /\ UNCHANGED history

Commit(r) ==
    /\ Move(r, {"open"}, "done")
    /\ Write(RecordOf[r], r) \/ UNCHANGED history

GiveUp(r) == Move(r, {"open"}, "failed") /\ UNCHANGED history

Reopen(r) == Move(r, {"failed"}, "open") /\ UNCHANGED history

AskCancel(r) == Move(r, {"open"}, "cancelling") /\ UNCHANGED history

Cancel(r) == Move(r, {"open", "cancelling"}, "cancelled") /\ UNCHANGED history

Edit(d) == history[d] # <<>> /\ Write(d, Editor) /\ UNCHANGED phase

Next ==
    \/ \E r \in Requests :
          Submit(r) \/ Commit(r) \/ GiveUp(r) \/ Reopen(r) \/ AskCancel(r) \/ Cancel(r)
    \/ \E d \in Records : Edit(d)

Spec == Init /\ [][Next]_tvars
=============================================================================
