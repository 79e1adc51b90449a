---------------------------- MODULE CaptureCommit ----------------------------
(***************************************************************************)
(* The one caller the program has for Sealing: the worker thread of a      *)
(* capture session (capture/session.rs, coordinator.rs, committer.rs).     *)
(* It takes the chunks of the helper in order, numbers them, seals each    *)
(* with a request of its own making, then asks for its transcription; the  *)
(* first error ends the session.  A start of the program begins no         *)
(* session and repeats no request.                                         *)
(***************************************************************************)
EXTENDS Sealing, Sequences

CONSTANT Sessions      \* capture sessions, each registers capture sources of its own

ASSUME CommitAssumption ==
    /\ Slots = Sessions \X (0 .. Cardinality(Chunks))
    /\ \A c \in Chunks, s \in Slots : \E r \in Claims : ChunkOf[r] = c /\ SlotOf[r] = s
    /\ Truthful = Claims /\ Sourced = Claims
    /\ None \notin Chunks \cup Sessions

VARIABLES
    session,    \* the running capture session
    spent,      \* sessions that were begun
    inbox,      \* chunks the helper announced, not yet taken by the worker
    taken,      \* number of chunks the committer has numbered in this session
    due,        \* the chunk whose transcription is to be requested
    queued      \* chunks with an ASR job

capture == <<session, spent, inbox, taken, due, queued>>
allVars == <<vars, capture>>

CommitTypeOK ==
    /\ TypeOK
    /\ session \in Sessions \cup {None}
    /\ spent \subseteq Sessions
    /\ inbox \in Seq(Chunks)
    /\ taken \in Nat
    /\ due \in Chunks \cup {None}
    /\ queued \subseteq Chunks

CommitInit ==
    /\ Init
    /\ session = None /\ spent = {} /\ inbox = <<>> /\ taken = 0
    /\ due = None /\ queued = {}

EndSession == session' = None /\ inbox' = <<>> /\ UNCHANGED <<spent, taken>>

\* register_capture_sources and a new committer, once the helper started its sources.
Begin(s) ==
    /\ at = "idle" /\ session = None /\ s \notin spent
    /\ session' = s /\ spent' = spent \cup {s} /\ taken' = 0
    /\ UNCHANGED <<vars, inbox, due, queued>>

\* The helper finishes a chunk and announces it.
Announce(c) ==
    /\ session # None
    /\ Record(c)
    /\ inbox' = Append(inbox, c)
    /\ UNCHANGED <<session, spent, taken, due, queued>>

\* commit: the sequence number is taken, then seal is called.
Commit ==
    /\ session # None /\ due = None /\ inbox # <<>>
    /\ \E r \in Claims : /\ ChunkOf[r] = Head(inbox) /\ SlotOf[r] = <<session, taken>>
                         /\ Call(r)
    /\ inbox' = Tail(inbox) /\ taken' = taken + 1
    /\ UNCHANGED <<session, spent, due, queued>>

\* Mutant: the transcription is requested whether or not the chunk was sealed.
SealLoosely(step) ==
    /\ step
    /\ \/ at' # "idle" /\ UNCHANGED capture
       \/ at' = "idle" /\ due' = Mine /\ UNCHANGED <<session, spent, inbox, taken, queued>>

\* Mutant: a chunk that could not be sealed is skipped.
SealSkipping(step) ==
    /\ step
    /\ \/ at' # "idle" /\ UNCHANGED capture
       \/ at' = "idle" /\ claim \in acked' /\ due' = Mine
          /\ UNCHANGED <<session, spent, inbox, taken, queued>>
       \/ at' = "idle" /\ claim \notin acked' /\ UNCHANGED capture

\* seal runs; any error ends the session.
Seal(step) ==
    /\ step
    /\ \/ at' # "idle" /\ UNCHANGED capture
       \/ at' = "idle" /\ claim \in acked' /\ due' = Mine
          /\ UNCHANGED <<session, spent, inbox, taken, queued>>
       \/ at' = "idle" /\ claim \notin acked' /\ EndSession /\ UNCHANGED <<due, queued>>

\* after_commit: a job is inserted, or auto_transcribe is off; an error ends the session.
Transcribe ==
    /\ due # None
    /\ due' = None
    /\ \/ queued' = queued \cup {due} /\ UNCHANGED <<session, spent, inbox, taken>>
       \/ UNCHANGED <<queued, session, spent, inbox, taken>>
       \/ UNCHANGED queued /\ EndSession
    /\ UNCHANGED vars

\* stop, or an error of the helper, between two chunks.
Stop ==
    /\ session # None /\ at = "idle" /\ due = None
    /\ EndSession
    /\ UNCHANGED <<vars, due, queued>>

Outage == (Crash \/ PowerLoss) /\ EndSession /\ due' = None /\ UNCHANGED queued

CommitNext ==
    \/ \E s \in Sessions : Begin(s)
    \/ \E c \in Chunks : Announce(c)
    \/ Commit \/ Seal(Advance) \/ Seal(Failure) \/ Transcribe \/ Stop
    \/ Outage
    \/ Boot /\ UNCHANGED capture

CommitSpec == CommitInit /\ [][CommitNext]_allVars

\* The threads of the program run; a user records again while there are sessions left.
FairCommitSpec ==
    /\ CommitSpec
    /\ WF_allVars(Commit) /\ WF_allVars(Seal(Advance)) /\ WF_allVars(Transcribe)
    /\ WF_allVars(Boot /\ UNCHANGED capture)
    /\ WF_allVars(\E s \in Sessions : Begin(s))

(***************************************************************************)
(* Properties                                                              *)
(***************************************************************************)
\* A job is queued only for a chunk that is registered, and so survives anything
\* (evidence-platform-design: an object enters the ASR queue only once it is sealed).
QueuedIsRegistered == queued \subseteq Registered

\* The sequence numbers registered for a capture source have no gap: a chunk that
\* could not be sealed is the last of its session, so audio is never missing
\* from the middle of a recording without a sign.
NoGapInSession ==
    \A c \in Registered : \A n \in 0 .. SlotOf[row[c]][2] :
        \E d \in Registered : SlotOf[row[d]] = <<SlotOf[row[c]][1], n>>

\* A published file without a row that a start of the program finds is registered
\* in the end, or staged again, if outages stop (the handoff of the native capture
\* says startup reconciliation covers the crash windows of the rename and native
\* orphans).
OrphanIsRecovered ==
    <>[][~Outage]_allVars =>
        \A c \in Chunks : at = "down" /\ Orphan(fs, c) ~> ~Orphan(fs, c)
=============================================================================
