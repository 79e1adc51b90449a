---------------------------- MODULE SealingReplay ----------------------------
(***************************************************************************)
(* Sealing with a caller that keeps repeating every request, the way the   *)
(* tests of seal.rs do: can the protocol recover from whatever failures,   *)
(* crashes and power losses leave behind?                                  *)
(***************************************************************************)
EXTENDS Sealing

VARIABLE calm       \* no failure, crash, power loss or replaced file any more

ReplayInit == Init /\ calm = FALSE

CalmDown == calm' = TRUE /\ UNCHANGED vars

ReplayNext ==
    \/ Course /\ UNCHANGED calm
    \/ ~calm /\ Trouble /\ UNCHANGED calm
    \/ ~calm /\ CalmDown

replayVars == <<vars, calm>>

\* The steps of a call and of the start are run, and every request is repeated.
ReplaySpec ==
    /\ ReplayInit /\ [][ReplayNext]_replayVars
    /\ WF_replayVars(Advance /\ UNCHANGED calm)
    /\ WF_replayVars(Boot /\ UNCHANGED calm)
    /\ \A r \in Claims : SF_replayVars(Call(r) /\ UNCHANGED calm)

\* The chunk is registered and nothing is left over, or its audio is not there to be
\* sealed: not recorded yet, deleted by a start, or replaced by another file.
Finished(c) ==
    \/ row[c] # None /\ fs[c].intent = None /\ ~fs[c].temp
    \/ fs[c].place \in {"unborn", "gone"}
    \/ fs[c].file = "replaced"

\* The chunk cannot be registered: its slot is another chunk's, or the audio was
\* published for a request that the catalog refuses.
Unregistrable(c) ==
    \/ \A r \in Claims : ChunkOf[r] = c => SlotOf[r] \in {SlotOf[row[d]] : d \in Registered \ {c}}
    \/ fs[c].place = "final" /\ fs[c].intent \notin (Truthful \cap Sourced) \cup {None}

\* Once trouble is over, repeating the requests finishes every chunk and keeps it
\* finished: no sequence of failures of seal.rs leaves an intent, a temporary or a
\* published file from which the same request cannot recover.
ReplayConverges == \A c \in Chunks : <>[](calm => Finished(c) \/ Unregistrable(c))
=============================================================================
