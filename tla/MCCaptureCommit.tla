--------------------------- MODULE MCCaptureCommit ---------------------------
(* A small instance of CaptureCommit; a request is a chunk and a slot. *)
EXTENDS CaptureCommit

CONSTANTS c1, c2, s1, s2

MCSlots == Sessions \X (0 .. Cardinality(Chunks))
MCClaims == Chunks \X MCSlots
MCChunkOf == [r \in Claims |-> r[1]]
MCSlotOf == [r \in Claims |-> r[2]]
=============================================================================
