----------------------------- MODULE MCAsrWorker -----------------------------
(* A small instance of AsrWorker: two requests over two chunks of a session. *)
EXTENDS AsrWorker

CONSTANTS j1, j2, c1, c2, s1

MCFingerprintOf == [j \in Jobs |-> IF j = j1 THEN "f1" ELSE "f2"]
MCChunkOf == [f \in Fingerprints |-> IF f = "f1" THEN c1 ELSE c2]
MCOneChunk == [f \in Fingerprints |-> c1]
MCSessionOf == [c \in Chunks |-> s1]
MCBoots == 1 .. MaxBoots
=============================================================================
