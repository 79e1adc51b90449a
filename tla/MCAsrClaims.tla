----------------------------- MODULE MCAsrClaims -----------------------------
(* A small instance of AsrClaims: three requests, two coordinators.        *)
EXTENDS AsrClaims, TLC

CONSTANTS j1, j2, j3, c1, s1, b1, b2, w1

\* j1 and j2 ask for the same transcription of c1, j3 for one with another model.
MCFingerprintOf == [j \in Jobs |-> IF j = j3 THEN "f2" ELSE "f1"]
MCChunkOf == [f \in {"f1", "f2"} |-> c1]
MCSessionOf == [c \in {c1} |-> s1]

\* The twins and the two boots are interchangeable; every property is a safety property.
MCAlike == Permutations({j1, j2}) \cup Permutations({b1, b2})
=============================================================================
