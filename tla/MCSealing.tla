------------------------------ MODULE MCSealing ------------------------------
(* A small instance of SealingReplay: three requests for one chunk (the right one, one *)
(* with other bytes, one of an unregistered source) and one for a second chunk   *)
(* that names the same slot.                                                     *)
EXTENDS SealingReplay

CONSTANTS c1, c2, right, wrong, foreign, rival

MCChunkOf == [r \in Claims |-> IF r = rival THEN c2 ELSE c1]
MCSlotOf == [r \in Claims |-> "slot1"]
=============================================================================
