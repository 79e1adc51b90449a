--------------------------- MODULE MCAudioImport ---------------------------
(* Two imports: one that is registered while the other fails or is swept.  *)
EXTENDS AudioImport, TLC

Alike == Permutations(Imports)
=============================================================================
