CONSTANTS
  j1 = j1  j2 = j2
  c1 = c1  c2 = c2  s1 = s1
  Jobs = {j1, j2}
  Fingerprints = {"f1", "f2"}
  Chunks = {c1, c2}
  Sessions = {s1}
  Boots <- MCBoots
  Me = Me
  Workers = {Me}
  NoOwner = NoOwner
  Manual = Manual
  NoClaim = NoClaim
  FingerprintOf <- MCFingerprintOf
  ChunkOf <- MCChunkOf
  SessionOf <- MCSessionOf
  MaxAttempts = 2
  RetryCap = 1
  EditCap = 2
  Native = TRUE
  Results = {"speech", "silence", "oversized", "failure"}
  Faults = TRUE
  MaxBoots = 2
  MaxAdjustments = 1
SPECIFICATION Spec
INVARIANTS NoOrphanClaim RunBelongsToClaim
CHECK_DEADLOCK FALSE
