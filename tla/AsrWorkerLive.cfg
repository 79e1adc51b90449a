CONSTANTS
  j1 = j1  j2 = j2
  c1 = c1  c2 = c2  s1 = s1
  Jobs = {j1, j2}
  Fingerprints = {"f1", "f2"}
  Chunks = {c1}
  Sessions = {s1}
  Boots <- MCBoots
  Me = Me
  Workers = {Me}
  NoOwner = NoOwner
  Manual = Manual
  NoClaim = NoClaim
  FingerprintOf <- MCFingerprintOf
  ChunkOf <- MCOneChunk
  SessionOf <- MCSessionOf
  MaxAttempts = 2
  RetryCap = 1
  EditCap = 0
  Native = TRUE
  Results = {"speech", "failure"}
  Faults = FALSE
  MaxBoots = 2
  MaxAdjustments = 0
SPECIFICATION FairSpec
PROPERTIES QueuedIsServed CancelIsHonoured OldClaimsAreRecovered ShutdownJoins
CHECK_DEADLOCK FALSE
