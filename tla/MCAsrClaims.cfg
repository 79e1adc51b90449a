CONSTANTS
  j1 = j1  j2 = j2  j3 = j3
  c1 = c1  s1 = s1
  b1 = b1  b2 = b2  w1 = w1
  Jobs = {j1, j2, j3}
  Fingerprints = {"f1", "f2"}
  Chunks = {c1}
  Sessions = {s1}
  Boots = {b1, b2}
  Workers = {w1}
  NoOwner = NoOwner
  Manual = Manual
  FingerprintOf <- MCFingerprintOf
  ChunkOf <- MCChunkOf
  SessionOf <- MCSessionOf
  MaxAttempts = 2
  RetryCap = 1
  EditCap = 2
SPECIFICATION Spec
SYMMETRY MCAlike
INVARIANTS OneClaimAtATime CancelWins
  OneActivePerFingerprint ReceiptIffSucceeded RevisionsHaveReceipts TokensFence
PROPERTIES LostClaimStaysLost ImplementsTranscripts
CHECK_DEADLOCK FALSE
