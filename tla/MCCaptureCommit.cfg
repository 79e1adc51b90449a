CONSTANTS
  c1 = c1  c2 = c2  s1 = s1  s2 = s2
  None = None
  Chunks = {c1,c2}
  Sessions = {s1,s2}
  Slots <- MCSlots
  Claims <- MCClaims
  ChunkOf <- MCChunkOf
  SlotOf <- MCSlotOf
  Truthful <- MCClaims
  Sourced <- MCClaims
SPECIFICATION CommitSpec
INVARIANTS QueuedIsRegistered NoGapInSession
