CONSTANTS
  c1 = c1  c2 = c2  s1 = s1  s2 = s2
  None = None
  Chunks = {c1}
  Sessions = {s1}
  Slots <- MCSlots
  Claims <- MCClaims
  ChunkOf <- MCChunkOf
  SlotOf <- MCSlotOf
  Truthful <- MCClaims
  Sourced <- MCClaims
SPECIFICATION FairCommitSpec
PROPERTIES OrphanIsRecovered
CHECK_DEADLOCK FALSE
