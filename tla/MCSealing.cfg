CONSTANTS
  c1 = c1  c2 = c2
  right = right  wrong = wrong  foreign = foreign  rival = rival
  None = None
  Chunks = {c1, c2}
  Claims = {right, wrong, foreign, rival}
  Slots = {"slot1"}
  ChunkOf <- MCChunkOf
  SlotOf <- MCSlotOf
  Truthful = {right, foreign, rival}
  Sourced = {right, wrong, rival}
SPECIFICATION ReplaySpec
INVARIANTS RegisteredSurvives RegisteredIsTruthful OrphanKeepsIntent AckedIsRegistered OrphanIsReported
PROPERTIES ChunkPromise ReplayConverges
