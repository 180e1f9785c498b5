SPECIFICATION Spec
CONSTANTS
  SLOTS_PER_EPOCH = 3
  EPOCHS_PER_SYNC_COMMITTEE_PERIOD = 8
  SYNC_COMMITTEE_SIZE = 4
  MAX_PREV_HEAD_DATA = 32
  MAX_CACHED_FINALIZED_HEADERS = 3
  Block <- SkippedBlocks
  slotOf <- SkippedSlot
  parentOf <- SkippedParent
  finalizedOf <- SkippedFinalized
  ZERO_HASH = "zero"
  Committee <- MCCommittee
  currentSyncCommittee <- SkippedCurrent
  nextSyncCommittee <- SkippedNext
  bitsOf <- SkippedBits
  Anchors = {"g"}
  Archives = TRUE
  MaxImporting = 1
  MaxFaults <- NoFaults
INVARIANT
  CheckpointDataKept
CHECK_DEADLOCK FALSE
