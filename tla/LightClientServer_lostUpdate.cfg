SPECIFICATION Spec
CONSTANTS
  SLOTS_PER_EPOCH = 3
  EPOCHS_PER_SYNC_COMMITTEE_PERIOD = 4
  SYNC_COMMITTEE_SIZE = 4
  MAX_PREV_HEAD_DATA = 32
  MAX_CACHED_FINALIZED_HEADERS = 3
  Block <- CrossingBlocks
  slotOf <- CrossingSlot
  parentOf <- CrossingParent
  finalizedOf <- CrossingFinalized
  ZERO_HASH = "zero"
  Committee <- MCCommittee
  currentSyncCommittee <- CrossingCurrent
  nextSyncCommittee <- CrossingNext
  bitsOf <- CrossingBits
  Anchors = {"g"}
  Archives = TRUE
  MaxImporting = 2
  MaxFaults <- NoFaults
PROPERTY
  BestImproves
CHECK_DEADLOCK FALSE
