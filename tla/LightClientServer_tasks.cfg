SPECIFICATION Spec
CONSTANTS
  SLOTS_PER_EPOCH = 3
  EPOCHS_PER_SYNC_COMMITTEE_PERIOD = 4
  SYNC_COMMITTEE_SIZE = 4
  MAX_PREV_HEAD_DATA = 32
  MAX_CACHED_FINALIZED_HEADERS = 3
  Block <- ForestBlocks
  slotOf <- ForestSlot
  parentOf <- ForestParent
  finalizedOf <- ForestFinalized
  ZERO_HASH = "zero"
  Committee <- MCCommittee
  currentSyncCommittee <- ForestCurrent
  nextSyncCommittee <- ForestNext
  bitsOf <- ForestBits
  Anchors = {"g", "h", "i"}
  Archives = TRUE
  MaxImporting = 2
  MaxFaults <- ForestFaults
INVARIANTS
  TypeOK
  FinalizedBestHasWitness
  OtherDataKept
  WitnessHasCommittee
  ServesNextCommittee
CHECK_DEADLOCK FALSE
