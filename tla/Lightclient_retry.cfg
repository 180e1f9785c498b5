SPECIFICATION FairSpec
CONSTANTS
  SLOTS_PER_EPOCH = 1
  EPOCHS_PER_SYNC_COMMITTEE_PERIOD = 2
  SYNC_COMMITTEE_SIZE = 4
  MIN_SYNC_COMMITTEE_PARTICIPANTS = 1
  MAX_PERIODS_PER_REQUEST = 2
  FutureTolerance = 1
  Committee <- HonestCommittees
  SnapshotSlot = 0
  SnapshotCommittee = "c0"
  Updates <- Honest
  Headers <- HonestHeaders
  ServerFails = FALSE
  HonestServer = TRUE
  Timely = TRUE
  Loops = {"l1"}
  MaxSlot = 7
  Trusted <- MCTrusted
PROPERTY
  CatchesUp
CHECK_DEADLOCK FALSE
