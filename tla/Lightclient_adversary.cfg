SPECIFICATION Spec
CONSTANTS
  SLOTS_PER_EPOCH = 1
  EPOCHS_PER_SYNC_COMMITTEE_PERIOD = 2
  SYNC_COMMITTEE_SIZE = 4
  MIN_SYNC_COMMITTEE_PARTICIPANTS = 1
  MAX_PERIODS_PER_REQUEST = 1
  FutureTolerance = 1
  Committee <- AllCommittees
  SnapshotSlot = 0
  SnapshotCommittee = "c0"
  Updates <- Adversarial
  Headers <- AdversarialHeaders
  ServerFails = TRUE
  HonestServer = FALSE
  Timely = FALSE
  Loops = {"l1", "l2"}
  MaxSlot = 5
  Trusted <- MCTrusted
INVARIANTS
  TypeOK
  ConsecutivePeriods
  AnchoredTrust
  HeadTrusted
  SleepersTracked
PROPERTIES
  NoRollback
  HeadKeepsHalf
CHECK_DEADLOCK FALSE
