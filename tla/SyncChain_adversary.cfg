SPECIFICATION Spec
CONSTANTS
  SLOTS_PER_EPOCH = 2
  EPOCHS_PER_BATCH = 1
  BATCH_BUFFER_SIZE = 1
  MAX_BATCH_DOWNLOAD_ATTEMPTS = 0
  MAX_BATCH_PROCESSING_ATTEMPTS = 1
  Peer = {"h", "f"}
  Honest = {"h"}
  NoPeer = "none"
  Chain = {0, 1, 3, 4}
  Targets = {2, 4}
  initialEpoch = 0
  EngineFails = TRUE
  LocalFails = TRUE
INVARIANTS
  TypeOK
  StatusesFit
  ContiguousWindow
  SyncedIsImported
  FaultyPeerOnRecord
  NeverStuck
PROPERTY
  ImportsInOrder
CHECK_DEADLOCK FALSE
