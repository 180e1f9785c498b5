SPECIFICATION Spec
CONSTANTS
  SLOTS_PER_EPOCH = 2
  EPOCHS_PER_BATCH = 1
  BATCH_BUFFER_SIZE = 1
  MAX_BATCH_DOWNLOAD_ATTEMPTS = 1
  MAX_BATCH_PROCESSING_ATTEMPTS = 1
  Peer = {"h", "f"}
  Honest = {"h"}
  NoPeer = "none"
  Chain = {0, 1, 3, 4}
  Targets = {4}
  initialEpoch = 0
  EngineFails = FALSE
  LocalFails = FALSE
INVARIANT
  OnlyFaultyReported
CHECK_DEADLOCK FALSE
