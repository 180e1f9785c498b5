SPECIFICATION Spec
CONSTANTS
  SLOTS_PER_EPOCH = 3
  MaxSlot = 11
  Root <- MCRoot
  parentRoot <- MCParentRoot
  NoRoot = 0
  anchorRoots = {1}
  invalidRoots = {5}
  MAX_ATTEMPTS_PER_BLOCK = 1
  MAX_PENDING_BLOCKS = 2
  MaxEvents = 2
  MaxErrors = 1
  MaxRunning = 3
  Request <- MCRequest
  setsOf <- MCSetsOf
  optsOf <- MCOptsOf
  Workers = 2
  MAX_SIGNATURE_SETS_PER_JOB = 2
  MAX_BUFFERED_SIGS = 1
  BATCHABLE_MIN_PER_CHUNK = 2
  MaxWorkerErrors = 1
  Item = {1, 2, 3, 4}
  maxLength = 2
  maxConcurrency = 2
  MaxEpoch = 4
  SigningRoot = {"q", "r"}
  ZERO_ROOT = "none"
  Votes <- MCVotes
  Proposals <- MCProposals
  Interchanges <- MCInterchanges
  MaxCrashes = 1
  ChainBlock = {1, 2, 3, 4, 5}
  blockSlot <- MCBlockSlot
  blockParent <- MCBlockParent
  NoBlock = 0
  genesisBlock = 1
  wsAnchors = {3, 4, 5}
  backfillBatchSize = 2
  MaxRestarts = 1
  MaxOtherBlocks = 1
INVARIANT
  RangesAreComplete
CHECK_DEADLOCK FALSE
