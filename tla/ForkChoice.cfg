SPECIFICATION Spec
CONSTANTS
  SLOTS_PER_EPOCH = 2
  SAFE_SLOTS_TO_UPDATE_JUSTIFIED = 1
  PROPOSER_SCORE_BOOST = 70
  Block <- MCBlock
  slotOf <- MCSlot
  parentOf <- MCParent
  justifiedOf <- MCJustified
  finalizedOf <- MCFinalized
  Validator = {"v1", "v2", "v3"}
  ZERO_HASH = 0
  anchor = 1
  startSlot = 6
  attestationsOf <- MCAttestationsOf
  GossipAttestation <- MCGossip
  balancesAt <- EqualBalances
  MaxSlot = 11
INVARIANTS
  TypeOK
  WeightsAreVotes
  RootsAreKnown
PROPERTY
  HeadIsGhost
CHECK_DEADLOCK FALSE
