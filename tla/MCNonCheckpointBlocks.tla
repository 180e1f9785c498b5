----------------------- MODULE MCNonCheckpointBlocks ------------------------
(***************************************************************************)
(* The walk on every chain up to MaxSlot, against what a checkpoint is:    *)
(* the last block at or before the first slot of an epoch.  The chain      *)
(* grows by one block in a step.                                           *)
(***************************************************************************)
EXTENDS NonCheckpointBlocks

CONSTANT MaxSlot

ASSUME SLOTS_PER_EPOCH \in Nat \ {0} /\ MaxSlot \in Nat

VARIABLE slots      \* the slots of the chain, from ancestor to child

ChainInit == slots = <<>>

AddBlock(slot) ==
  /\ slots # <<>> => slot > Last(slots)
  /\ slots' = Append(slots, slot)

ChainNext == \E slot \in 0..MaxSlot : AddBlock(slot)

-----------------------------------------------------------------------------
\* A block is the checkpoint of an epoch if it is at or before the epoch's
\* first slot and no later block is.
IsCheckpoint(slot) ==
  \E epoch \in 0..EpochAtSlot(MaxSlot) + 1 :
    LET first == epoch * SLOTS_PER_EPOCH
    IN  /\ slot <= first
        /\ \A i \in DOMAIN slots : slots[i] <= first => slots[i] <= slot

SkipsNoEpoch ==
  \A i \in 2..Len(slots) : EpochAtSlot(slots[i]) <= EpochAtSlot(slots[i - 1]) + 1

\* "This function must return only blocks that are guaranteed to never become
\* checkpoints" (getNonCheckpointBlocks).  It does on a chain with a block in
\* every epoch; the checkpoint of an epoch without blocks may be returned.
OnlyNonCheckpoints ==
  SkipsNoEpoch => \A slot \in NonCheckpointSlots(slots) : ~IsCheckpoint(slot)

\* What is kept is needed: every block that getNonCheckpointBlocks does not
\* return is a checkpoint, or the last one, which becomes one when the first
\* slot of the next epoch is skipped.
NothingElseKept ==
  \A i \in DOMAIN slots :
    slots[i] \notin NonCheckpointSlots(slots) => IsCheckpoint(slots[i])

\* A block that was returned once, and whose light client data is gone, is
\* returned again however the chain grows.
ReturnedForGood ==
  [][NonCheckpointSlots(slots) \subseteq NonCheckpointSlots(slots')]_slots

=============================================================================
