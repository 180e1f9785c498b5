------------------------ MODULE NonCheckpointBlocks -------------------------
(***************************************************************************)
(* getNonCheckpointBlocks: which blocks of a chain can never become the    *)
(* checkpoint of an epoch.  The code walks an array of blocks from its end *)
(* and keeps the epoch it is in and whether it saw the first slot of that  *)
(* epoch.  Blocks are given by their slots.                                *)
(***************************************************************************)
EXTENDS Integers, Sequences, SequencesExt

CONSTANT SLOTS_PER_EPOCH

EpochAtSlot(slot) == slot \div SLOTS_PER_EPOCH

IsFirstSlot(slot) == slot % SLOTS_PER_EPOCH = 0

Infinity == -1

EntersEpoch(slot, walk) ==
  walk.epochPtr = Infinity \/ EpochAtSlot(slot) < walk.epochPtr

\* The walk after a block that is a checkpoint or not.
Visited(slot, walk, isCheckpoint) ==
  [epochPtr |-> IF EntersEpoch(slot, walk) THEN EpochAtSlot(slot)
                ELSE walk.epochPtr,
   hasFirstSlot |-> \/ IsFirstSlot(slot)
                    \/ ~EntersEpoch(slot, walk) /\ walk.hasFirstSlot,
   result |-> IF isCheckpoint THEN walk.result ELSE walk.result \union {slot}]

\* Variations: only first slots count; the epochs are not told apart; the
\* worst case is not assumed for the blocks at the end.
VisitFirstSlots(slot, walk) == Visited(slot, walk, IsFirstSlot(slot))

VisitAnyEpoch(slot, walk) ==
  Visited(slot, walk, ~walk.hasFirstSlot \/ IsFirstSlot(slot))

VisitBestCase(slot, walk) ==
  Visited(slot, walk,
          \/ /\ EpochAtSlot(slot) < walk.epochPtr
             /\ ~walk.hasFirstSlot
          \/ IsFirstSlot(slot))

Visit(slot, walk) ==
  Visited(slot, walk,
          \/ EntersEpoch(slot, walk) /\ ~walk.hasFirstSlot
          \/ IsFirstSlot(slot))

\* The slots that getNonCheckpointBlocks returns for an array of blocks.
NonCheckpointSlots(array) ==
  FoldRight(Visit, array,
            [epochPtr |-> Infinity, hasFirstSlot |-> FALSE, result |-> {}]
           ).result

=============================================================================
