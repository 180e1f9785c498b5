----------------------------- MODULE BlockTree ------------------------------
(***************************************************************************)
(* The blocks a node may import, and the part of the fork choice's proto   *)
(* array that the archiver reads: the nodes in the order they were         *)
(* imported, from the finalized block of the last pruning on.              *)
(***************************************************************************)
EXTENDS NonCheckpointBlocks

CONSTANTS
  EPOCHS_PER_SYNC_COMMITTEE_PERIOD,
  Block,           \* blocks, named by their roots
  slotOf,          \* [Block -> Nat]
  parentOf,        \* [Block -> Block], an anchor is its own parent
  finalizedOf,     \* the finalized checkpoint of the post state
  ZERO_HASH        \* the root of the finalized checkpoint before the first one

Checkpoint == [epoch : Nat, root : Block \union {ZERO_HASH}]

ASSUME BlockTreeAssumption ==
  /\ SLOTS_PER_EPOCH \in Nat \ {0}
  /\ EPOCHS_PER_SYNC_COMMITTEE_PERIOD \in Nat \ {0}
  /\ slotOf \in [Block -> Nat]
  /\ parentOf \in [Block -> Block]
  /\ finalizedOf \in [Block -> Checkpoint]
  /\ ZERO_HASH \notin Block
  /\ \A b \in Block : parentOf[b] # b => slotOf[parentOf[b]] < slotOf[b]

-----------------------------------------------------------------------------
(* Time *)

PeriodAtEpoch(epoch) == epoch \div EPOCHS_PER_SYNC_COMMITTEE_PERIOD

PeriodAtSlot(slot) == PeriodAtEpoch(EpochAtSlot(slot))

Period(b) == PeriodAtSlot(slotOf[b])

-----------------------------------------------------------------------------
(* Ancestry *)

\* The blocks from b back to its anchor, b first.
PathOf[b \in Block] ==
  IF parentOf[b] = b THEN <<b>> ELSE <<b>> \o PathOf[parentOf[b]]

IsAncestorOrSelf(a, b) == \E i \in DOMAIN PathOf[b] : PathOf[b][i] = a

\* The block that is the checkpoint of an epoch on the chain of b.
CheckpointBlock(b, epoch) ==
  LET path == PathOf[b]
      upTo(i) == slotOf[path[i]] <= epoch * SLOTS_PER_EPOCH
  IN  path[CHOOSE i \in DOMAIN path :
             upTo(i) /\ \A j \in DOMAIN path : j < i => ~upTo(j)]

-----------------------------------------------------------------------------
(* The proto array *)

NodeIndex(nodes, b) == CHOOSE i \in DOMAIN nodes : nodes[i] = b

IsNode(nodes, b) == \E i \in DOMAIN nodes : nodes[i] = b

\* getAllAncestorNodes: the block first, the oldest node that is left last.
AllAncestorNodes(nodes, b) ==
  SelectSeq(PathOf[b], LAMBDA a : IsNode(nodes, a))

\* getAllAncestorBlocks: without the finalized block of the last pruning.
AllAncestorBlocks(nodes, b) ==
  LET ancestors == AllAncestorNodes(nodes, b)
  IN  SubSeq(ancestors, 1, Len(ancestors) - 1)

\* getAllNonAncestorBlocks: what was imported before the block, on other
\* branches.
AllNonAncestorBlocks(nodes, b) ==
  {nodes[i] : i \in {j \in 2..(NodeIndex(nodes, b) - 1) :
                       ~IsAncestorOrSelf(nodes[j], b)}}

\* prune: the nodes imported before the finalized block are dropped.
PruneNodes(nodes, b) == SubSeq(nodes, NodeIndex(nodes, b), Len(nodes))

=============================================================================
