---------------------------- MODULE BackfillSync ----------------------------
(***************************************************************************)
(* BackfillSync: a node that started from a checkpoint fetches the blocks  *)
(* before it, backwards to genesis, while the archiver moves the blocks    *)
(* after it to the same archive.  Both record in backfilledRanges which    *)
(* stretches of the archive are complete, so that a later run jumps over   *)
(* them instead of reading or fetching them again.  The process may stop   *)
(* between any two writes.                                                 *)
(*                                                                         *)
(* A block stands for its root.  What a peer answers to a request by range *)
(* is checked, so it may be anything; of an answer to a request by root    *)
(* only the signature is, so it may be any block.  The index from roots to *)
(* slots is taken to be written with the block.                            *)
(***************************************************************************)
EXTENDS NonCheckpointBlocks, FiniteSetsExt

CONSTANTS
  ChainBlock, blockSlot, blockParent,  \* blocks on one or more branches
  NoBlock,            \* null, and the parent of genesis
  genesisBlock,
  wsAnchors,          \* blocks whose state a node may be given to start from
  backfillBatchSize,
  MaxRestarts,        \* bound
  MaxOtherBlocks      \* bound: answers by root that are another block

ASSUME BackfillAssumption ==
  /\ NoBlock \notin ChainBlock /\ genesisBlock \in ChainBlock
  /\ blockSlot \in [ChainBlock -> Nat]
  /\ blockParent \in [ChainBlock -> ChainBlock \union {NoBlock}]
  /\ \A b \in ChainBlock : (blockSlot[b] = 0) = (b = genesisBlock)
  /\ \A b \in ChainBlock \ {genesisBlock} :
       blockParent[b] \in ChainBlock /\ blockSlot[blockParent[b]] < blockSlot[b]
  /\ blockParent[genesisBlock] = NoBlock
  /\ wsAnchors \subseteq ChainBlock
  /\ backfillBatchSize \in Nat \ {0}
  /\ MaxRestarts \in Nat /\ MaxOtherBlocks \in Nat

VARIABLES
  blockArchive,       \* a set with at most one block of a slot
  rootIndex,          \* the roots for which it knows a slot
  backfilledRanges,   \* slot -> slot, where there is an entry
  storedState,        \* the block of the last state in stateArchive
  backfill,           \* the BackfillSync object, with the place of its loop
  archiver,           \* the place of processFinalizedCheckpoint, its block
  restarts,
  otherBlocks         \* how many answers by root were taken for another block

backfillVars ==
  <<blockArchive, rootIndex, backfilledRanges, storedState, backfill, archiver,
    restarts, otherBlocks>>

-----------------------------------------------------------------------------
(* Blocks and the two tables *)

\* A block and its ancestors.
Lineage[b \in ChainBlock] ==
  IF b = genesisBlock THEN {b} ELSE {b} \union Lineage[blockParent[b]]

SlotsOfBlocks(blocks) == {blockSlot[b] : b \in blocks}

Archived(blocks) ==
  {b \in blockArchive : blockSlot[b] \notin SlotsOfBlocks(blocks)} \union blocks

Store(blocks) ==
  blockArchive' = Archived(blocks) /\ rootIndex' = rootIndex \union blocks

\* getByRoot looks a slot up and reads what is there now.
HasRoot(root) == root \in rootIndex

AtRoot(root) == CHOOSE b \in blockArchive : blockSlot[b] = blockSlot[root]

Put(ranges, key, value) ==
  [k \in DOMAIN ranges \union {key} |-> IF k = key THEN value ELSE ranges[k]]

DeleteKeys(ranges, keys) == [k \in DOMAIN ranges \ keys |-> ranges[k]]

Unset == -1

\* Variation: the block at the slot counts.
ExtractPreviousUpTo(archive, belowSlot) ==
  LET below == {b \in archive : blockSlot[b] <= belowSlot}
  IN  IF below = {} THEN [root |-> NoBlock, slot |-> -1]
      ELSE LET slot == Max(SlotsOfBlocks(below))
           IN  [root |-> CHOOSE b \in below : blockSlot[b] = slot, slot |-> slot]

\* extractPreviousFinOrWsCheckpoint: the next archived block below a slot.
ExtractPrevious(archive, belowSlot) ==
  LET below == {b \in archive : blockSlot[b] < belowSlot}
  IN  IF below = {} THEN [root |-> NoBlock, slot |-> -1]
      ELSE LET slot == Max(SlotsOfBlocks(below))
           IN  [root |-> CHOOSE b \in below : blockSlot[b] = slot, slot |-> slot]

-----------------------------------------------------------------------------
(* Start *)

\* init and the constructor, for the anchor state of a block.
NewBackfill(anchor, ws, archive, ranges) ==
  LET slot == blockSlot[anchor]
  IN  [startFrom |-> anchor,
       anchorBlock |-> NoBlock, anchorBlockRoot |-> anchor,
       lastBackSynced |-> NoBlock, lastRoot |-> NoBlock,
       rangeWritten |-> IF slot \in DOMAIN ranges THEN ranges[slot] ELSE Unset,
       prevFinalized |-> ExtractPrevious(archive, slot),
       wsCheckpoint |-> ws, wsValidated |-> FALSE,
       status |-> "pending", step |-> "next", triggered |-> TRUE,
       jumped |-> FALSE, seqs |-> {}]

NewArchiver(anchor) == [step |-> "idle", block |-> anchor]

\* persistAnchorState
WithAnchor(archive, anchor) ==
  IF anchor = genesisBlock THEN archive \union {anchor} ELSE archive

BackfillInit ==
  /\ storedState \in wsAnchors \union {genesisBlock}
  /\ blockArchive = WithAnchor({}, storedState) /\ rootIndex = blockArchive
  /\ backfilledRanges = [k \in {} |-> 0]
  /\ backfill = NewBackfill(storedState,
                            IF storedState \in wsAnchors THEN storedState ELSE NoBlock,
                            blockArchive, backfilledRanges)
  /\ archiver = NewArchiver(storedState)
  /\ restarts = 0 /\ otherBlocks = 0

\* Has another block been taken for the one that was asked for?
Misled == otherBlocks > 0

\* What the node is known to have finalized before; the archive does not tell
\* any more once a block of a peer's choice is in it.
FinalizedBefore == IF Misled THEN {} ELSE blockArchive

\* What a node finalizes is one chain, after a crash too.
CanBeFinalized(block) ==
  /\ archiver.block \in Lineage[block]
  /\ \A b \in FinalizedBefore :
       blockSlot[b] > blockSlot[archiver.block] => b \in Lineage[block] \/ block \in Lineage[b]

\* The process stops and starts again, from the last stored state or from one
\* that it is given, if that is not older.  Unless it crashed, it stored the
\* finalized state, whose blocks the archiver may not have moved yet.  A given
\* state never contradicts what the node itself finalized at or after its
\* slot.
Restart(ws, finalized) ==
  LET stored == IF finalized = NoBlock THEN storedState ELSE finalized
      anchor == IF ws = NoBlock \/ blockSlot[stored] > blockSlot[ws] THEN stored ELSE ws
  IN  /\ restarts < MaxRestarts
      /\ finalized # NoBlock => CanBeFinalized(finalized)
      /\ ws # NoBlock =>
           \A b \in FinalizedBefore \union {stored} :
             blockSlot[b] >= blockSlot[ws] => ws \in Lineage[b]
      /\ restarts' = restarts + 1
      /\ storedState' = anchor
      /\ blockArchive' = WithAnchor(blockArchive, anchor)
      /\ rootIndex' = WithAnchor(rootIndex, anchor)
      /\ backfill' = NewBackfill(anchor, ws, blockArchive', backfilledRanges)
      /\ archiver' = NewArchiver(anchor)
      /\ UNCHANGED <<backfilledRanges, otherBlocks>>

-----------------------------------------------------------------------------
(* The loop of sync() *)

InBackfill == UNCHANGED <<storedState, archiver, restarts, otherBlocks>>

InArchive == UNCHANGED <<blockArchive, rootIndex>>

InDatabase == InArchive /\ UNCHANGED backfilledRanges

\* Break out of the loop; sync() throws.
AbortedLoop == [backfill EXCEPT !.status = "aborted", !.step = "ended"]

LastSlot == blockSlot[backfill.lastBackSynced]

\* The checkpoint that had to be met was missed, or another block is there.
MissesCheckpoint ==
  \/ LastSlot < backfill.prevFinalized.slot
  \/ /\ LastSlot = backfill.prevFinalized.slot
     /\ backfill.lastRoot # backfill.prevFinalized.root

\* checkIfCheckpointSyncedAndValidate
WsSlot == EpochAtSlot(blockSlot[backfill.wsCheckpoint]) * SLOTS_PER_EPOCH

ChecksWs ==
  /\ backfill.wsCheckpoint # NoBlock /\ ~backfill.wsValidated
  /\ WsSlot >= LastSlot

WsFound(roots) ==
  /\ backfill.wsCheckpoint \in roots
  /\ blockSlot[backfill.wsCheckpoint] < WsSlot + SLOTS_PER_EPOCH

\* A round begins: the checks of what the last round fetched, and the block
\* that was not stored before them.
Iterate ==
  /\ backfill.step = "next" /\ backfill.triggered
  /\ LET s == [backfill EXCEPT !.triggered = FALSE, !.status = "syncing"]
     IN  \/ /\ backfill.lastBackSynced = NoBlock
            /\ backfill' = [s EXCEPT !.step = "db"]
            /\ InDatabase
         \/ /\ backfill.lastBackSynced # NoBlock /\ MissesCheckpoint
            /\ backfill' = AbortedLoop
            /\ InDatabase
         \/ /\ backfill.lastBackSynced # NoBlock /\ ~MissesCheckpoint
            /\ LET met == LastSlot = backfill.prevFinalized.slot
               IN  /\ Store(IF met \/ LastSlot = 0 THEN {backfill.lastBackSynced}
                            ELSE {})
                   /\ backfill' =
                        IF ChecksWs /\ ~WsFound(rootIndex') THEN AbortedLoop
                        ELSE [s EXCEPT
                                !.prevFinalized =
                                   IF met THEN ExtractPrevious(blockArchive', LastSlot)
                                   ELSE @,
                                !.wsValidated = @ \/ ChecksWs,
                                !.step = "range"]
            /\ UNCHANGED backfilledRanges
  /\ InBackfill

\* The range is recorded; the sync is complete at genesis.
WriteRange ==
  /\ backfill.step = "range"
  /\ LET writes == backfill.rangeWritten = Unset \/ LastSlot < backfill.rangeWritten
         s == [backfill EXCEPT !.rangeWritten = IF writes THEN LastSlot ELSE @]
     IN  /\ backfilledRanges' =
              IF writes THEN Put(backfilledRanges, blockSlot[backfill.startFrom], LastSlot)
              ELSE backfilledRanges
         /\ backfill' = IF LastSlot = 0
                          THEN [s EXCEPT !.status = "completed", !.step = "ended"]
                          ELSE [s EXCEPT !.step = "jump"]
  /\ InArchive
  /\ InBackfill

\* The ranges that reach up to the last block.
FilteredSeqs == {k \in DOMAIN backfilledRanges : k >= LastSlot}

JumpBackTo == Min({backfilledRanges[k] : k \in FilteredSeqs})

\* Everything in a range is connected; the block where it ends and the
\* checkpoint on the way have to be there.
CanJump ==
  /\ FilteredSeqs # {}
  /\ JumpBackTo < LastSlot
  /\ JumpBackTo \in SlotsOfBlocks(blockArchive)
  /\ backfill.prevFinalized.slot >= JumpBackTo =>
       HasRoot(backfill.prevFinalized.root)

\* checkUpdateFromBackfillSequences up to the cleanup.
Jump ==
  /\ backfill.step = "jump"
  /\ LET b == CHOOSE c \in blockArchive : blockSlot[c] = JumpBackTo
         s == [backfill EXCEPT
                 !.step = "cleanup", !.jumped = CanJump,
                 !.seqs = {k \in FilteredSeqs : k < blockSlot[backfill.startFrom]}]
     IN  IF CanJump
         THEN /\ backfilledRanges' = Put(backfilledRanges,
                                         blockSlot[backfill.startFrom], JumpBackTo)
              /\ backfill' =
                   [s EXCEPT
                      !.rangeWritten = JumpBackTo,
                      !.anchorBlock = b, !.anchorBlockRoot = b,
                      !.lastBackSynced = b, !.lastRoot = b,
                      !.prevFinalized = IF @.slot >= JumpBackTo
                                          THEN ExtractPrevious(blockArchive, JumpBackTo)
                                          ELSE @]
         ELSE backfill' = s /\ UNCHANGED backfilledRanges
  /\ InArchive
  /\ InBackfill

Cleanup ==
  /\ backfill.step = "cleanup"
  /\ backfilledRanges' = DeleteKeys(backfilledRanges, backfill.seqs)
  /\ backfill' = [backfill EXCEPT
                    !.step = IF backfill.jumped THEN "next" ELSE "db",
                    !.triggered = @ \/ backfill.jumped,
                    !.jumped = FALSE, !.seqs = {}]
  /\ InArchive
  /\ InBackfill

\* fastBackfillDb: one block back, past a checkpoint that is where it has to
\* be.  `root` is what the block was looked up by.
StepBack(walk) ==
  LET slot == blockSlot[walk.block]
      prev == walk.prevFinalized
      rootBefore == blockParent[walk.block]
      isNextSlot == blockSlot[rootBefore] = slot - 1
  IN  IF walk.failed \/ ~HasRoot(rootBefore) THEN walk
      ELSE IF slot < prev.slot \/ (slot = prev.slot /\ walk.root # prev.root)
      THEN [walk EXCEPT !.failed = TRUE]
      ELSE [block |-> AtRoot(rootBefore), root |-> rootBefore, failed |-> FALSE,
            prevFinalized |->
              IF slot # prev.slot THEN prev
              ELSE IF isNextSlot THEN [root |-> rootBefore, slot |-> slot - 1]
              ELSE ExtractPrevious(blockArchive, slot)]

\* The block where a walk over the archive ends.
WalkBack(root) ==
  LET walk[n \in 0..(backfillBatchSize - 1)] ==
        IF n = 0 THEN [block |-> AtRoot(root), root |-> root, failed |-> FALSE,
                       prevFinalized |-> backfill.prevFinalized]
        ELSE StepBack(walk[n - 1])
  IN  walk[backfillBatchSize - 1]

FastBackfillDb ==
  LET root == IF backfill.anchorBlock # NoBlock THEN blockParent[backfill.anchorBlock]
              ELSE backfill.anchorBlockRoot
      end == WalkBack(root)
  IN  /\ backfill.step = "db"
      /\ backfill' =
           IF ~HasRoot(root) THEN [backfill EXCEPT !.step = "network"]
           ELSE IF end.failed THEN AbortedLoop
           ELSE [backfill EXCEPT
                   !.anchorBlock = end.block, !.anchorBlockRoot = end.root,
                   !.lastBackSynced = end.block, !.lastRoot = end.root,
                   !.prevFinalized = end.prevFinalized,
                   !.step = "next", !.triggered = TRUE]
      /\ InDatabase
      /\ InBackfill

-----------------------------------------------------------------------------
(* The network *)

\* Peers come and go: which ones are left is settled when the loop looks for
\* one.  A new peer only wakes it.
AddPeer ==
  /\ backfill.step # "ended"
  /\ backfill' = [backfill EXCEPT !.triggered = TRUE]
  /\ InDatabase
  /\ InBackfill

NoPeer ==
  /\ backfill.step = "network"
  /\ backfill' = [backfill EXCEPT !.status = "pending", !.step = "next"]
  /\ InDatabase
  /\ InBackfill

\* A peer is asked, for the block of a root or for the range before a block.
RequestBlocks ==
  /\ backfill.step = "network"
  /\ backfill' = [backfill EXCEPT
                    !.step = IF backfill.anchorBlock = NoBlock THEN "byRoot" ELSE "byRange"]
  /\ InDatabase
  /\ InBackfill

NextRound(s) == [s EXCEPT !.step = "next", !.triggered = TRUE]

\* An error, no block, or a block with a wrong signature: nothing is kept.
RequestFails ==
  /\ backfill.step \in {"byRoot", "byRange"}
  /\ backfill' = NextRound(backfill)
  /\ InDatabase
  /\ InBackfill

\* syncBlockByRoot: the answer is any signed block, and it is taken for the one
\* that was asked for; at the genesis block it returns and keeps nothing.
SyncBlockByRoot(b) ==
  LET root == backfill.anchorBlockRoot
      isOther == b \notin {root, genesisBlock}
  IN  /\ backfill.step = "byRoot"
      /\ isOther => otherBlocks < MaxOtherBlocks
      /\ otherBlocks' = IF isOther THEN otherBlocks + 1 ELSE otherBlocks
      /\ Store(IF b # genesisBlock /\ backfill.prevFinalized.slot < blockSlot[b]
                 THEN {b} ELSE {})
      /\ backfill' = NextRound(IF b = genesisBlock THEN backfill
                               ELSE [backfill EXCEPT !.anchorBlock = b,
                                                     !.lastBackSynced = b,
                                                     !.lastRoot = root])
      /\ UNCHANGED <<backfilledRanges, storedState, archiver, restarts>>

\* The blocks that a request asks for and that link to the anchor.
RequestedBlocks ==
  LET toSlot == blockSlot[backfill.anchorBlock]
      fromSlot == Max({toSlot - backfillBatchSize, backfill.prevFinalized.slot, 0})
  IN  {b \in Lineage[backfill.anchorBlock] :
         fromSlot <= blockSlot[b] /\ blockSlot[b] < toSlot}

\* Variation: the oldest block waits for the checks in any case.
SavedWithoutOldest(verified, oldest) == verified \ {oldest}

\* What is stored before the checks of the next round: not a block that could
\* be in the place of the checkpoint.
SavedBlocks(verified, oldest) ==
  IF blockSlot[oldest] > backfill.prevFinalized.slot THEN verified
  ELSE verified \ {oldest}

ToParent(s) ==
  [s EXCEPT !.anchorBlock = NoBlock, !.anchorBlockRoot = blockParent[s.anchorBlock]]

\* syncRange: of the answer, the newest `count` blocks link to the anchor and
\* to each other; `linear` if there is no other block below them.
SyncRange(count, linear) ==
  /\ backfill.step = "byRange"
  /\ count <= Cardinality(RequestedBlocks)
  /\ IF count = 0
     THEN /\ backfill' = NextRound(ToParent(backfill))
          /\ InArchive
     ELSE LET verified == {b \in RequestedBlocks :
                             Cardinality({c \in RequestedBlocks :
                                            blockSlot[c] > blockSlot[b]}) < count}
              oldest == CHOOSE b \in verified :
                          \A c \in verified : blockSlot[b] <= blockSlot[c]
              s == [backfill EXCEPT !.anchorBlock = oldest, !.anchorBlockRoot = oldest,
                                    !.lastBackSynced = oldest, !.lastRoot = oldest]
          IN  /\ Store(SavedBlocks(verified, oldest))
              /\ oldest = genesisBlock => linear
              /\ backfill' = NextRound(IF linear THEN s ELSE ToParent(s))
  /\ UNCHANGED backfilledRanges
  /\ InBackfill

\* A peer that serves everything.
HonestAnswer ==
  \/ SyncBlockByRoot(backfill.anchorBlockRoot)
  \/ SyncRange(Cardinality(RequestedBlocks), TRUE)

-----------------------------------------------------------------------------
(* The archiver: processFinalizedCheckpoint *)

InArchiver == UNCHANGED <<backfill, restarts, otherBlocks>>

\* The blocks that a finalized block adds to those finalized before.
NewlyFinalized(block) == Lineage[block] \ Lineage[archiver.block]

MigrateBlocks(block) ==
  /\ archiver.step = "idle"
  /\ block # archiver.block /\ CanBeFinalized(block)
  /\ Store(NewlyFinalized(block))
  /\ archiver' = [step |-> "state", block |-> block]
  /\ UNCHANGED <<backfilledRanges, storedState>>
  /\ InArchiver

\* It throws after the newest blocks were moved.  The blocks that were moved
\* are asked for again, and missing, as long as the process runs.
MigrateFails(block, slot) ==
  /\ archiver.step \in {"idle", "failed"}
  /\ block # archiver.block /\ CanBeFinalized(block)
  /\ Store({b \in NewlyFinalized(block) : blockSlot[b] >= slot})
  /\ archiver' = [archiver EXCEPT !.step = "failed"]
  /\ UNCHANGED <<backfilledRanges, storedState>>
  /\ InArchiver

\* maybeArchiveState stores the state of some checkpoints, or throws.
MaybeArchiveState(stores, step) ==
  /\ archiver.step = "state"
  /\ storedState' = IF stores THEN archiver.block ELSE storedState
  /\ archiver' = [archiver EXCEPT !.step = step]
  /\ InDatabase
  /\ InArchiver

AnchorSlot == blockSlot[backfill.startFrom]

\* updateBackfillRange
UpdateBackfillRange ==
  /\ archiver.step = "put"
  /\ backfilledRanges' = Put(backfilledRanges, blockSlot[archiver.block], AnchorSlot)
  /\ archiver' = [archiver EXCEPT !.step = "clear"]
  /\ InArchive /\ UNCHANGED storedState
  /\ InArchiver

ClearForwardRanges ==
  /\ archiver.step = "clear"
  /\ backfilledRanges' =
       DeleteKeys(backfilledRanges,
                  {k \in DOMAIN backfilledRanges :
                     AnchorSlot < k /\ k < blockSlot[archiver.block]})
  /\ archiver' = [archiver EXCEPT !.step = "idle"]
  /\ InArchive /\ UNCHANGED storedState
  /\ InArchiver

-----------------------------------------------------------------------------
Loop == Iterate \/ WriteRange \/ Jump \/ Cleanup \/ FastBackfillDb
        \/ NoPeer \/ RequestBlocks

Archive ==
  \/ \E b \in ChainBlock :
       \/ MigrateBlocks(b)
       \/ \E slot \in SlotsOfBlocks(ChainBlock) : MigrateFails(b, slot)
  \/ MaybeArchiveState(FALSE, "failed")
  \/ \E stores \in BOOLEAN : MaybeArchiveState(stores, "put")
  \/ UpdateBackfillRange
  \/ ClearForwardRanges

BackfillNext ==
  \/ Loop
  \/ AddPeer
  \/ RequestFails
  \/ \E b \in ChainBlock : SyncBlockByRoot(b)
  \/ \E count \in 0..backfillBatchSize, linear \in BOOLEAN : SyncRange(count, linear)
  \/ Archive
  \/ \E ws \in wsAnchors \union {NoBlock}, finalized \in ChainBlock \union {NoBlock} :
       Restart(ws, finalized)

-----------------------------------------------------------------------------
(* Properties *)

\* "Slot to slot ranges that ensure that block range is fully backfilled": what
\* a range claims is in the archive down to the block where the range ends,
\* which may still have to be fetched; and after a completed sync every block
\* back to genesis, the weak subjectivity checkpoint among them.
RangesAreComplete ==
  /\ \A k \in DOMAIN backfilledRanges :
       \E b \in blockArchive :
         /\ blockSlot[b] = k
         /\ {c \in Lineage[b] : blockSlot[c] > backfilledRanges[k]} \subseteq blockArchive
  /\ backfill.status = "completed" =>
       /\ Lineage[backfill.startFrom] \subseteq blockArchive
       /\ backfill.wsCheckpoint \in Lineage[backfill.startFrom] \union {NoBlock}

\* No order of crashes, restarts, jumps, failed migrations and short answers
\* leaves a claim without its blocks: only a block that syncBlockByRoot took
\* for the one it had asked for does.
ClaimsAreStored == Misled \/ RangesAreComplete

\* The archive or the checkpoint belong to another branch.
Conflict ==
  \/ backfill.wsCheckpoint \notin Lineage[backfill.startFrom] \union {NoBlock}
  \/ \E b \in blockArchive :
       blockSlot[b] <= blockSlot[backfill.startFrom] /\ b \notin Lineage[backfill.startFrom]

\* syncBlockByRoot never gets past genesis.
AsksForGenesis ==
  backfill.anchorBlock = NoBlock /\ backfill.anchorBlockRoot = genesisBlock

\* With peers that connect again and again and sometimes answer, the sync ends,
\* whatever jumps, restarts and other answers left in the archive: at genesis,
\* or it gives up, on a conflict or after another block was taken for the one
\* asked for.  The exception is the code's: genesis asked for by its root.
BackfillEnds ==
  <>[](\/ backfill.status = "completed"
       \/ backfill.status = "aborted" /\ (Conflict \/ Misled)
       \/ AsksForGenesis)

=============================================================================
