------------------------- MODULE LightClientServer --------------------------
(***************************************************************************)
(* The LightClientServer of a beacon node and the archiver that prunes its *)
(* data.  An imported block starts two tasks that nobody awaits: one for   *)
(* its sync aggregate, which signs the parent, and one that persists what  *)
(* the block's post state proves.  Every database call is an await, so the *)
(* tasks of several blocks interleave, each call may fail, and a restart   *)
(* forgets the tasks and the memory but not the database.                  *)
(*                                                                         *)
(* A block stands for its root, its header and its post state; branches    *)
(* and signatures are left out.                                            *)
(***************************************************************************)
EXTENDS BlockTree, InsertionMap, FiniteSets

CONSTANTS
  SYNC_COMMITTEE_SIZE,
  MAX_PREV_HEAD_DATA,
  MAX_CACHED_FINALIZED_HEADERS,
  Committee,
  currentSyncCommittee,  \* [Block -> Committee], of the post state
  nextSyncCommittee,
  bitsOf,                \* participation in the block's sync aggregate
  Anchors,               \* the blocks that the node may start from
  Archives,              \* does the archiver run?
  MaxImporting,          \* bound: blocks whose tasks run at the same time
  MaxFaults              \* bound: failing calls and restarts, of each anchor

ASSUME LightClientServerAssumption ==
  /\ SYNC_COMMITTEE_SIZE \in Nat \ {0}
  /\ MAX_PREV_HEAD_DATA \in Nat \ {0}
  /\ MAX_CACHED_FINALIZED_HEADERS \in Nat \ {0}
  /\ currentSyncCommittee \in [Block -> Committee]
  /\ nextSyncCommittee \in [Block -> Committee]
  /\ bitsOf \in [Block -> 0..SYNC_COMMITTEE_SIZE]
  /\ Anchors \subseteq Block /\ \A b \in Anchors : parentOf[b] = b
  /\ Archives \in BOOLEAN /\ MaxImporting \in Nat \ {0}
  /\ MaxFaults \in [Anchors -> Nat]

\* processSyncCommitteeUpdates: in the last epoch of a period the next committee
\* becomes the current one and a new one is drawn, from the state that the
\* parent's advances to.
ASSUME SyncCommitteeAssumption ==
  \A b \in Block :
    /\ Period(b) = Period(parentOf[b])
         => nextSyncCommittee[b] = nextSyncCommittee[parentOf[b]]
    /\ Period(b) = Period(parentOf[b]) + 1
         => currentSyncCommittee[b] = nextSyncCommittee[parentOf[b]]
    /\ \A c \in Block :
         parentOf[b] = parentOf[c] /\ Period(b) = Period(c)
           => nextSyncCommittee[b] = nextSyncCommittee[c]

\* The finalized checkpoint of a state is a block of its own chain.
ASSUME FinalityAssumption ==
  \A b \in Block :
    finalizedOf[b].root \in Block => IsAncestorOrSelf(finalizedOf[b].root, b)

NoUpdate == [attested |-> ZERO_HASH, bits |-> 0, isFinalized |-> FALSE]

VARIABLES
  \* fork choice and archiver
  nodes,                  \* the proto array
  finalized,              \* the fork choice's finalized checkpoint
  jobs,                   \* finalized checkpoints the archiver has to process
  archiving,              \* the roots it prunes now and what it still deletes
  archivedState,          \* the checkpoint a restart begins with
  \* memory of the light client server
  storedCurrentSyncCommittee,
  knownSyncCommittee,     \* pairs <<period, dependant root>>
  prevHeadData,           \* Map<root, attested data>
  checkpointHeaders,      \* Map<root, header>
  latestHeadUpdate,       \* the attested block, or ZERO_HASH
  \* the tasks of each block
  aggregate, persist,
  \* database
  syncCommittee,
  syncCommitteeWitness,
  checkpointHeader,
  bestPartialLightClientUpdate,
  \* for the bounds and the properties
  faultsLeft,
  lostCommittees         \* their store failed or was cut by a restart

chain == <<nodes, finalized, jobs, archiving, archivedState>>

memory == <<storedCurrentSyncCommittee, knownSyncCommittee, prevHeadData,
            checkpointHeaders, latestHeadUpdate>>

witnessDb == <<syncCommitteeWitness, checkpointHeader>>

db == <<syncCommittee, witnessDb, bestPartialLightClientUpdate>>

history == <<faultsLeft, lostCommittees>>

vars == <<chain, memory, aggregate, persist, db, history>>

Periods == {Period(b) : b \in Block}

-----------------------------------------------------------------------------
(* The data of a block *)

FinalizedRoot(b) == finalizedOf[b].root

\* The post state's finalized checkpoint counts when it is of the block's period.
IsFinalized(b) ==
  /\ PeriodAtEpoch(finalizedOf[b].epoch) = Period(b)
  /\ finalizedOf[b].epoch # 0
  /\ FinalizedRoot(b) # ZERO_HASH

PartialUpdate(b, finalizedUpdate) ==
  [attested |-> parentOf[b], bits |-> bitsOf[b],
   isFinalized |-> finalizedUpdate]

\* Is the sync aggregate of b better than the stored update?
IsBetterUpdate(prev, b) ==
  \/ /\ ~prev.isFinalized
     /\ IsFinalized(parentOf[b])
     /\ bitsOf[b] * 3 > SYNC_COMMITTEE_SIZE * 2
  \/ prev.bits < bitsOf[b]
  \/ prev.bits = bitsOf[b] /\ slotOf[prev.attested] > slotOf[parentOf[b]]

-----------------------------------------------------------------------------
(* The task of a sync aggregate: onSyncAggregate and                       *)
(* maybeStoreNewBestPartialUpdate.                                         *)

StartAggregate(b) ==
  LET attested == parentOf[b]
      isKnown == attested \in MapKeys(prevHeadData)
      isNewer == \/ latestHeadUpdate = ZERO_HASH
                 \/ slotOf[attested] > slotOf[latestHeadUpdate]
  IN  /\ aggregate' = [aggregate EXCEPT
                         ![b] = IF isKnown THEN "readBest" ELSE "done"]
      /\ latestHeadUpdate' =
           IF isKnown /\ isNewer THEN attested ELSE latestHeadUpdate

\* Variation: the period of the block, not of the signed one.
BestPeriodOfBlock(b) == Period(b)

BestPeriod(b) == Period(parentOf[b])

ReadBest(b) ==
  LET prev == bestPartialLightClientUpdate[BestPeriod(b)]
      isBetter == prev = NoUpdate \/ IsBetterUpdate(prev, b)
      isCached == FinalizedRoot(parentOf[b]) \in MapKeys(checkpointHeaders)
      next == IF ~isBetter THEN "done"
              ELSE IF ~IsFinalized(parentOf[b]) THEN "putNonFinalized"
              ELSE IF isCached THEN "putFinalized"
              ELSE "readHeader"
  IN  /\ aggregate[b] = "readBest"
      /\ aggregate' = [aggregate EXCEPT ![b] = next]
      /\ UNCHANGED <<chain, memory, persist, db, history>>

\* Variation: the header is taken to be there.
ReadFinalizedHeaderUnchecked(b) ==
  /\ aggregate[b] = "readHeader"
  /\ aggregate' = [aggregate EXCEPT ![b] = "putFinalized"]
  /\ UNCHANGED <<chain, memory, persist, db, history>>

ReadFinalizedHeader(b) ==
  LET root == FinalizedRoot(parentOf[b])
  IN  /\ aggregate[b] = "readHeader"
      /\ \/ /\ root \in checkpointHeader
            /\ checkpointHeaders' =
                 PruneSetToMax(MapSet(checkpointHeaders, root, root),
                               MAX_CACHED_FINALIZED_HEADERS)
            /\ aggregate' = [aggregate EXCEPT ![b] = "putFinalized"]
         \/ /\ root \notin checkpointHeader
            /\ aggregate' = [aggregate EXCEPT ![b] = "putNonFinalized"]
            /\ UNCHANGED checkpointHeaders
      /\ UNCHANGED <<chain, storedCurrentSyncCommittee, knownSyncCommittee,
                     prevHeadData, latestHeadUpdate, persist, db, history>>

PutBest(b) ==
  /\ aggregate[b] \in {"putFinalized", "putNonFinalized"}
  /\ bestPartialLightClientUpdate' =
       [bestPartialLightClientUpdate EXCEPT
          ![BestPeriod(b)] = PartialUpdate(b, aggregate[b] = "putFinalized")]
  /\ aggregate' = [aggregate EXCEPT ![b] = "done"]
  /\ UNCHANGED <<chain, memory, persist, syncCommittee, witnessDb, history>>

Fault == faultsLeft > 0 /\ faultsLeft' = faultsLeft - 1

\* A call of the database fails.
AggregateFails(b) ==
  /\ Fault
  /\ aggregate[b] \notin {"none", "done"}
  /\ aggregate' = [aggregate EXCEPT ![b] = "done"]
  /\ UNCHANGED <<chain, memory, persist, db, lostCommittees>>

-----------------------------------------------------------------------------
(* The task that persists a block's data: persistPostBlockImportData.      *)

CrossesPeriod(b) == Period(parentOf[b]) < Period(b)

\* Variation: the dependant root is not told apart.
KnowsPeriod(b) == \E root \in Block : <<Period(b), root>> \in knownSyncCommittee

KnowsDependantRoot(b) == <<Period(b), parentOf[b]>> \in knownSyncCommittee

\* Variation: epochs instead of periods.
PersistNextByEpoch(b) ==
  LET key == <<EpochAtSlot(slotOf[b]), parentOf[b]>>
      isNew == CrossesPeriod(b) /\ key \notin knownSyncCommittee
  IN  /\ persist' = [persist EXCEPT
                       ![b] = IF isNew THEN "putNext" ELSE "putWitness"]
      /\ knownSyncCommittee' = IF isNew THEN knownSyncCommittee \union {key}
                               ELSE knownSyncCommittee

\* From the check of the dependant root on: the root counts as known before
\* its committee is stored.
PersistNext(b) ==
  LET isNew == CrossesPeriod(b) /\ ~KnowsDependantRoot(b)
  IN  /\ persist' = [persist EXCEPT
                       ![b] = IF isNew THEN "putNext" ELSE "putWitness"]
      /\ knownSyncCommittee' =
           IF isNew
           THEN knownSyncCommittee \union {<<Period(b), parentOf[b]>>}
           ELSE knownSyncCommittee

StartPersist(b) ==
  \/ /\ ~storedCurrentSyncCommittee
     /\ persist' = [persist EXCEPT ![b] = "putCurrent"]
     /\ UNCHANGED knownSyncCommittee
  \/ /\ storedCurrentSyncCommittee
     /\ PersistNext(b)

PutCurrent(b) ==
  /\ persist[b] = "putCurrent"
  /\ syncCommittee' = syncCommittee \union
                        {currentSyncCommittee[b], nextSyncCommittee[b]}
  /\ storedCurrentSyncCommittee' = TRUE
  /\ PersistNext(b)
  /\ UNCHANGED <<chain, prevHeadData, checkpointHeaders, latestHeadUpdate,
                 aggregate, witnessDb, bestPartialLightClientUpdate, history>>

PutNext(b) ==
  /\ persist[b] = "putNext"
  /\ syncCommittee' = syncCommittee \union {nextSyncCommittee[b]}
  /\ persist' = [persist EXCEPT ![b] = "putWitness"]
  /\ UNCHANGED <<chain, memory, aggregate, witnessDb,
                 bestPartialLightClientUpdate, history>>

PutWitness(b) ==
  /\ persist[b] = "putWitness"
  /\ syncCommitteeWitness' = syncCommitteeWitness \union {b}
  /\ persist' = [persist EXCEPT ![b] = "putHeader"]
  /\ UNCHANGED <<chain, memory, aggregate, syncCommittee, checkpointHeader,
                 bestPartialLightClientUpdate, history>>

PutHeader(b) ==
  /\ persist[b] = "putHeader"
  /\ checkpointHeader' = checkpointHeader \union {b}
  /\ prevHeadData' = PruneSetToMax(MapSet(prevHeadData, b, IsFinalized(b)),
                                   MAX_PREV_HEAD_DATA)
  /\ persist' = [persist EXCEPT ![b] = "done"]
  /\ UNCHANGED <<chain, storedCurrentSyncCommittee, knownSyncCommittee,
                 checkpointHeaders, latestHeadUpdate, aggregate, syncCommittee,
                 syncCommitteeWitness, bestPartialLightClientUpdate, history>>

\* The committees that the task of b is storing.
Storing(b) ==
  CASE persist[b] = "putCurrent" -> {currentSyncCommittee[b], nextSyncCommittee[b]}
    [] persist[b] = "putNext" -> {nextSyncCommittee[b]}
    [] OTHER -> {}

\* Of the two committees that are put at the same time one may be stored.
PersistFails(b) ==
  /\ Fault
  /\ persist[b] \notin {"none", "done", "failed"}
  /\ persist' = [persist EXCEPT ![b] = "failed"]
  /\ \/ UNCHANGED syncCommittee
     \/ /\ persist[b] = "putCurrent"
        /\ \E c \in {currentSyncCommittee[b], nextSyncCommittee[b]} :
             syncCommittee' = syncCommittee \union {c}
  /\ lostCommittees' = lostCommittees \union Storing(b)
  /\ UNCHANGED <<chain, memory, aggregate, witnessDb,
                 bestPartialLightClientUpdate>>

-----------------------------------------------------------------------------
(* Block import *)

IsImporting(b) ==
  \/ aggregate[b] \notin {"none", "done"}
  \/ persist[b] \notin {"none", "done", "failed"}

\* importBlock: the fork choice takes the block, which may finalize a
\* checkpoint, and the light client server starts its tasks.
\* Bound: a block has one import at a time (what was pruned does not descend
\* from the finalized block and is not imported again).
ImportBlock(b) ==
  /\ ~IsNode(nodes, b)
  /\ IsNode(nodes, parentOf[b])
  /\ slotOf[b] > finalized.epoch * SLOTS_PER_EPOCH
  /\ IsAncestorOrSelf(finalized.root, b)
  /\ ~IsImporting(b)
  /\ Cardinality({c \in Block : IsImporting(c)}) < MaxImporting
  /\ nodes' = Append(nodes, b)
  /\ \/ /\ finalizedOf[b].epoch > finalized.epoch
        /\ finalized' = finalizedOf[b]
        /\ jobs' = IF Archives THEN Append(jobs, finalizedOf[b]) ELSE jobs
     \/ /\ finalizedOf[b].epoch <= finalized.epoch
        /\ UNCHANGED <<finalized, jobs>>
  /\ StartAggregate(b)
  /\ StartPersist(b)
  /\ UNCHANGED <<archiving, archivedState, storedCurrentSyncCommittee,
                 prevHeadData, checkpointHeaders, db, history>>

-----------------------------------------------------------------------------
(* The archiver: processFinalizedCheckpoint as far as it concerns the      *)
(* light client server.                                                    *)

NotArchiving == [root |-> ZERO_HASH, pruned |-> {}, deletes |-> {}]

\* Variation: every node that is not an ancestor is pruned.
PrunesAllNonAncestors(root) ==
  {nodes[i] : i \in {j \in DOMAIN nodes : ~IsAncestorOrSelf(nodes[j], root)}}

\* The blocks whose data archiveBlocks prunes: the other branches, and of the
\* finalized chain those that getNonCheckpointBlocks returns.  The array of the
\* finalized chain begins with the finalized block.
PrunedBlocks(root) ==
  LET canonical == AllAncestorBlocks(nodes, root)
      slots == [i \in DOMAIN canonical |-> slotOf[canonical[i]]]
  IN  AllNonAncestorBlocks(nodes, root)
        \union {canonical[i] : i \in {j \in DOMAIN canonical :
                                        slots[j] \in NonCheckpointSlots(slots)}}

StartArchiving ==
  /\ archiving = NotArchiving
  /\ jobs # <<>>
  /\ archiving' = [root |-> Head(jobs).root,
                   pruned |-> PrunedBlocks(Head(jobs).root),
                   deletes |-> {"witness", "header"}]
  /\ UNCHANGED <<nodes, finalized, jobs, archivedState, memory, aggregate,
                 persist, db, history>>

\* pruneNonCheckpointData deletes from both tables at the same time.
DeleteWitnesses ==
  /\ "witness" \in archiving.deletes
  /\ syncCommitteeWitness' = syncCommitteeWitness \ archiving.pruned
  /\ archiving' = [archiving EXCEPT !.deletes = @ \ {"witness"}]
  /\ UNCHANGED <<nodes, finalized, jobs, archivedState, memory, aggregate,
                 persist, syncCommittee, checkpointHeader,
                 bestPartialLightClientUpdate, history>>

DeleteHeaders ==
  /\ "header" \in archiving.deletes
  /\ checkpointHeader' = checkpointHeader \ archiving.pruned
  /\ archiving' = [archiving EXCEPT !.deletes = @ \ {"header"}]
  /\ UNCHANGED <<nodes, finalized, jobs, archivedState, memory, aggregate,
                 persist, syncCommittee, syncCommitteeWitness,
                 bestPartialLightClientUpdate, history>>

\* The finalized state is stored every some epochs only.
FinishArchiving ==
  /\ archiving # NotArchiving
  /\ archiving.deletes = {}
  /\ IsNode(nodes, archiving.root)
  /\ archivedState' \in {archivedState, Head(jobs)}
  /\ nodes' = PruneNodes(nodes, archiving.root)
  /\ jobs' = Tail(jobs)
  /\ archiving' = NotArchiving
  /\ UNCHANGED <<finalized, memory, aggregate, persist, db, history>>

\* A step throws, as pruning an unknown block does: the error is logged and the
\* fork choice is not pruned.
ArchivingFails ==
  /\ archiving # NotArchiving
  /\ \/ Fault
     \/ ~IsNode(nodes, archiving.root) /\ UNCHANGED faultsLeft
  /\ jobs' = Tail(jobs)
  /\ archiving' = NotArchiving
  /\ UNCHANGED <<nodes, finalized, archivedState, memory, aggregate, persist,
                 db, lostCommittees>>

-----------------------------------------------------------------------------
(* Start and restart *)

\* computeAnchorCheckpoint: the epoch that begins at or after the anchor.
AnchorEpoch(anchor) == (slotOf[anchor] + SLOTS_PER_EPOCH - 1) \div SLOTS_PER_EPOCH

Init ==
  /\ \E anchor \in Anchors :
       /\ nodes = <<anchor>>
       /\ finalized = [epoch |-> AnchorEpoch(anchor), root |-> anchor]
       /\ faultsLeft = MaxFaults[anchor]
  /\ jobs = <<>>
  /\ archiving = NotArchiving
  /\ archivedState = finalized
  /\ storedCurrentSyncCommittee = FALSE
  /\ knownSyncCommittee = {}
  /\ prevHeadData = EmptyMap
  /\ checkpointHeaders = EmptyMap
  /\ latestHeadUpdate = ZERO_HASH
  /\ aggregate = [b \in Block |-> "none"]
  /\ persist = [b \in Block |-> "none"]
  /\ syncCommittee = {}
  /\ syncCommitteeWitness = {}
  /\ checkpointHeader = {}
  /\ bestPartialLightClientUpdate = [period \in Periods |-> NoUpdate]
  /\ lostCommittees = {}

\* The node stops at any point and starts from the state it has archived.
Restart ==
  /\ Fault
  /\ lostCommittees' = lostCommittees \union UNION {Storing(b) : b \in Block}
  /\ nodes' = <<archivedState.root>>
  /\ finalized' = archivedState
  /\ jobs' = <<>>
  /\ archiving' = NotArchiving
  /\ storedCurrentSyncCommittee' = FALSE
  /\ knownSyncCommittee' = {}
  /\ prevHeadData' = EmptyMap
  /\ checkpointHeaders' = EmptyMap
  /\ latestHeadUpdate' = ZERO_HASH
  /\ aggregate' = [b \in Block |-> "none"]
  /\ persist' = [b \in Block |-> "none"]
  /\ UNCHANGED <<archivedState, db>>

Aggregate(b) == ReadBest(b) \/ ReadFinalizedHeader(b) \/ PutBest(b)

Persist(b) == PutCurrent(b) \/ PutNext(b) \/ PutWitness(b) \/ PutHeader(b)

Archive ==
  StartArchiving \/ DeleteWitnesses \/ DeleteHeaders \/ FinishArchiving

Next ==
  \/ \E b \in Block : \/ ImportBlock(b)
                      \/ Aggregate(b) \/ AggregateFails(b)
                      \/ Persist(b) \/ PersistFails(b)
  \/ Archive
  \/ ArchivingFails
  \/ Restart

Spec == Init /\ [][Next]_vars

-----------------------------------------------------------------------------
(* What the API serves *)

\* The block whose witness proves the next committee of an update.
WitnessBlock(update) ==
  IF update.isFinalized THEN FinalizedRoot(update.attested)
  ELSE update.attested

\* getCommitteeUpdates answers and does not throw.
CommitteeUpdateAvailable(period) ==
  LET update == bestPartialLightClientUpdate[period]
  IN  /\ update # NoUpdate
      /\ WitnessBlock(update) \in syncCommitteeWitness
      /\ nextSyncCommittee[WitnessBlock(update)] \in syncCommittee

-----------------------------------------------------------------------------
(* Properties *)

AggregatePc ==
  {"none", "readBest", "readHeader", "putFinalized", "putNonFinalized", "done"}

PersistPc ==
  {"none", "putCurrent", "putNext", "putWitness", "putHeader", "done", "failed"}

Update ==
  [attested : Block \union {ZERO_HASH}, bits : Nat, isFinalized : BOOLEAN]

\* The types of the fields of LightClientServer, of its tables and of what is
\* left of the fork choice and the archiver.
TypeOK ==
  /\ nodes \in Seq(Block)
  /\ finalized \in Checkpoint /\ archivedState \in Checkpoint
  /\ jobs \in Seq(Checkpoint)
  /\ archiving \in [root : Block \union {ZERO_HASH}, pruned : SUBSET Block,
                    deletes : SUBSET {"witness", "header"}]
  /\ storedCurrentSyncCommittee \in BOOLEAN
  /\ knownSyncCommittee \subseteq Periods \X Block
  /\ prevHeadData \in Seq([key : Block, value : BOOLEAN])
  /\ checkpointHeaders \in Seq([key : Block, value : Block])
  /\ latestHeadUpdate \in Block \union {ZERO_HASH}
  /\ aggregate \in [Block -> AggregatePc]
  /\ persist \in [Block -> PersistPc]
  /\ syncCommittee \subseteq Committee
  /\ syncCommitteeWitness \subseteq Block
  /\ checkpointHeader \subseteq Block
  /\ bestPartialLightClientUpdate \in [Periods -> Update]
  /\ faultsLeft \in Nat /\ lostCommittees \subseteq Committee

\* A finalized update can be served as soon as its committee is stored: the
\* witness of its finalized block is there.  maybeStoreNewBestPartialUpdate only
\* looks at the header of that block, which may come from a cache in memory
\* while the archiver deletes.  A finalized block that is not in the first slot
\* of an epoch loses its witness (see CheckpointDataKept).
FinalizedBestHasWitness ==
  \A period \in Periods :
    LET update == bestPartialLightClientUpdate[period]
        root == FinalizedRoot(update.attested)
    IN  update.isFinalized /\ IsFirstSlot(slotOf[root])
          => root \in syncCommitteeWitness

\* Blocks that are or may become a checkpoint of the finalized chain.
MayBeCheckpoint(b) ==
  \/ IsAncestorOrSelf(finalized.root, b)
  \/ \E epoch \in 0..finalized.epoch : CheckpointBlock(finalized.root, epoch) = b

HasData(b) == b \in syncCommitteeWitness /\ b \in checkpointHeader

\* "Compute which block roots will never become checkpoints and prune them":
\* the data of every other block that was persisted in this run is kept.
CheckpointDataKept ==
  \A b \in Block : persist[b] = "done" /\ MayBeCheckpoint(b) => HasData(b)

\* The same, where the order of the array does no harm: no block after the
\* finalized one and no checkpoint in the first slot of its epoch loses its
\* data, with branches pruned while blocks are imported, jobs that fail or lag
\* behind, and restarts.
OtherDataKept ==
  \A b \in Block :
    /\ persist[b] = "done" /\ MayBeCheckpoint(b)
    /\ IsAncestorOrSelf(b, finalized.root) => IsFirstSlot(slotOf[b])
    => HasData(b)

\* BEST, as isBetterUpdate ranks two updates, only grows: "check if this update
\* is better, otherwise ignore".  "BEST = finalized + highest bit count + oldest"
\* would rank a finalized update first; isBetterUpdate also takes one with more
\* bits that is not finalized in its place, and so does this property.
BestImproves ==
  [][\A period \in Periods :
       LET prev == bestPartialLightClientUpdate[period]
           next == bestPartialLightClientUpdate'[period]
       IN  prev # NoUpdate /\ next # prev =>
             \/ ~prev.isFinalized /\ IsFinalized(next.attested)
             \/ next.bits > prev.bits
             \/ /\ next.bits = prev.bits
                /\ slotOf[next.attested] < slotOf[prev.attested]]_vars

\* A committee that a task is storing will be stored, or is lost when the store
\* fails or the node stops.
StoredOrLost(committee) ==
  \/ committee \in syncCommittee \union lostCommittees
  \/ \E b \in Block : committee \in Storing(b)

\* The next committee of every stored witness is stored, or a task is about to
\* store it, or its store failed or was cut by a restart.  "Ensure referenced
\* syncCommittee are persisted before persisting this one" promises more: with
\* two blocks at a time a witness is stored before its committee is, since the
\* dependant root is known before the awaited store.
WitnessHasCommittee ==
  \A b \in syncCommitteeWitness : StoredOrLost(nextSyncCommittee[b])

\* The update of a period is about a block of that period and carries the
\* committee of the next one, "to transition to the next sync committee", unless
\* its finalized block is of an earlier period: the code compares the period of
\* the checkpoint, whose first slot may be skipped.
ServesNextCommittee ==
  \A period \in Periods :
    LET update == bestPartialLightClientUpdate[period]
        block == WitnessBlock(update)
    IN  CommitteeUpdateAvailable(period) =>
          /\ Period(update.attested) = period
          /\ \/ nextSyncCommittee[block] = nextSyncCommittee[update.attested]
             \/ update.isFinalized /\ Period(block) < Period(update.attested)

=============================================================================
