----------------------------- MODULE ForkChoice -----------------------------
(***************************************************************************)
(* The fork choice of the beacon node and those who call it: the clock     *)
(* (updateTime), the block processor (importBlock), the gossip handlers    *)
(* (onAttestation) and the archiver (prune).  The calls are synchronous,   *)
(* so each is one step; what they leave to a later call (queued votes, a   *)
(* cached head, a cached boost, a better justified checkpoint) is state.   *)
(***************************************************************************)
EXTENDS ProtoArray

CONSTANTS
  SLOTS_PER_EPOCH,
  SAFE_SLOTS_TO_UPDATE_JUSTIFIED,
  PROPOSER_SCORE_BOOST,
  anchor,            \* the block of the anchor state
  startSlot,         \* the slot of the clock when the node starts
  attestationsOf,    \* [Block -> Seq(Attestation)]: those a block carries
  GossipAttestation, \* attestations that gossip may deliver
  balancesAt,        \* [Checkpoint -> [Validator -> Nat]]: effective balances
  MaxSlot            \* bound: the clock stops here

EpochAtSlot(slot) == slot \div SLOTS_PER_EPOCH

StartSlotAtEpoch(epoch) == epoch * SLOTS_PER_EPOCH

Attestation ==
  [slot : Nat, targetEpoch : Nat, targetRoot : Block, root : Block,
   indices : SUBSET Validator]

ASSUME ForkChoiceAssumption ==
  /\ SLOTS_PER_EPOCH \in Nat \ {0}
  /\ SAFE_SLOTS_TO_UPDATE_JUSTIFIED \in Nat
  /\ PROPOSER_SCORE_BOOST \in Nat
  /\ anchor \in Block /\ parentOf[anchor] = anchor
  /\ {startSlot, MaxSlot} \subseteq Nat
  /\ \A b \in Block : ToSet(attestationsOf[b]) \subseteq Attestation
  /\ GossipAttestation \subseteq Attestation
  /\ \A b \in Block : balancesAt[justifiedOf[b]] \in [Validator -> Nat]

VARIABLES
  protoArray,
  store,                \* fcStore: currentSlot and the three checkpoints
  votes,                \* per validator: the vote in the weights, the latest
  queuedAttestations,   \* in the order they came
  justifiedBalances,
  bestJustifiedBalances,
  synced,               \* whether the weights are those of the votes
  head,                 \* the cached head
  proposerBoostRoot,
  proposerBoostScore,   \* justifiedProposerBoostScore; Unset is `null`
  finalizedQueue        \* checkpoints the archiver has yet to process

vars == <<protoArray, store, votes, queuedAttestations, justifiedBalances,
          bestJustifiedBalances, synced, head, proposerBoostRoot,
          proposerBoostScore, finalizedQueue>>

Unset == -1

\* A validator without a vote: any epoch is later.
NoVote == [currentRoot |-> ZERO_HASH, nextRoot |-> ZERO_HASH, nextEpoch |-> -1]

-----------------------------------------------------------------------------
(* Votes *)

AddLatestMessage(vs, v, epoch, root) ==
  IF epoch > vs[v].nextEpoch
    THEN [vs EXCEPT ![v].nextRoot = root, ![v].nextEpoch = epoch] ELSE vs

\* One attestation, for each of its validators.
AddMessages(vs, att) ==
  [v \in Validator |->
     IF v \in att.indices
       THEN AddLatestMessage(vs, v, att.targetEpoch, att.root)[v] ELSE vs[v]]

\* The target root that onBlock stores with a block.
TargetRoot(b) ==
  LET slot == StartSlotAtEpoch(EpochAtSlot(slotOf[b]))
      path[c \in Block] == IF slotOf[c] <= slot \/ parentOf[c] = c
                             THEN c ELSE path[parentOf[c]]
  IN  path[b]

\* validateAttestationData and the check of the aggregation bits.
ValidAttestation(pa, currentSlot, att) ==
  LET epochNow == EpochAtSlot(currentSlot)
      expectedTarget == IF att.targetEpoch > EpochAtSlot(slotOf[att.root])
                          THEN att.root ELSE TargetRoot(att.root)
  IN  /\ att.indices # {}
      /\ att.targetEpoch \in {epochNow, epochNow - 1}
      /\ att.targetEpoch = EpochAtSlot(att.slot)
      /\ {att.targetRoot, att.root} \subseteq Known(pa)
      /\ att.targetRoot = expectedTarget
      /\ slotOf[att.root] <= att.slot

\* Variation: a new vote does not mark the weights as stale.
TakeAttestationStaysSynced(pa, currentSlot, acc, att) ==
  CASE ~ValidAttestation(pa, currentSlot, att) -> acc
    [] ValidAttestation(pa, currentSlot, att) /\ att.slot < currentSlot ->
         [acc EXCEPT !.votes = AddMessages(@, att)]
    [] OTHER -> [acc EXCEPT !.queue = Append(@, att)]

\* onAttestation on [votes, queue, synced]: an attestation of a past slot
\* counts at once, another one waits.
TakeAttestation(pa, currentSlot, acc, att) ==
  CASE ~ValidAttestation(pa, currentSlot, att) -> acc
    [] ValidAttestation(pa, currentSlot, att) /\ att.slot < currentSlot ->
         [acc EXCEPT !.votes = AddMessages(@, att), !.synced = FALSE]
    [] OTHER -> [acc EXCEPT !.queue = Append(@, att)]

\* processAttestationQueue
Ripe(att, currentSlot) == att.slot <= currentSlot

ProcessAttestationQueue(currentSlot, acc) ==
  LET ripe == SelectSeq(acc.queue, LAMBDA a : Ripe(a, currentSlot))
  IN  [votes |-> FoldLeft(AddMessages, acc.votes, ripe),
       queue |-> SelectSeq(acc.queue, LAMBDA a : ~Ripe(a, currentSlot)),
       synced |-> acc.synced /\ ripe = <<>>]

-----------------------------------------------------------------------------
(* Weights and the head *)

\* computeDeltas: what each node gains and loses by itself.
ComputeDeltas(pa, vs, oldBalances, newBalances) ==
  LET changed == {v \in Validator : \/ vs[v].currentRoot # vs[v].nextRoot
                                    \/ oldBalances[v] # newBalances[v]}
      gained(r) == MapThenSumSet(LAMBDA v : newBalances[v],
                                 {v \in changed : vs[v].nextRoot = r})
      lost(r) == MapThenSumSet(LAMBDA v : oldBalances[v],
                               {v \in changed : vs[v].currentRoot = r})
  IN  [i \in DOMAIN pa.nodes |->
         gained(pa.nodes[i].root) - lost(pa.nodes[i].root)]

ComputeProposerBoostScore(balances) ==
  LET active == {v \in Validator : balances[v] > 0}
      total == MapThenSumSet(LAMBDA v : balances[v], active)
      committeeSize == Cardinality(active) \div SLOTS_PER_EPOCH
  IN  (committeeSize * (total \div Cardinality(active)) * PROPOSER_SCORE_BOOST)
        \div 100

\* The cached score, computed when there is none.
BoostScore(cached, balances) ==
  IF cached = Unset THEN ComputeProposerBoostScore(balances) ELSE cached

\* updateHead: the weights, unless they are in sync, then the head.
UpdatedArray(pa, s, vs, isSynced, balances, boost) ==
  IF isSynced THEN pa
  ELSE ApplyScoreChanges(pa, ComputeDeltas(pa, vs, balances, balances), boost,
                         s.justified, s.finalized)

MoveVotes(vs, isSynced) ==
  IF isSynced THEN vs
  ELSE [v \in Validator |-> [vs[v] EXCEPT !.currentRoot = vs[v].nextRoot]]

-----------------------------------------------------------------------------
(* Blocks *)

\* The checks at the top of onBlock, and of the caller for known blocks.
MayImport(b) ==
  LET finalizedSlot == StartSlotAtEpoch(store.finalized.epoch)
  IN  /\ b \notin Known(protoArray)
      /\ parentOf[b] \in Known(protoArray)
      /\ slotOf[b] <= store.currentSlot
      /\ slotOf[b] > finalizedSlot
      /\ Ancestor(protoArray, parentOf[b], finalizedSlot) = store.finalized.root

ShouldUpdateJustifiedCheckpoint(b) ==
  LET justifiedSlot == StartSlotAtEpoch(store.justified.epoch)
  IN  \/ store.currentSlot % SLOTS_PER_EPOCH < SAFE_SLOTS_TO_UPDATE_JUSTIFIED
      \/ EpochAtSlot(slotOf[b]) < EpochAtSlot(store.currentSlot)
      \/ Ancestor(protoArray, justifiedOf[b].root, justifiedSlot)
           = store.justified.root

\* The caller supplies the balances of a later justified checkpoint only.
HasBalances(b) == justifiedOf[b].epoch > store.justified.epoch

NewBest(b) == HasBalances(b) /\ justifiedOf[b].epoch > store.bestJustified.epoch

Finalizes(b) == finalizedOf[b].epoch > store.finalized.epoch

UpdatesJustified(b) ==
  \/ Finalizes(b)
  \/ HasBalances(b) /\ ShouldUpdateJustifiedCheckpoint(b)

\* The checkpoints when the block's own are known.
StoreAfter(b) ==
  [store EXCEPT
     !.bestJustified = IF NewBest(b) THEN justifiedOf[b] ELSE @,
     !.finalized = IF Finalizes(b) THEN finalizedOf[b] ELSE @,
     !.justified = IF UpdatesJustified(b) /\ HasBalances(b)
                     THEN justifiedOf[b] ELSE @]

\* onFinalized: the archiver's queue.
EnqueueFinalized(b) ==
  finalizedQueue' = IF Finalizes(b) THEN Append(finalizedQueue, finalizedOf[b])
                    ELSE finalizedQueue

\* importBlock to the end of updateHead, for a block that onBlock accepts.
\* `timely` blocks arrive in the first interval of their slot.
ImportBlock(b, timely) ==
  LET s == StoreAfter(b)
      justifies == UpdatesJustified(b)
      balances == IF justifies THEN balancesAt[justifiedOf[b]]
                  ELSE justifiedBalances
      boosted == timely /\ slotOf[b] = store.currentSlot
      boostRoot == IF boosted THEN b ELSE proposerBoostRoot
      cached == IF justifies THEN Unset ELSE proposerBoostScore
      added == AddNode(protoArray, b)
      relevant == EpochAtSlot(slotOf[b]) >= EpochAtSlot(s.currentSlot) - 1
      taken == FoldLeft(LAMBDA acc, att :
                          TakeAttestation(added, s.currentSlot, acc, att),
                        [votes |-> votes, queue |-> queuedAttestations,
                         synced |-> synced /\ ~justifies /\ ~boosted],
                        IF relevant THEN attestationsOf[b] ELSE <<>>)
      score == BoostScore(cached, balances)
      boost == IF boostRoot = ZERO_HASH THEN NoBoost
               ELSE [root |-> boostRoot, score |-> score]
      updated == UpdatedArray(added, s, taken.votes, taken.synced, balances, boost)
      newHead == FindHead(updated, s.justified.root)
  IN  /\ MayImport(b)
      /\ justifies => HasBalances(b)
      /\ timely => slotOf[b] = store.currentSlot
      /\ store' = s
      /\ protoArray' = updated
      /\ votes' = MoveVotes(taken.votes, taken.synced)
      /\ queuedAttestations' = taken.queue
      /\ justifiedBalances' = balances
      /\ bestJustifiedBalances' = IF NewBest(b) THEN balancesAt[justifiedOf[b]]
                                  ELSE bestJustifiedBalances
      /\ synced' = TRUE
      \* findHead throws: the node stays, the head too
      /\ head' = IF newHead = ZERO_HASH THEN head ELSE newHead
      /\ proposerBoostRoot' = boostRoot
      /\ proposerBoostScore' = IF boostRoot = ZERO_HASH \/ taken.synced
                                 THEN cached ELSE score
      /\ EnqueueFinalized(b)

\* onBlock throws UNABLE_TO_SET_JUSTIFIED_CHECKPOINT after it set the
\* finalized checkpoint: the block finalizes more than is known and justifies
\* no more.
ImportBlockThrows(b) ==
  /\ MayImport(b)
  /\ UpdatesJustified(b) /\ ~HasBalances(b)
  /\ store' = StoreAfter(b)
  /\ synced' = FALSE
  /\ EnqueueFinalized(b)
  /\ UNCHANGED <<protoArray, votes, queuedAttestations, justifiedBalances,
                 bestJustifiedBalances, head, proposerBoostRoot,
                 proposerBoostScore>>

-----------------------------------------------------------------------------
(* The clock, gossip and the archiver *)

\* A gossip handler; a clock disparity of one slot is tolerated.
OnAttestation(att) ==
  LET taken == TakeAttestation(protoArray, store.currentSlot,
                               [votes |-> votes, queue |-> queuedAttestations,
                                synced |-> synced], att)
  IN  /\ att.slot <= store.currentSlot + 1
      /\ ValidAttestation(protoArray, store.currentSlot, att)
      /\ att \notin ToSet(queuedAttestations)
      /\ votes' = taken.votes
      /\ queuedAttestations' = taken.queue
      /\ synced' = taken.synced
      /\ UNCHANGED <<protoArray, store, justifiedBalances, bestJustifiedBalances,
                     head, proposerBoostRoot, proposerBoostScore, finalizedQueue>>

\* At the start of an epoch, a better justified checkpoint on the chain of
\* the finalized one is taken over.
TakesBestJustified(slot) ==
  /\ slot % SLOTS_PER_EPOCH = 0
  /\ store.bestJustified.epoch > store.justified.epoch
  /\ Ancestor(protoArray, store.bestJustified.root,
              StartSlotAtEpoch(store.finalized.epoch)) = store.finalized.root

\* updateTime, called once a slot.
UpdateTime ==
  LET slot == store.currentSlot + 1
      takes == TakesBestJustified(slot)
      taken == ProcessAttestationQueue(slot,
                 [votes |-> votes, queue |-> queuedAttestations,
                  synced |-> synced /\ proposerBoostRoot = ZERO_HASH /\ ~takes])
  IN  /\ slot <= MaxSlot
      /\ store' = [store EXCEPT !.currentSlot = slot,
                                !.justified = IF takes THEN store.bestJustified
                                              ELSE @]
      /\ proposerBoostRoot' = ZERO_HASH
      /\ proposerBoostScore' = IF takes THEN Unset ELSE proposerBoostScore
      /\ justifiedBalances' = IF takes THEN bestJustifiedBalances
                              ELSE justifiedBalances
      /\ votes' = taken.votes
      /\ queuedAttestations' = taken.queue
      /\ synced' = taken.synced
      /\ UNCHANGED <<protoArray, bestJustifiedBalances, head, finalizedQueue>>

\* The archiver's last step for a finalized checkpoint.
Prune ==
  /\ finalizedQueue # <<>>
  /\ protoArray' =
       LET root == Head(finalizedQueue).root
       IN  IF root \in Known(protoArray) THEN MaybePrune(protoArray, root)
           ELSE protoArray
  /\ finalizedQueue' = Tail(finalizedQueue)
  /\ UNCHANGED <<store, votes, queuedAttestations, justifiedBalances,
                 bestJustifiedBalances, synced, head, proposerBoostRoot,
                 proposerBoostScore>>

-----------------------------------------------------------------------------
(* initializeForkChoice at a genesis state, and the constructor *)

Genesis == [epoch |-> 0, root |-> anchor]

Init ==
  /\ protoArray = AddNode(EmptyArray(Genesis, Genesis), anchor)
  /\ store = [currentSlot |-> startSlot, justified |-> Genesis,
              bestJustified |-> Genesis, finalized |-> Genesis]
  /\ votes = [v \in Validator |-> NoVote]
  /\ queuedAttestations = <<>>
  /\ justifiedBalances = balancesAt[justifiedOf[anchor]]
  /\ bestJustifiedBalances = justifiedBalances
  /\ synced = TRUE
  /\ head = anchor
  /\ proposerBoostRoot = ZERO_HASH
  /\ proposerBoostScore = Unset
  /\ finalizedQueue = <<>>

Next ==
  \/ \E b \in Block, timely \in BOOLEAN : ImportBlock(b, timely)
  \/ \E b \in Block : ImportBlockThrows(b)
  \/ \E att \in GossipAttestation : OnAttestation(att)
  \/ UpdateTime
  \/ Prune

Spec == Init /\ [][Next]_vars

-----------------------------------------------------------------------------
(* Properties *)

\* The array and its index agree, parents come before their children, and the
\* links point from a node to a child and to a descendant of that child.
TypeOK ==
  LET nodes == protoArray.nodes
      indices == protoArray.indices
  IN  /\ DOMAIN indices \subseteq Block
      /\ DOMAIN indices = {nodes[i].root : i \in DOMAIN nodes}
      /\ \A i \in DOMAIN nodes :
           /\ indices[nodes[i].root] = i
           /\ nodes[i].parent \in 0..(i - 1)
           /\ nodes[i].weight \in Nat
           /\ (nodes[i].bestChild = Undefined) = (nodes[i].bestDescendant = Undefined)
           /\ nodes[i].bestChild # Undefined =>
                /\ nodes[nodes[i].bestChild].parent = i
                /\ nodes[i].bestChild \in
                     ToSet(PathFrom(protoArray, nodes[i].bestDescendant))
      /\ head \in Block
      /\ proposerBoostRoot \in Block \union {ZERO_HASH}
      /\ proposerBoostScore \in Nat \union {Unset}
      /\ synced \in BOOLEAN
      /\ ToSet(queuedAttestations) \subseteq Attestation

\* applyScoreChanges, onBlock and maybePrune keep the weights exact although
\* they only ever add differences: once they are in sync, the weight of a
\* node is what the balances of the justified state give its sub-tree by the
\* votes, and the boost.
WeightsAreVotes ==
  synced =>
    \A i \in DOMAIN protoArray.nodes :
      LET node == protoArray.nodes[i]
          supports(r) == IsDescendant(protoArray, node.root, r)
          boost == protoArray.previousBoost
      IN  node.weight =
            MapThenSumSet(LAMBDA v : justifiedBalances[v],
                          {v \in Validator : supports(votes[v].nextRoot)})
            + (IF supports(boost.root) THEN boost.score ELSE 0)

\* What the callers rely on between two imports, whatever was finalized and
\* pruned meanwhile: the justified block, the better one that a tick may
\* take over and the cached head are in the array and descend from the
\* finalized block, so that neither updateTime nor updateHead throws for a
\* block that is missing.
RootsAreKnown ==
  LET rooted(r) == IsDescendant(protoArray, store.finalized.root, r)
  IN  /\ rooted(store.justified.root)
      /\ store.bestJustified.epoch > store.justified.epoch =>
           rooted(store.bestJustified.root)
      /\ rooted(head)

-----------------------------------------------------------------------------
(* Refinement *)

LatestMessage(v) == [root |-> votes[v].nextRoot, epoch |-> votes[v].nextEpoch]

Ghost ==
  INSTANCE LmdGhost WITH
    known <- DOMAIN protoArray.indices,
    message <- [v \in Validator |-> LatestMessage(v)],
    justified <- store.justified,
    finalized <- store.finalized,
    boosted <- proposerBoostRoot

\* updateHead works on differences, on cached weights, links, balances and a
\* cached boost, and only when something marked them stale; the head it
\* leaves is the one of the rule, computed from the latest messages.
HeadIsGhost == Ghost!Spec

=============================================================================
