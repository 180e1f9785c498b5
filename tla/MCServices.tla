----------------------------- MODULE MCServices -----------------------------
(***************************************************************************)
(* Six services that share no state, each on a small instance: the walk    *)
(* over a chain for blocks that are no checkpoints, the sync of unknown    *)
(* blocks, the pool that verifies signatures, the job queue, slashing      *)
(* protection, whose votes and blocks are apart too, and backfill sync     *)
(* with the archiver.  A behaviour picks one of them and runs it alone:    *)
(* with all of them at once the behaviours of each one would be the same,  *)
(* and the states the product of theirs.                                   *)
(***************************************************************************)
EXTENDS MCNonCheckpointBlocks, UnknownBlockSync, BlsPool, JobItemQueue,
        SlashingProtection, BackfillSync

Service ==
  {"checkpoints", "unknownBlocks", "bls", "queue", "votes", "proposals", "backfill"}

VARIABLE service

vars ==
  <<service, slots, unknownBlockVars, blsVars, queueVars, slashingVars, backfillVars>>

-----------------------------------------------------------------------------
(* Constants *)

\* Root 1 is the anchor, 5 is an invalid child of 2, next to 3 and 4.
MCRoot == 1..5

MCParentRoot == <<0, 1, 2, 3, 2>>

MCSetsOf ==
  [g |-> <<"good">>, m |-> <<"malformed">>, w |-> <<"good", "good", "good", "wrong">>]

MCRequest == DOMAIN MCSetsOf

MCOptsOf ==
  [g |-> {"batchable"}, m |-> {"batchable", "verifyOnMainThread"},
   w |-> {"batchable", "plain"}]

Vote(source, target, root) ==
  [sourceEpoch |-> source, targetEpoch |-> target, signingRoot |-> root]

\* Every span up to epoch 4, two targets with a second attestation, and one
\* attestation whose source exceeds its target.
MCVotes ==
  {Vote(0, 0, "r"), Vote(2, 1, "r"), Vote(1, 2, "q"), Vote(0, 4, "q")} \union
  {Vote(t - d, t, "r") : t \in 2..4, d \in 1..2} \union
  {Vote(0, 1, "r"), Vote(1, 4, "r"), Vote(0, 3, "r")}

\* A file with votes of which one has no root, and one with votes that are
\* slashable, so that the import throws.
MCInterchanges ==
  {<<Vote(1, 2, "none"), Vote(2, 3, "r")>>,
   <<Vote(0, 4, "q"), Vote(1, 3, "r"), Vote(1, 2, "r")>>}

\* Genesis, a chain of four blocks with a skipped slot, and a fork from the
\* second block.
MCBlockSlot == <<0, 1, 3, 4, 5>>

MCBlockParent == <<0, 1, 2, 3, 2>>

\* A block of each slot, and a second one of slots 1 and 2.
MCProposals ==
  [slot : 0..2, signingRoot : {"r"}] \union [slot : 1..2, signingRoot : {"q"}]

-----------------------------------------------------------------------------
(* The services side by side *)

Init ==
  /\ service \in Service
  /\ ChainInit /\ UnknownBlockInit /\ BlsInit /\ QueueInit /\ SlashingInit
  /\ BackfillInit
  /\ service # "queue" => queueType = "FIFO"
  /\ service # "backfill" => storedState = genesisBlock

InChain ==
  UNCHANGED <<service, unknownBlockVars, blsVars, queueVars, slashingVars,
              backfillVars>>

InUnknownBlocks ==
  UNCHANGED <<service, slots, blsVars, queueVars, slashingVars, backfillVars>>

InBls ==
  UNCHANGED <<service, slots, unknownBlockVars, queueVars, slashingVars,
              backfillVars>>

InQueue ==
  UNCHANGED <<service, slots, unknownBlockVars, blsVars, slashingVars, backfillVars>>

InSlashing ==
  UNCHANGED <<service, slots, unknownBlockVars, blsVars, queueVars, backfillVars>>

InBackfillSync ==
  UNCHANGED <<service, slots, unknownBlockVars, blsVars, queueVars, slashingVars>>

Next ==
  \/ service = "checkpoints" /\ ChainNext /\ InChain
  \/ service = "unknownBlocks" /\ UnknownBlockNext /\ InUnknownBlocks
  \/ service = "bls" /\ BlsNext /\ InBls
  \/ service = "queue" /\ QueueNext /\ InQueue
  \/ service = "votes" /\ VoteNext /\ InSlashing
  \/ service = "proposals" /\ ProposalNext /\ InSlashing
  \/ service = "backfill" /\ BackfillNext /\ InBackfillSync

\* Requests and the processing of blocks end, and new peers keep connecting.
UnknownBlockFairness ==
  /\ WF_unknownBlockVars(service = "unknownBlocks" /\ PeerConnected)
  /\ WF_unknownBlockVars(service = "unknownBlocks" /\ \E root \in Root : FetchEnds(root))
  /\ WF_unknownBlockVars(service = "unknownBlocks" /\ \E root \in Root : ProcessEnds(root))

\* Timers fire, workers start or fail to, and answer or fail.
BlsFairness ==
  /\ WF_blsVars(service = "bls" /\ RunJob)
  /\ WF_blsVars(service = "bls" /\ RunBufferedJobs)
  /\ \A w \in 1..Workers :
       /\ WF_blsVars(service = "bls" /\ WorkerInit(w))
       /\ WF_blsVars(service = "bls" /\ PackageEnds(w))

\* The loop goes on, peers keep connecting, a request ends, and one that is
\* asked again and again answers at some time.
BackfillFairness ==
  /\ WF_backfillVars(service = "backfill" /\ Loop)
  /\ WF_backfillVars(service = "backfill" /\ AddPeer)
  /\ WF_backfillVars(service = "backfill" /\ (RequestFails \/ HonestAnswer))
  /\ SF_backfillVars(service = "backfill" /\ RequestBlocks)
  /\ SF_backfillVars(service = "backfill" /\ HonestAnswer)

Spec ==
  Init /\ [][Next]_vars /\ UnknownBlockFairness /\ BlsFairness /\ BackfillFairness

=============================================================================
