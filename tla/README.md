# A verification development of Lodestar, a consensus client for Ethereum

The repository is a TypeScript monorepo: the beacon node (`packages/lodestar`), the
libraries it is built from (fork choice, state transition, database, types), a
validator client, a command line and a light client. This directory models its
concurrent and stateful parts in TLA+, checks them with TLC on small instances, and
proves the most important results with TLAPS for every value of the constants.

## 1. The system

JavaScript runs one callback at a time. Concurrency comes from `await`, timers, events
and worker threads: between two awaits a handler is atomic, at an await everything else
may run. Every module here follows that rule: an action is the code between two awaits.

| part | state it keeps | operations | talks to | what is hard |
|---|---|---|---|---|
| light client (`light-client/src`) | committees by period, participation by period, head, status | start, stop, run loop, SSE events | light client routes of a beacon node | retries after a partial sync, two loops, untrusted servers, pruned maps |
| light client server (`chain/lightClient`) | known dependent roots, data of recent heads, cached finalized headers, latest head; four tables of the database | block import (two unawaited tasks), API routes, pruning | block import, archiver, database | tasks of several blocks interleave, failures, restarts, pruning of what is still referenced |
| archiver (`chain/archiver`) | a queue of finalized checkpoints | on finalization: move blocks, prune light client data, states, fork choice | fork choice, database, caches | a job works on the fork choice of its own time, one of several steps fails |
| block processor, import (`chain/blocks`) | a queue of segments | verify, import | regen, fork choice, caches, emitter | order of side effects of an import, awaits in between |
| BLS verifier (`chain/bls`) | queue of jobs, buffered jobs, workers | verify, retry single sets | worker threads | worker errors, buffering timer, termination |
| regen and caches (`chain/regen`, `chain/stateCache`) | LRU maps of states | get by block, slot, checkpoint | database, fork choice | queue limit, states pruned while needed |
| reprocess (`chain/reprocess.ts`) | promises by slot and root | wait, resolve, expire | gossip validation, import | bounds, resolve against expiry |
| operation pools, seen caches, validation | maps by slot, epoch, root | insert, aggregate, prune | gossip, import, API | check before an await and add after it |
| fork choice (`fork-choice/src`) | proto array, votes, checkpoints, queued attestations | onBlock, onAttestation, updateHead, prune | import, archiver | indices after pruning, vote deltas, best descendant |
| range sync (`sync/range`) | chains of batches, peers | add and remove peers, request, process, retry | reqresp, block processor | status machine of batches, restarts, late answers |
| backfill, unknown block, sync façade (`sync`) | backfilled ranges, pending blocks | steps backwards, ancestor search | reqresp, database | restarts, bounded sets, peers that come and go |
| network (`network`) | peers, scores, subscriptions, rate limits | heartbeat, handshake, subscribe, respond | libp2p | timers, disconnects in the middle of a protocol |
| eth1 (`eth1`) | deposits, eth1 data, merge block | poll, search | an eth1 node | one search at a time, reorganisations |
| validator client (`validator/src`) | duties, slashing protection records | duties by epoch, sign | beacon node API | double votes, surround votes, stale duties |
| state transition, types, API tables, command line | - | pure functions, declarations, I/O | - | - |

Section 7 says which of them are not modelled and why.

## 2. Properties that make the parts correct

* Light client: every committee it keeps is linked to the snapshot by signatures; the
  cache never rolls back; a client that syncs while the committee of its head is cached
  catches up with an honest node, and a client that runs stays synced; a header with too
  little participation is refused.
* Light client server: what a stored update or witness refers to is stored, unless a call
  failed; an update that is served carries the committee that follows; the best update of a
  period only improves, and pruning takes nothing that can still become a checkpoint (the
  last two are promised by comments and do not hold, see the findings).
* Range sync: a block is processed once and in order; batches form a contiguous window;
  the target is reached while a peer serves it; a chain that is removed stops.
* Job queue and BLS pool: no wake-up is lost, so a job never waits beside a free slot or
  worker; every promise of the pool is answered, and answered for its own signatures.
* Fork choice: the head is the one of the LMD-GHOST rule, computed from the latest
  messages; weights and links stay exact although only differences are applied; pruning
  keeps what its callers need.
* Unknown block sync: a block is processed after its parent; every pending block is
  imported or given up.
* Backfill: a recorded range is complete, whatever crashed or failed; the sync reaches
  genesis, or gives up on a conflict. Both hold until an answer by root is another block.
* Slashing protection: no two votes of a target and no two blocks of a slot are signed,
  whatever was imported or cut by a crash; no vote surrounds another one that is in the
  span tables.

## 3. Modules and the code they model

| module | code | extends |
|---|---|---|
| `InsertionMap` | a JavaScript `Map` (insertion order, a key that is set again keeps its place) and `pruneSetToMax` | - |
| `Lightclient` | `packages/light-client/src/index.ts` and the clock and validation functions it calls | `InsertionMap` |
| `NonCheckpointBlocks` | `getNonCheckpointBlocks` of `chain/archiver/archiveBlocks.ts` | - |
| `BlockTree` | the part of the proto array the archiver reads; epochs and periods of blocks | `NonCheckpointBlocks` |
| `LightClientServer` | `chain/lightClient/index.ts`, the hook of `importBlock`, the archiver's queue and the steps of it that touch light client data or the fork choice | `BlockTree`, `InsertionMap` |
| `Selection` | what is left of an array or `Map` when elements are filtered out or deleted | - |
| `SyncChain` | `sync/range/chain.ts`, `batch.ts`, `range.ts`, `utils/`, `util/itTrigger.ts`, `processChainSegment` by its outcome | `Selection` |
| `InOrderImport` | abstract: what a sync promises to the chain; `SyncChain` implements it | - |
| `ProtoArray` | `fork-choice/src/protoArray`: the array of nodes, scores, best links, pruning | - |
| `ForkChoice` | `fork-choice/src/forkChoice/forkChoice.ts`, the calls that `importBlock`, the clock, gossip and the archiver make to it | `ProtoArray` |
| `LmdGhost` | abstract: the head that the rule picks from the latest messages; `ForkChoice` implements it | - |
| `UnknownBlockSync` | `sync/unknownBlock.ts`, `sync/utils/pendingBlocksTree.ts` | `Selection` |
| `BackfillSync` | `sync/backfill`, the archiver's steps that touch the same tables, the start from a stored or given state | `NonCheckpointBlocks` (epochs) |
| `BlsPool` | `chain/bls/multithread`, `chain/bls/maybeBatch.ts` | `Selection` |
| `JobItemQueue` | `util/queue/itemQueue.ts` | - |
| `SlashingProtection` | `validator/src/slashingProtection`: attestations, blocks, min-max-surround | - |
| `LightclientProofs`, `LightClientServerProofs`, `SyncChainProofs`, `UnknownBlockSyncProofs`, `BackfillSyncProofs`, `QueueProofs` (`JobItemQueue` and `BlsPool`), `SlashingProtectionProofs` | lemmas and theorems | the module they are about |
| `RecursionProofs` | induction over the natural numbers, what `Selection` returns | `Selection` |
| `MC...` | block trees, sets of updates, reference definitions | the module they instantiate |

`ForkChoice` composes the fork choice with its callers, `LightClientServer` the light
client server with import, archiver and restart, `BackfillSync` the backfill with the
archiver that writes the same tables. `MCServices` puts six services that share no state
next to each other: a behaviour chooses one and runs it alone. Since no action of one
reads or writes a variable of another, and every property speaks of the variables of one
service, this shows the same as running them all at once.

Definitions whose comment begins with "Variation" are not part of a
specification: they are plausible mistakes, and `PROJECT.json` says which property
rejects each of them.

### Lightclient

State: `syncCommitteeByPeriod` and `maxParticipationByPeriod` (the two pruned maps, as
sequences in insertion order), `head`, `status`, the wall clock `currentSlot`, and
`loop`, the place where each run of `runLoop` awaits, with its locals (the periods it
still asks for, the epoch it fell asleep in).  There may be several loops: `start()`
does not ask whether one runs, and `stop()` aborts the sleep of a loop, not a request it
awaits.

| action | code |
|---|---|
| `Start`, `Stop` | `start`, `stop` with its abort |
| `SyncReply`, `SyncRequestFails` | the `getCommitteeUpdates` of one chunk returns or rejects |
| `AcceptUpdate`, `RejectUpdate` | one round of the loop over the answer: `processSyncCommitteeUpdate` stores or throws |
| `NextChunk`, `LastChunkDone`, `Retry` | the loop over chunks, its end (status, first head) and the timer after an error |
| `HeadReply`, `HeadRequestFails` | `getHeadUpdate` at the end of a sync |
| `OnSSE` | `processHeaderUpdate` from the event stream |
| `Wake` | the timer of the loop at the next epoch; also the lookahead |
| `Tick` | the clock |

`Stop` may happen between any two awaits, in any slot: the code asks for nothing but the
status. A signature is the committee that made it, a branch is whether it is valid. What a
server may send is a constant, so the proofs hold for every set of updates.
`RollsBack` is `FALSE` because `Math.min(-Infinity, ...keys)` is `-Infinity`: the guard
of the code against old periods never fires. `ConsecutivePeriods` and `NoRollback` show
that nothing depends on it.

### LightClientServer

An imported block runs two tasks that nobody awaits. `aggregate[b]` and `persist[b]` say
which database call each one awaits; every call is an action, and every call may fail.
Failing calls and restarts are drawn from one bounded budget (`MaxFaults`, for each block
of `Anchors` that the node may start from); `lostCommittees` remembers, for the properties,
what a failed or cut call was storing.
`ImportBlock` is the synchronous part: fork choice, finalization, `latestHeadUpdate`, and
the first stretch of both tasks. The archiver takes one finalized checkpoint after the
other (`jobs`), computes what to prune from the fork choice of that moment, deletes from
two tables at the same time and prunes the fork choice at the end. `Restart` may come at
any point: memory and tasks are gone, the database stays, the node starts from the last
archived state. Blocks are a constant tree; `BlockTree` gives ancestors, checkpoints and
the order in which the proto array returns them.

### SyncChain

State: the fields of the chain, its peers in map order, its batches in map order with
their statuses, attempts and blocks, the downloads that are awaited, and the `ItTrigger`
with the state of the `for await` loop over it. `imported` is what the fork choice has.

| action | code |
|---|---|
| `AddPeer`, `RemovePeer` | of `RangeSync` and of the chain, a repeated status of a known peer included |
| `Update` | `update` of `RangeSync`, called for another chain |
| `DownloadSucceeds`, `DownloadFails` | `sendBatch` after its await |
| `Iterate` | one round of the loop of `sync()` up to its await |
| `Processed`, `ProcessingFails` | `processBatch` after its await, with `advanceChain`, reports, retries, and the next `next()` |

Every handler ends with the calls of `triggerBatchDownloader` and `triggerBatchProcessor`
that the code makes; `requestBatches` shuffles its peers, which is a choice over all
orders. `processChainSegment` is its outcome: known blocks are skipped, a segment that
is not linear, a first block without parent, or a wrong signature stops it there with
the blocks before imported, and so may the execution engine at any block. So may the node
itself (`LocalFailures`): the queue of the processor refuses or drops the segment, a state
is missing, the BLS pool rejects, or an import throws, before or after the fork choice has
the block, so what is imported and what the error counts as imported differ. `batch.ts`
counts all of these as attempts of the batch; an attempt keeps, for the properties, whether
the failure was one of the node (`here`).

Abstractions: of the attempts that failed because of the execution engine only the number
is kept (nothing else is read); the microtasks between the end of the loop's iterator and
the `catch` are one step with it; there is one finalized chain, so the priority of
finalized over head chains, `stopSyncing` and `close` are left out.

### ProtoArray, ForkChoice and LmdGhost

`ProtoArray` holds operators from an array to the changed array: `AddNode`,
`ApplyScoreChanges`, `MaybeUpdateBestChildAndDescendant`, `MaybePrune`, `FindHead`. State of
`ForkChoice`: the array, the store (slot and three checkpoints), the votes with the root
that is in the weights and the latest one, queued attestations, the two cached balances,
the flag `synced`, the cached head and the proposer boost, and the finalized checkpoints
that the archiver has yet to process.

| action | code |
|---|---|
| `ImportBlock` | `importBlock`: `onBlock`, the attestations of the block, `updateHead` |
| `ImportBlockThrows` | `onBlock` throws after it set the finalized checkpoint |
| `OnAttestation` | `onAttestation` from gossip, queued or applied |
| `UpdateTime` | the clock: queued attestations, boost, best justified checkpoint |
| `Prune` | the last step of an archiver job, any time later |

`LmdGhost` knows nothing of arrays: `HeadIsGhost` says that whenever the head changes it is
the one the rule computes from the blocks, the latest messages, both checkpoints and the
boost. Left out: execution status and merge block, the cache of validated attestation
data, an anchor other than genesis, and the queries of the class that change nothing.

### UnknownBlockSync

A pending block is an object that the map and several awaiting handlers share; `pending`
keeps the objects in the map and those only a handler holds, with the number of handlers
that await. `OnUnknownBlock`, `PeerConnected`, `PeersLost`, `ImportElsewhere` are events;
`FetchSucceeds`, `FetchFails`, `ProcessSucceeds`, `ProcessRefused`, `ProcessEngineError` and
`ProcessFails` are the two handlers after their awaits, each with every search and
processing it starts.

### BackfillSync

State: the archive (at most one block of a slot), `backfilledRanges`, the last stored state,
the backfill object with the place of its loop, and the place of
`processFinalizedCheckpoint`. Every database write that a crash can separate from the next
one is a step.

| action | code |
|---|---|
| `Iterate`, `WriteRange`, `Jump`, `Cleanup`, `FastBackfillDb` | a round of `sync()`: checks, range, jump over ranges, deletion of old ranges, walk over the archive |
| `NoPeer`, `RequestBlocks`, `AddPeer`, `RequestFails`, `SyncBlockByRoot`, `SyncRange` | the network part of the round and its answers |
| `MigrateBlocks`, `MigrateFails`, `MaybeArchiveState`, `UpdateBackfillRange`, `ClearForwardRanges` | `processFinalizedCheckpoint` |
| `Restart` | a crash, or a stop that stores the finalized state, and a start from the stored or a given state |

An answer by root may be any block, `SyncBlockByRoot(b)`: the code checks its signature and
neither its root nor its slot, and takes it for the block of the root it asked for, so the
loop keeps the block and the root apart (`lastBackSynced`, `lastRoot`). `getByRoot` looks a
slot up in `rootIndex` and reads what is at that slot (`AtRoot`). Bound: `MaxOtherBlocks`
such answers; `Misled` says that there was one.

Abstractions: what a range answer holds besides the blocks that link is dropped by
`verifyBlockSequence`, so only how far it links counts; the set of peers is whether one is
found; the index from roots to slots is written with the block, although `batchPut` does
not await it. Assumptions on the environment: what a node finalizes is one chain, and a
given state never contradicts what it finalized at or after that slot; once the node is
`Misled` the archive does not tell any more what was finalized, so the model then allows
more finalizations and given states than the code meets.

### BlsPool, JobItemQueue, SlashingProtection

`BlsPool`: the queue of jobs, the buffer with its timer, the status of each worker with the
package it works on, and what became of each caller's promise. A signature set is good,
wrong or malformed; `Verify` says what one check of several sets returns or throws, and
`JobResult` follows the worker: batches first, then each job of a failed batch alone. A job
carries the index of its promise among those of its request (`part`), and an answer the
indices that are still `left`, as `Promise.all` keeps them.

`JobItemQueue`: list, running jobs, slots that yield, due timers. `Push`, `Timer`, `JobEnds`,
`JobEndsAndYields`, `Yielded`, `Abort`, `DropAllJobs` are the whole class.

`SlashingProtection`: attestations by target, both span tables, the lower bound, blocks by
slot, and what was signed. Votes and blocks share no table and are two services.
`CrashInInsert` stops between the three writes of a vote; `ImportAttestations` may throw
after some. `torn`, `leftOut`, `minSpanVotes` and `maxSpanVotes` remember what a crash cut,
what an import that threw did not enter, and what each table was updated with. The tables
have no `maxEpochLookback`: the only constructor call passes none
(`slashingProtection/index.ts:40`). Calls for one key are sequential, which the comment
"should *only* be called in the same (exclusive) transaction" asks of the caller and nothing
enforces.

## 4. Runs

All runs finish within two minutes or so. Passing runs fire every action between them.

| run | instance | checks |
|---|---|---|
| `lightclient_adversary` | two loops, periods of two slots, clock up to 5, a server that fails or sends any of nine updates and six headers | `TypeOK`, `ConsecutivePeriods`, `NoRollback`, `AnchoredTrust`, `HeadTrusted`, `SleepersTracked`, `HeadKeepsHalf` |
| `lightclient_honest` | two loops, clock up to 9 (five periods), an honest server, syncs of a single request, `stop()` between any two awaits | `CatchesUp`, `StaysSynced` |
| `lightclient_retry` | one loop, two periods per request | violation of `CatchesUp` |
| `server_tasks` | three trees, two imports at a time, epochs of three slots, periods of four epochs: from `g` eight blocks on two branches over the border of a period, the later ones finalize a block of the new period; from `h` a border with two faults; from `i` a finalization with one | `TypeOK`, `FinalizedBestHasWitness`, `OtherDataKept`, `WitnessHasCommittee`, `ServesNextCommittee` |
| `server_lost_update` | the first of these trees | violation of `BestImproves` |
| `server_skipped_slot` | a chain of six blocks with the first slot of an epoch skipped | violation of `CheckpointDataKept` |
| `rangesync` | an honest and a faulty peer, batches of one epoch of two slots, blocks in slots 0, 1, 3, 4, targets 2 and 4, buffer 1, one retry of processing and none of a download, failures of the engine and of the node | `TypeOK`, `StatusesFit`, `ContiguousWindow`, `SyncedIsImported`, `FaultyPeerOnRecord`, `NeverStuck`, and the refinement `ImportsInOrder` |
| `rangesync_reported` | one target, one retry of each kind, no failures of engine or node | violation of `OnlyFaultyReported` |
| `forkchoice` | ten blocks on four branches, three validators, slots 6 to 11, epochs of two slots, blocks timely or late, votes in blocks and from gossip | `TypeOK`, `WeightsAreVotes`, `RootsAreKnown`, and the refinement `HeadIsGhost` |
| `forkchoice_balances` | the same; one validator has less in the later justified state | violation of `WeightsAreVotes` |
| `services`: checkpoints | every chain of blocks in twelve slots, epochs of three slots | `OnlyNonCheckpoints`, `NothingElseKept`, `ReturnedForGood` |
| `services`: unknown blocks | five blocks, one invalid, two kept at a time, two events, one error | `ParentsComeFirst`, `EventuallyDrained` |
| `services`: BLS | three callers with one, one and four sets, two workers, two sets per job, one buffered, one worker error | `AnswersAreRight`, `AnswersArrive` |
| `services`: queue | four items, length two, two slots, both types | `NoLostWakeup` |
| `services`: votes, proposals | epochs 0 to 4, slots 0 to 2, a crash, two interchange files | `NothingSlashableSigned`, `SpansExact` |
| `services`: backfill | five blocks in slots 0 to 5 on two branches, any of three given states, batches of two, one restart, one answer by root with another block | `ClaimsAreStored`, `BackfillEnds` |
| `backfill_by_root` | the same | violation of `RangesAreComplete` |

Why the bounds are enough:

* Light client: the cache holds two periods and the participation map three, so five slots
  of two-slot periods evict from both; the adversarial set has one update of each kind
  (forged signer, broken branch, fork, finalized header of another period, old period,
  little participation). Two loops are what `stop` and `start` during a request create; a
  third would add no new kind of overlap.
* Server: the tree from `g` has two blocks that are first in a period after different
  blocks, so different next committees; `c3` and `c4` finalize one of them, `c2`, which
  prunes the other branch and the block below; `c4` and `c5` carry aggregates for states
  that finalize it while the archiver deletes, so its header is read from the table or from
  memory; `c5` finalizes it again as the checkpoint of the next epoch, a second job for the
  archiver. Faults multiply states, so they have smaller trees: two at the border of a
  period from `h`, where committees are stored, and one around finalization and pruning from
  `i`. Two imports at a time are the least with a race. `MAX_PREV_HEAD_DATA` keeps its value
  of 32, which no instance reaches.
* Range sync: two batches are the least with a batch that validates another one; slot 2 is
  empty so that a batch ends without a block, slot 4 is the first slot of a third epoch and
  belongs to the second batch. A buffer of 1 lets two batches download at the same time and
  stops a third. A limit of 1 for processing reaches both the retry and its exhaustion.
  Downloads have none in `rangesync`, where a failed one ends the chain, because failures of
  the engine and of the node and two targets multiply the states; `rangesync_reported`
  retries downloads, and the proofs hold for every limit. Target 2 needs one batch and
  target 4 two.

* Fork choice: four branches, of which two justify the same epoch and one finalizes, are
  the least in which the better justified checkpoint waits for an epoch, a branch becomes
  non-viable with votes on it, and pruning drops a voted branch; three validators let the
  majority and the boost disagree.
* Unknown blocks: a chain of three above the anchor needs two fetches before anything is
  processed; two in the map make the prune drop a block that is being fetched.
* BLS: four sets of one caller are two jobs; a malformed and a wrong one share packages
  with good ones; two workers are the least with an idle one while the other fails.
* Queue: more items than length plus slots, so that lists fill and drop in both types.
* Slashing: spans of length one to four; epoch 4 is reached from every source, so both
  loops over spans stop early and late.
* Backfill: a batch of two is shorter than the chain, slot 2 is empty, the fork lets a
  given state and the archive conflict. The properties also hold with two restarts.

`CHECK_DEADLOCK FALSE` is set everywhere because every instance may really stop: the clock
reaches its bound, all blocks are imported, a chain that ended stays ended.

Fairness. The light client assumes that the clock goes on (`SF(Tick)`, strong because a loop
that retries disables it within a slot again and again), that a loop which can step does
(`WF(RunLoop)`: promises and timers of the event loop are always served), and that a request
repeated for ever is answered at some point (`SF(SyncReply)`). `Timely` is an assumption on
the environment, not on scheduling: a request is answered within its slot; `StaysSynced`
speaks of a client whose clock does not outrun it. Nothing obliges anybody to call `start`,
`stop` or to send a header. `CatchesUp` speaks of a client that syncs while the committee of
its head's period is cached; without it every sync throws. The server has no fairness: all
it promises here is safety. Range sync has no fairness: `NeverStuck` (proved, section 5) is
the safety form of its progress, no wakeup is lost while a peer is there, and attempts are
bounded by `TypeOK`. Unknown block sync: requests and processing end (they have timeouts),
and peers connect again and again, which is the only thing that restarts a search. BLS pool:
timers fire, workers start or fail to and answer or fail; nobody is obliged to ask.
Backfill: the loop runs on once it is triggered, peers connect again and again, a request
ends, and among requests repeated for ever some find a peer and are answered (`SF`);
restarts and finalizations are bounded or optional.

### Findings

1. `lightclient_retry`: a sync of several requests that fails after the first one evicts
   the committee of the period it restarts from; every retry then throws.
2. `server_skipped_slot`: `getNonCheckpointBlocks` gets its array in the order opposite to
   the one it documents; the checkpoint of an epoch whose first slot is empty loses its data.
3. `server_lost_update`: the best update is read, compared and overwritten with awaits in
   between; a worse one may win.
4. `rangesync_reported`: a batch is validated by blocks an earlier attempt imported, and
   the peer of that earlier, right attempt is reported.
5. `forkchoice_balances`: `updateHead` passes the same balances as old and new ones to
   `computeDeltas`; votes that do not move keep the weight of an earlier justified state.
6. `backfill_by_root`: `syncBlockByRoot` checks neither the root nor the slot of the block a
   peer answers with (`unknownBlock.ts:249-254` checks the root); the range that is recorded
   then claims blocks that nobody stored, and the sync goes on below the wrong block.

Known deviations that have no run of their own:

* A witness may be stored before the committee it refers to, against "Ensure referenced
  syncCommittee are persisted before persisting this one" (`lightClient/index.ts:367`): a
  dependent root counts as known before its committee is stored, and imports overlap. When that store then fails, nobody tries again in that run and the witness stays without
  its committee; when a restart cuts it, until a block of that period is imported again.
  `WitnessHasCommittee` says that there is no other way.
* `isBetterUpdate` takes an update with more bits that is not finalized in place of a
  finalized one, against "BEST = finalized + highest bit count + oldest"
  (`lightClient/index.ts:121` and 252-255). `BestImproves` follows `isBetterUpdate`.
* Pruning may delete the witness of an update that is not finalized and still the best of
  its period; the API then throws "finalizedBlockRoot not available". The same becomes of a
  finalized block outside the first slot of an epoch (finding 2), so `FinalizedBestHasWitness`
  and `OtherDataKept` speak of blocks in first slots and, `OtherDataKept`, of blocks that are
  not behind the finalized one.
* When the first slot of a period is skipped, the finalized block of an update can be of the
  period before, since the code compares the period of the checkpoint's epoch; the update
  then carries the committee of its own period. `ServesNextCommittee` exempts that case.
* `OnlyNonCheckpoints` excludes chains that skip a whole epoch; there a checkpoint is
  returned although it "must return only blocks that are guaranteed to never become
  checkpoints".
* The current committee is stored once in a run of the node; `maxParticipationByPeriod` is
  pruned by insertion order.
* With peers of different targets a target that moves because a peer joins or leaves wakes
  no loop: a chain that has processed all up to one announced target then waits for another
  event, whether its target is now that one or a further one. `NeverStuck` exempts it.
* A failure of the node itself (a missing state, a rejecting BLS pool, a full queue) counts
  as a failed attempt of the batch. Honest peers alone can then bring a chain to
  `MaxProcessingAttempts`, which reports all of them (`chain.ts:503-506` speaks of edge
  cases). `FaultyPeerOnRecord` allows it only when the last failure of a batch was of
  that kind.
* When a chain ends with `MaxProcessingAttempts` all its peers are reported, the ones with
  good batches too, and the one that held blocks back need not be among the failed attempts
  yet: it may only be the peer of a batch that awaits validation. That takes three peers and
  four batches, or no retries at all, so the run `rangesync` does not meet it; the proof
  found it. `FaultyPeerOnRecord` counts such a batch as a record.
* A chain that lost its last peer is only removed when something else calls `update`; a
  chain that was removed keeps the status `Syncing` and downloads until its buffer is full.
* Light client: in the last epoch of a period the lookahead stores the next committee and
  evicts the oldest, which is that of the head when no header of the period arrived yet. A
  client that is stopped then and started in a later period throws at every sync, as in
  finding 1. `CatchesUp` excludes a sync without the committee of its head.
* Light client: `stop()` does nothing while the client is syncing, so a client stopped then
  starts to track the head; the participation of a header is compared with the larger
  maximum of two periods but stored for one.
* Fork choice: an attestation that arrives a slot early counts within its own slot
  (`slot <= currentSlot` in `processAttestationQueue`, against the comment at `onAttestation`).
  `findHead` throws when a non-viable child took over as best child, and the old head is
  kept. Viability is asked of inner blocks too. A block that finalizes more but justifies no
  more makes `onBlock` throw after the finalized checkpoint is set (`ImportBlockThrows`).
* Unknown blocks: a block may be processed twice, against "prevents duplicate processing";
  the import ignores known blocks. An ancestor search that passes the anchor walks on
  below it and ends in giving up good blocks. `knownBadBlocks` is never read.
* BLS: buffered jobs at an abort, and jobs queued before every worker failed to start,
  never settle; `AnswersArrive` excludes them. A set that cannot be deserialized rejects the
  whole package.
* Queue: a job that a LIFO queue drops, and those of `dropAllJobs`, never settle.
* Slashing: after a crash between the writes of a vote that vote counts as SAME_DATA while
  one or both span tables do not know it, and an import that throws leaves the rest of the
  file out of them, after its votes were recorded, and sets no lower bound. A vote that
  surrounds, or is surrounded by, such a one is signed. `NothingSlashableSigned` allows
  exactly that; a second vote of a target or a second block of a slot is never signed. With
  a finite `maxEpochLookback`, which no caller sets, the walk of `updateMinSpan` would be cut
  and `SpansExact` would not hold.
* Backfill: genesis asked for by its root is fetched again for ever, since
  `syncBlockByRoot` returns without keeping it; `BackfillEnds` excludes it. A range whose end
  is not in the archive makes the cleanup delete every range above: work is lost, nothing
  else. After an error in the middle of a migration every later finalization of the same
  run looks for blocks that were moved, until the restart.
* `maybeArchiveState` compares the keys of the state archive, which are slots, with epochs
  when it looks for states to delete; not modelled.

## 5. Proofs

`LightclientProofs` proves, for every number of loops, every set of updates and headers and
every length of a period:

* `Invariance`: `Spec => []IInv` with `IInv == currentSlot \in Slot /\ StoreOK /\ LoopOK`;
* `TypeCorrect`, `CacheIsConsecutive`, `OnlyTrusted` (`AnchoredTrust`), `HeadIsTrusted`
  (`HeadTrusted`) and `SleepersAreTracked`, which follow from it;
* `PeriodsNeverRollBack`: `Spec => NoRollback`, an action property, from the same invariant.

Assumptions: `ConstantsAssumption` (types and positive sizes) and `TrustAssumption`, which
defines what trust means: `Trusted` is any set that holds the snapshot and is closed under
valid updates signed by a trusted committee. TLC evaluates both in every run, with the
least such set.

The argument. None of the properties is inductive. That the map is pruned by insertion
order is harmless only because the cache is a run of consecutive periods: an accepted
update belongs to a cached period, so it either replaces the newest entry or appends its
successor, and the entry pruned is the oldest. If the cache held periods in another
order, an update could evict the newest one and `NoRollback` would fail. And that the head
is trusted needs that its committee was trusted when it was looked up. So `StoreOK` joins
types, `ConsecutivePeriods`, `AnchoredTrust` and `HeadTrusted`; `LoopOK` joins the types of the
loops with `SleepersTracked`, since the steps that put a loop to sleep rely on the status.
The first part of the module holds the facts on maps of one, two and three entries
(`AppendToOne`, `AppendToTwo`, `ReplaceSecond`, `PruneTwo`, `PruneThree`, `SetSuccessor`); each
lemma `...OK` then shows that one operation keeps `StoreOK` or `LoopOK`, and `NextIInv` has one
step per action.

The last part of `LightclientProofs` proves `HeadsKeepHalf`: `Spec => HeadKeepsHalf`, the action property
that inside a period a head is only replaced by one with at least half of its
participation. The code compares with the larger maximum of two periods and prunes the
maxima by insertion order, so the property needs that the maximum the head was measured
by is still on record: `HeadStaysRecorded`. A server chooses the order in which periods are
inserted, as far as the cache lets it. `CacheFollowsHead` bounds that: no cached period is
more than one below the head's, so what is inserted after a period is at most one period
older (`KeysInOrder`), and three entries in such an order cannot lose the head's. The three
are `HeadInv`, inductive together with `IInv`.

`QueueProofs` proves `WakeupsAreKept`: `QueueSpec => []NoLostWakeup`, for every set of
items, every length and every concurrency, zero included, and both types. `NoLostWakeup`
counts due timers against waiting jobs and free slots. It is not inductive:
that a start fills a slot holds only if the item is not running already, and then only
because cardinalities of finite sets add up. So `QueueIInv` joins `QueueTypeOK`,
`IsFiniteSet(running)`, `NoLostWakeup` and `OnePlace`: an item is in the list once or runs,
and was pushed before. `TailFacts`, `FrontFacts`, `MakeRoomFacts` say what is left of a list,
`StartFacts` what `runJob` does to list and slots; `PushKeeps`, `StartKeeps`, `JobEndKeeps` and
`EmptyKeeps` take one handler each.

`SlashingProtectionProofs` proves, for every set of votes, proposals and roots, every
`MaxEpoch` and any number of crashes:

* `SlashingInvariance`: `SlashingSpec => []SlashingIInv`;
* `SpansAreExact` (`SpansExact`): the tables that two loops write, each of which stops at
  the first entry that is already better, are what the votes entered into them define, also
  after crashes and imports that throw; and those are all votes but for what a crash cut or
  such an import left out;
* `NothingSlashable` (`NothingSlashableSigned`): no two votes of a target, no two blocks of a
  slot, without exception; surrounding votes only where a span table misses one.

It assumes of an interchange file that no source is later than its target
(`SlashingAssumption`): the file lists signed attestations, and no node accepts one that is
not so; with one, the code would store a distance of zero or less. That a loop may stop
early is sound only if the table is exact, since then all entries further on are better too:
so `SpansExact` is a part of its own invariant (`SpansKept`). It speaks of two sets of
votes, `minSpanVotes` and `maxSpanVotes`, because a crash between the writes leaves a vote
in one of them only. For `NothingSlashableSigned`, `CheckFindsSurrounded` and
`CheckFindsSurrounding` show that one look at one epoch of a table finds every vote in it
that is surrounded or surrounds, and `VotesRecorded` and `BlocksRecorded` keep one record
for the target of every vote and the slot of every block (`OneOfTarget`). A record that a
crash cut is signed later without any look at the spans: `TornChecked` keeps, from the
moment of the crash, that no vote in the max span table surrounds one that the min span
table got.

`LightClientServerProofs` proves two properties, with any number of imports at a time,
failing database calls, restarts and pruning at any point:

* `WitnessesHaveCommittee`: `NoPeriodSkipped` (no block that skips a whole period) implies
  `Spec => []WitnessHasCommittee`. The invariant relates five things that change at
  different times: the blocks in the fork choice (`NodesHaveCommittee`, unless nothing was
  imported yet, `HasOneBlock`), the dependent roots that count as known
  (`KnownHaveCommittee`), the tasks that are about to write (`WrittenHaveCommittee`), the
  stored and lost committees, and the witnesses. `ImportIInv` bounds what tasks can be at.
* `UpdatesCarryNextCommittee`: `Spec => []ServesNextCommittee`, without a hypothesis on the
  tree. The invariant, `UpdateIInv`, says that an update is stored as finalized, or its
  header read, only for a block that `IsFinalized`, and in the period of its attested block.
  That blocks of one chain and one period have one next committee is
  `PeriodHasOneCommittee`, by `ChainInduction` along the parents. It needs `PathSteps`: that
  the recursive `PathOf` is well defined because parents come before their children.

They rest on two assumptions that say of the constant tree what the state transition does:
`SyncCommitteeAssumption`, that the next committee is drawn once for a period, from the
branch, and `FinalityAssumption`, that a state finalizes a block of its own chain.

`SyncChainProofs` proves, for any set of peers, any honest ones among them, any chain of
blocks, any targets, buffer size and limits:

* `SyncInvariance`: `Spec => []SyncIInv`;
* `WindowIsContiguous` (`ContiguousWindow`), `StatusesInOrder` (`StatusesFit`) and
  `SyncChainTypes` (`TypeOK`, the limits of attempts included);
* `ImportsAreInOrder`: `Spec => ImportsInOrder`, the refinement of `InOrderImport`;
* `SyncedIsComplete` (`SyncedIsImported`) and `FaultyPeersAreOnRecord` (`FaultyPeerOnRecord`),
  and what follows if all peers are honest, `HonestPeersSync`: a chain ends with
  `MaxProcessingAttempts` only if the last failure of a batch was one of the node itself
  (`FailedHere`), and one that is synced has every block up to its target;
* `ChainStaysAwake`: `Spec => []NeverStuck`, whatever targets peers announce.

None of these is inductive. That an answer always finds its batch (`StatusesFit`) needs that
every awaited download belongs to a batch that downloads (`Match`), and that a batch is
only dropped when it awaits nothing, which needs the order of the statuses, which needs
that only the batch the loop awaits is in process (`Runs`). That `advanceChain` leaves a
window needs that the batches before the one in process are exactly those of earlier
epochs, which is the window itself (`Fits`). The limits (`Bounded`) need to know that a batch
at its last attempt ended the loop, or has no download left. `Control` ties the loop, its
error, the status and `RangeSync` together. For the refinement `ImportedInOrder` is added:
what is imported is a prefix of the chain that reaches the start of the sync chain.
`SegmentKeepsOrder` carries it: a segment that imports anything begins at a block whose
parent is known, or at a known block, and is linear; and a batch of blocks that is processed
without error, or any imported block, shows that everything before the batch is imported.
`AdvancedFits` then moves the start.

The last three rest on `BlameInv`, which needs no history of the answers: the batches tell
enough. The blocks of an honest peer are all blocks of the slots of its batch, and once the
batch was processed they are imported (`HonestBatches`); a chain that gave up a batch still
has a batch that shows a peer that is not honest, or one whose last failure was the node's
own (`Blamed`); a block that a synced chain lacks is in the slots of such a batch (`Lacks`).
The heart is `HonestBlamesEarlier`: a good batch fails, for a reason that is not the node's,
only when the parent of its first block is missing; what is missing lies after the start of
the chain and before the batch (`ImportedInOrder`, `SlotInWindow`), so in an earlier batch
of the window, which was processed, so its peer is not honest. That batch is still there
afterwards (`LeftBlame`): nothing was imported, so the chain does not advance over it, and
when it fails with the other one its peer is recorded (`FailedKeeps`). `CarriesKeeps` says
that the downloader touches none of this.

`NeverStuck` rests on `AwakeInv`, of a chain that syncs. A batch that downloads awaits an
answer, unless an error that ends the loop is on record (`Asked`); every batch lies below an
announced target (`Wanted`), and the target is an announced one; a loop that waits found
nothing to process and was not done for the target of that time (`IsIdle`); and, with a
peer, after every handler either something downloads, or all batches are requested and the
buffer is full or an announced target reached (`IsServed`). So a chain that waits for
nothing has its first batch downloaded or failed, which the loop would have taken.
`RequestedServes` shows that `requestBatches` gets there from any batches, and each handler
ends with it or leaves what it found: that is the code's habit of calling
`triggerBatchDownloader` last. A peer that joins or leaves changes the target without waking
the loop, which is the exception of `NeverStuck`.

`UnknownBlockSyncProofs` proves `ParentsAreImported`: `UnknownBlockSpec => []ParentsComeFirst`, for
every tree of blocks and every limit, loops and unknown roots in it included. The property
is inductive together with the types once it is stated of objects and not of the map
(`Ready`): an object that was pruned, given up or added a second time keeps its handler. A
handler that processes a block never asks again whether its parent is there, so the proof
needs that the fork choice forgets nothing while it waits (`MoreImported`). In the code a
finalization prunes it, but keeps every block that descends from the finalized one; the
model has no finalization (section 3).

`QueueProofs` also proves `AnswersStayRight`: `BlsSpec => []AnswersAreRight`, for any number of
workers and any sizes of jobs, buffer and batches. It is not inductive: that a last part
which verifies makes the request valid needs that all other parts did before. So
`AnswerFits` says of an unfinished answer that every part of the request which is no longer
left held good sets only, and `JobsAreOwn` that every job, whether it is buffered, queued or
with a worker, holds the sets of the part it answers for. `JobResultIsRight` is the argument
for batches: a batch that verifies vouches for each job in it, and one that does not decides
nothing. `ChunksCover` shows, by division, that the chunks of an array are some of it each,
never empty, and together all of it, so that no set of a request goes unverified.

`BackfillSyncProofs` proves, for every tree of blocks, every size of batches and any number
of restarts, interleaved with the archiver in every way:

* `BackfillStays`: `BackfillSpec => [](Misled \/ (BackfillInv /\ Aligned))`, the inductive
  invariant;
* `ClaimsHold`: `BackfillSpec => []ClaimsAreStored`: ranges are complete until another block
  is taken for one asked for by its root, so the check that is missing there is the only
  one that is missing;
* `ArchiveGrows`: no step takes a block out of the archive, which keeps one block of a slot
  and whose writes replace it silently, but the step that takes another block and those
  after it.

`ClaimsAreStored` is far from inductive. A range is a pair of slots, and blocks are archived under
slots: a jump over a range takes the block at its lower end for one of the lineage, and a
write at a slot in use would replace what a range claims. So `BackfillInv` says more of each stretch
that is claimed (`RangesHold`), synced in this run (`Synced`) or finalized (`Finalized`): it holds
one lineage, and no block of another branch. A run of `sync()` writes blocks
below the last synced one; that they meet no block of another lineage needs that the next checkpoint to be met
is the first archived block below (`PrevFinalizedIsNext`), and `IterateStoresNothing` that a
round which jumps leaves the archive as it is. `Completed` is the claim at the
end of `sync()`. `BlockInduction`, `LineagesAgree` and `LineagesExist` give the recursive function
`Lineage` its values. The assumptions are `BackfillAssumption` (a tree whose blocks come after their
parents) and those on the environment that section 3 names, which `CanBeFinalized` and `Restart` state
as guards: without them blocks of two branches are finalized.

Two facts about recursion are proved by hand. `RecursionProofs` states induction over the
natural numbers for a set, from `LeastNatural` (the library's theorem takes an operator as a
parameter), which rests on the strict subsets of a finite set being well founded. And the
provers do not know that a recursive function has the values its definition says, because it
is a `CHOOSE`: `TakenSteps`, `IncludedSteps`, `QueuedSteps`, `PathSteps` and the lemmas on
insertion into the span tables build each function step by step.

Only model-checked:

* liveness (`CatchesUp`, `StaysSynced`, `EventuallyDrained`, `AnswersArrive`,
  `BackfillEnds`);
* of the light client server `FinalizedBestHasWitness` and `OtherDataKept`, which depend on
  what `NonCheckpointBlocks` keeps of the finalized chain, and `TypeOK`: that pruning
  deletes blocks only needs that the block the archiver works on is still a node, which
  rests on the finalized checkpoints of a branch being nodes of it;
* the fork choice, whose walks, weights and `LmdGhost` are recursive operators, and the
  checkpoints of `MCNonCheckpointBlocks`.

## 6. Plan

Done: everything in the table of section 3. Next, in this order:

1. Proofs: `TypeOK` and `OtherDataKept` of `LightClientServer`.
2. `Reprocess` and the state caches with `Regen`: promises that expire, states that are
   pruned while a replay needs them.
3. Operation pools and seen caches: checks before an await, additions after it.
4. Peers, subnets, rate limits; eth1 trackers; duties of the validator client.

## 7. Not modelled, and why

* State transition, SSZ, Merkle branches, BLS: pure functions over large data. Models take
  their outcome.
* API route tables, command line, metrics, configuration, database encoding: declarations
  and I/O without a protocol.
* gossipsub, libp2p, level: external libraries.
* `lib/` directories: the compiled form of the sources.
* Items 2 to 4 of section 6: planned; `PROJECT.json` lists each part with its status, and
  under `hazards` the places in the modelled code that tests hardly reach.
