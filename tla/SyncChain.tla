------------------------------ MODULE SyncChain -----------------------------
(***************************************************************************)
(* The finalized SyncChain of range sync: the batches it downloads from    *)
(* peers that come and go, the loop that processes them one at a time, and *)
(* the RangeSync that starts and removes it.  Handlers run between awaits: *)
(* a request that is answered, a segment that is processed, an iteration   *)
(* of the loop, a peer that joins or leaves.                               *)
(*                                                                         *)
(* One chain of blocks has valid signatures, so a block is its slot and    *)
(* whether it is valid.  A peer that is not honest may hold blocks back or *)
(* spoil them.  A target's root is the chain's last block up to its slot.  *)
(***************************************************************************)
EXTENDS Integers, FiniteSetsExt, SequencesExt, Selection

CONSTANTS
  SLOTS_PER_EPOCH, EPOCHS_PER_BATCH, BATCH_BUFFER_SIZE,
  MAX_BATCH_DOWNLOAD_ATTEMPTS, MAX_BATCH_PROCESSING_ATTEMPTS,
  Peer, Honest, NoPeer,
  Chain,          \* the slots that have a block
  Targets,        \* slots of the finalized checkpoints that peers announce
  initialEpoch,   \* the local finalized epoch when the chain is created
  EngineFails,    \* may the execution engine fail?
  LocalFails      \* may this node fail to verify or to import a block?

ASSUME SyncChainAssumption ==
  /\ SLOTS_PER_EPOCH \in Nat \ {0} /\ EPOCHS_PER_BATCH \in Nat \ {0}
  /\ BATCH_BUFFER_SIZE \in Nat
  /\ MAX_BATCH_DOWNLOAD_ATTEMPTS \in Nat
  /\ MAX_BATCH_PROCESSING_ATTEMPTS \in Nat
  /\ IsFiniteSet(Peer) /\ Honest \subseteq Peer /\ NoPeer \notin Peer
  /\ Chain \subseteq Nat /\ 0 \in Chain /\ Targets \subseteq Nat
  /\ \E last \in Chain : \A s \in Chain : s <= last
  /\ initialEpoch \in Nat
  /\ EngineFails \in BOOLEAN /\ LocalFails \in BOOLEAN

VARIABLES
  status,        \* SyncChainStatus
  startEpoch,
  target,
  peerset,       \* PeerMap<ChainTarget>: peer and target, in map order
  batches,       \* Map<Epoch, Batch>: the batches in the order they were set
  requests,      \* the downloads that are awaited
  loop,          \* the for await of sync()
  triggered, iterError,   \* ItTrigger
  inRangeSync,   \* is the chain one of RangeSync.chains?
  imported,      \* slots whose block the fork choice has
  reports        \* calls of reportPeer

vars == <<status, startEpoch, target, peerset, batches, requests, loop,
          triggered, iterError, inRangeSync, imported, reports>>

loopVars == <<loop, triggered, iterError, status, inRangeSync>>

-----------------------------------------------------------------------------
(* Blocks, batches and what a peer may answer.                             *)

StartSlot(epoch) == epoch * SLOTS_PER_EPOCH

\* Without the first slot of its first epoch, with that of the next batch.
SlotsOf(epoch) ==
  StartSlot(epoch) + 1 .. StartSlot(epoch) + EPOCHS_PER_BATCH * SLOTS_PER_EPOCH

Block(slot, valid) == [slot |-> slot, valid |-> valid]

Blocks(epoch) == {Block(s, TRUE) : s \in Chain \cap SlotsOf(epoch)}

Spoiled(blocks, slots) ==
  {Block(b.slot, b.valid /\ b.slot \notin slots) : b \in blocks}

\* An honest peer has the chain beyond its finalized checkpoint.
Answers(peer, epoch) ==
  IF peer \in Honest
  THEN {Blocks(epoch)}
  ELSE (SUBSET Blocks(epoch))
         \cup {Spoiled(Blocks(epoch), {b.slot}) : b \in Blocks(epoch)}

\* Whether this node failed is kept for the properties; the code keeps peer and
\* hash.
Attempt(batch, error) ==
  [peer |-> batch.peer, hash |-> batch.blocks, here |-> (error = "Local")]

NewBatch(epoch) ==
  [startEpoch |-> epoch, status |-> "AwaitingDownload", peer |-> NoPeer,
   blocks |-> {}, failedDownloadAttempts |-> <<>>,
   failedProcessingAttempts |-> <<>>, executionErrorAttempts |-> 0]

\* The batch can be requested again.  Of executionErrorAttempts only the number
\* is read.
Again(batch) ==
  [batch EXCEPT !.status = "AwaitingDownload", !.peer = NoPeer, !.blocks = {}]

FailedPeers(batch) ==
  ToSet(batch.failedDownloadAttempts)
    \cup {a.peer : a \in ToSet(batch.failedProcessingAttempts)}

WithStatus(bs, st) == Selection(bs, {i \in DOMAIN bs : bs[i].status \in st})

-----------------------------------------------------------------------------
(* The functions of utils.                                                 *)

\* [AwaitingValidation]* [Processing]? [AwaitingDownload, Downloading,
\* AwaitingProcessing]*
Stage(batch) ==
  CASE batch.status = "AwaitingValidation" -> 1
    [] batch.status = "Processing" -> 2
    [] OTHER -> 3

ValidStatuses(bs) ==
  \A i, j \in DOMAIN bs :
    i < j => /\ Stage(bs[i]) <= Stage(bs[j])
             /\ ~(Stage(bs[i]) = 2 /\ Stage(bs[j]) = 2)

\* Variation: any batch that was downloaded.
AnyDownloaded(bs) == {i \in DOMAIN bs : bs[i].status = "AwaitingProcessing"}

\* The indices of the next batch to process: none or one.
NextBatchToProcess(bs) ==
  {i \in DOMAIN bs :
     /\ bs[i].status = "AwaitingProcessing"
     /\ \A j \in 1..(i - 1) : bs[j].status = "AwaitingValidation"}

ToBeProcessedStartEpoch(bs, start) ==
  LET done == WithStatus(bs, {"AwaitingValidation"})
  IN  IF done = <<>> THEN start ELSE Last(done).startEpoch + EPOCHS_PER_BATCH

ToBeDownloadedStartEpoch(bs, start) ==
  IF bs = <<>> THEN start ELSE Last(bs).startEpoch + EPOCHS_PER_BATCH

\* The target that is the first to be counted as often as the most common.
MostCommonTarget(peers) ==
  LET count(i) ==
        Cardinality({j \in 1..i : peers[j].target = peers[i].target})
      most == Max({count(i) : i \in DOMAIN peers})
  IN  peers[Min({i \in DOMAIN peers : count(i) = most})].target

ComputeTarget(peers) == IF peers = <<>> THEN target ELSE MostCommonTarget(peers)

PeersOf(peers) == {e.peer : e \in ToSet(peers)}

-----------------------------------------------------------------------------
(* The peer balancer and the requests.                                     *)

ActiveRequests(bs, peer) ==
  Cardinality({i \in DOMAIN bs : bs[i].status = "Downloading" /\ bs[i].peer = peer})

\* First the peers that did not fail, then those with fewer requests, then
\* those that come first in the shuffled order.
BestPeerToRetryBatch(bs, batch, order) ==
  LET failed(p) == IF p \in FailedPeers(batch) THEN 1 ELSE 0
      better(p, q) == \/ failed(p) < failed(q)
                      \/ /\ failed(p) = failed(q)
                         /\ ActiveRequests(bs, p) < ActiveRequests(bs, q)
      best == {i \in DOMAIN order :
                 \A j \in DOMAIN order : ~better(order[j], order[i])}
  IN  order[Min(best)]

StartDownloading(batch, peer) ==
  [batch EXCEPT !.status = "Downloading", !.peer = peer]

BufferIsFull(bs) ==
  Len(WithStatus(bs, {"Downloading", "AwaitingProcessing"})) > BATCH_BUFFER_SIZE

BeyondTarget(bs, start, tgt) ==
  StartSlot(ToBeDownloadedStartEpoch(bs, start)) + 1 > tgt

IsDuplicate(bs, epoch) == \E i \in DOMAIN bs : bs[i].startEpoch = epoch

\* Creates the next batch and requests it from the peer, unless no more is
\* wanted.
IncludeNextBatch(start, tgt, bs, peer) ==
  IF \/ BufferIsFull(bs)
     \/ BeyondTarget(bs, start, tgt)
     \/ IsDuplicate(bs, ToBeDownloadedStartEpoch(bs, start))
  THEN bs
  ELSE Append(bs, StartDownloading(
                    NewBatch(ToBeDownloadedStartEpoch(bs, start)), peer))

\* Every peer that has no request gets a new batch, in the shuffled order.
IncludeNextBatches(bs, start, tgt, order, retried) ==
  LET included[n \in 0..Len(order)] ==
        IF n = 0 THEN retried
        ELSE IF ActiveRequests(bs, order[n]) > 0 THEN included[n - 1]
        ELSE IncludeNextBatch(start, tgt, included[n - 1], order[n])
  IN  included[Len(order)]

\* Variation: a batch that failed is not requested again.
OnlyNewRequested(bs, start, tgt, order) ==
  IncludeNextBatches(bs, start, tgt, order, bs)

\* What requestBatches makes of the batches if it shuffles the peers to order.
Requested(bs, start, tgt, order) ==
  LET retried == [i \in DOMAIN bs |->
        IF bs[i].status = "AwaitingDownload" /\ order # <<>>
        THEN StartDownloading(bs[i], BestPeerToRetryBatch(bs, bs[i], order))
        ELSE bs[i]]
  IN  IncludeNextBatches(bs, start, tgt, order, retried)

RequestOf(batch) == [startEpoch |-> batch.startEpoch, peer |-> batch.peer]

\* The downloads that are awaited after the batches bs became new.
NewRequests(bs, new) ==
  LET wasDownloading(b) ==
        \E i \in DOMAIN bs :
          bs[i].startEpoch = b.startEpoch /\ bs[i].status = "Downloading"
  IN  {RequestOf(b) : b \in {c \in ToSet(new) :
         c.status = "Downloading" /\ ~wasDownloading(c)}}

\* triggerBatchDownloader at the end of a handler that leaves bs.
TriggerBatchDownloader(st, bs, start, tgt, peers, awaited) ==
  IF st # "Syncing"
  THEN batches' = bs /\ requests' = awaited
  ELSE \E order \in SetToSeqs(PeersOf(peers)) :
         LET new == Requested(bs, start, tgt, order)
         IN  batches' = new /\ requests' = awaited \cup NewRequests(bs, new)

-----------------------------------------------------------------------------
(* The ItTrigger and the loop.                                             *)

\* What trigger() makes of the loop and of the flag.
Trigger ==
  /\ loop' = IF loop = "waiting" THEN "woken" ELSE loop
  /\ triggered' = (loop # "waiting")
  /\ UNCHANGED <<iterError, status, inRangeSync>>

\* The catch of sync().  The onEnd of a chain that failed calls the update of
\* RangeSync, which removes the chain.
Leave(error, present) ==
  /\ loop' = "ended"
  /\ iterError' = error
  /\ status' = IF error = "Aborted" THEN status ELSE "Error"
  /\ inRangeSync' = (error = "Aborted" /\ present)
  /\ UNCHANGED triggered

Throw(error) == Leave(error, inRangeSync)

\* end(error): a loop that waits is left at once, any other at its next().
End(error, present) ==
  IF loop = "waiting"
  THEN Leave(error, present)
  ELSE /\ iterError' = error
       /\ inRangeSync' = present
       /\ UNCHANGED <<loop, triggered, status>>

\* The loop calls next() while the flag is `flag`.
NextIteration(flag) ==
  IF iterError # "none"
  THEN Throw(iterError)
  ELSE /\ loop' = IF flag THEN "woken" ELSE "waiting"
       /\ triggered' = FALSE
       /\ UNCHANGED <<iterError, status, inRangeSync>>

\* If a batch used up its attempts all peers are reported.
EndReports(error) ==
  IF error = "MaxProcessingAttempts"
  THEN {[peer |-> p, reason |-> error] : p \in PeersOf(peerset)}
  ELSE {}

-----------------------------------------------------------------------------
(* Peers, and the update of RangeSync.                                     *)

Init ==
  /\ status = "Stopped" /\ startEpoch = initialEpoch /\ target \in Targets
  /\ peerset = <<>> /\ batches = <<>> /\ requests = {}
  /\ loop = "waiting" /\ triggered = FALSE /\ iterError = "none"
  /\ inRangeSync = TRUE
  /\ imported = {s \in Chain : s <= StartSlot(initialEpoch)}
  /\ reports = {}

\* The root of a target is the last block up to its slot.
IsKnown(slot) == Max({s \in Chain : s <= slot}) \in imported

\* update removes a chain whose target the fork choice has, and starts one
\* that is stopped: startSyncing moves nothing, since the chain begins at the
\* local finalized epoch, and triggers both loops.
UpdateAfterJoin(tgt) ==
  IF IsKnown(tgt)
  THEN End("Aborted", FALSE)
  ELSE IF status = "Stopped"
  THEN /\ status' = "Syncing" /\ loop' = "woken"
       /\ UNCHANGED <<triggered, iterError, inRangeSync>>
  ELSE UNCHANGED loopVars

SetPeer(peer, tgt) ==
  LET entry == [peer |-> peer, target |-> tgt]
  IN  IF peer \in PeersOf(peerset)
      THEN [i \in DOMAIN peerset |->
              IF peerset[i].peer = peer THEN entry ELSE peerset[i]]
      ELSE Append(peerset, entry)

\* A peer whose finalized block is unknown joins, or its status changed.
AddPeer(peer, tgt) ==
  /\ inRangeSync /\ ~IsKnown(tgt)
  /\ peerset' = SetPeer(peer, tgt)
  /\ target' = ComputeTarget(peerset')
  /\ UpdateAfterJoin(target')
  /\ TriggerBatchDownloader(IF inRangeSync' THEN status' ELSE status,
                            batches, startEpoch, target', peerset', requests)
  /\ UNCHANGED <<startEpoch, imported, reports>>

RemovePeer(peer) ==
  /\ inRangeSync /\ peer \in PeersOf(peerset)
  /\ peerset' = Selection(peerset, {i \in DOMAIN peerset : peerset[i].peer # peer})
  /\ target' = ComputeTarget(peerset')
  /\ UNCHANGED <<startEpoch, batches, requests, loopVars, imported, reports>>

\* Another chain ended or got a peer.
Update ==
  /\ inRangeSync /\ status # "Stopped"
  /\ peerset = <<>> \/ IsKnown(target)
  /\ End("Aborted", FALSE)
  /\ UNCHANGED <<startEpoch, target, peerset, batches, requests, imported,
                 reports>>

-----------------------------------------------------------------------------
(* Downloads.                                                              *)

BatchOf(request) ==
  {i \in DOMAIN batches : /\ batches[i].startEpoch = request.startEpoch
                          /\ batches[i].status = "Downloading"}

DownloadingSuccess(batch, blocks) ==
  [batch EXCEPT !.status = "AwaitingProcessing", !.blocks = blocks]

DownloadSucceeds(request, blocks) ==
  /\ request \in requests
  /\ IF BatchOf(request) = {}
     THEN End("WrongStatus", inRangeSync) /\ UNCHANGED <<batches, requests>>
     ELSE LET i == CHOOSE i \in BatchOf(request) : TRUE
          IN  /\ Trigger
              /\ TriggerBatchDownloader(
                   status,
                   [batches EXCEPT ![i] = DownloadingSuccess(@, blocks)],
                   startEpoch, target, peerset, requests \ {request})
  /\ UNCHANGED <<startEpoch, target, peerset, imported, reports>>

WithFailedDownload(batch) ==
  [batch EXCEPT !.failedDownloadAttempts = Append(@, batch.peer)]

DownloadFails(request) ==
  /\ request \in requests
  /\ IF BatchOf(request) = {}
     THEN End("WrongStatus", inRangeSync) /\ UNCHANGED <<batches, requests>>
     ELSE LET i == CHOOSE i \in BatchOf(request) : TRUE
              failed == WithFailedDownload(batches[i])
              exhausted == Len(failed.failedDownloadAttempts)
                             > MAX_BATCH_DOWNLOAD_ATTEMPTS
          IN  /\ IF exhausted THEN End("MaxDownloadAttempts", inRangeSync)
                 ELSE UNCHANGED loopVars
              /\ TriggerBatchDownloader(
                   status,
                   [batches EXCEPT ![i] =
                      IF exhausted THEN failed ELSE Again(failed)],
                   startEpoch, target, peerset, requests \ {request})
  /\ UNCHANGED <<startEpoch, target, peerset, imported, reports>>

-----------------------------------------------------------------------------
(* The processing of a segment by the block processor.                     *)

SlotsIn(blocks) == {b.slot : b \in blocks}

\* The root of each block is the parent root of the next one.
IsLinear(blocks) ==
  \A s, t \in SlotsIn(blocks) : \A c \in Chain :
    s < c /\ c < t => c \in SlotsIn(blocks)

\* Variation: any parent will do.
AnyParent(slot) == TRUE

ParentIsKnown(slot) == Max({s \in Chain : s < slot}) \in imported

Unknown(blocks) == {b \in blocks : b.slot \notin imported}

IsOrphan(b, blocks) ==
  (\A c \in blocks : b.slot <= c.slot) /\ ~ParentIsKnown(b.slot)

\* The blocks at which the segment is refused.  A block that is known is
\* skipped before its signature is looked at.
Refused(blocks) == {b \in Unknown(blocks) : ~b.valid \/ IsOrphan(b, blocks)}

Below(slot, blocks) == {b.slot : b \in {c \in Unknown(blocks) : c.slot < slot}}

\* `counted` are the blocks that importedBlocks of the error counts.
Segment(upTo, blocks, error) ==
  [imported |-> Below(upTo, blocks), counted |-> Below(upTo, blocks),
   error |-> error]

\* importBlock throws after the fork choice got the block.
ImportThrows(slot, blocks) ==
  [Segment(slot, blocks, "Local") EXCEPT !.imported = @ \cup {slot}]

Infinity == 1 + Max(Chain)

\* Failures of this node: the queue refuses or drops the segment, the state,
\* the signatures or the import of a block fail for a reason of its own.
LocalFailures(blocks, tried, stop) ==
  {Segment(0, blocks, "Local")}
    \cup {Segment(slot, blocks, "Local") : slot \in tried}
    \cup {ImportThrows(slot, blocks) : slot \in {s \in tried : s < stop}}

SegmentResults(blocks) ==
  LET stop == Min({b.slot : b \in Refused(blocks)} \cup {Infinity})
      tried == {b.slot : b \in {c \in Unknown(blocks) :
                                  c.slot <= stop /\ ~IsOrphan(c, blocks)}}
  IN  IF ~IsLinear(blocks)
      THEN {Segment(0, blocks, "Block")}
             \cup (IF LocalFails THEN LocalFailures(blocks, {}, 0) ELSE {})
      ELSE {Segment(stop, blocks, IF stop = Infinity THEN "none" ELSE "Block")}
             \cup (IF EngineFails
                   THEN {Segment(slot, blocks, "Engine") : slot \in tried}
                   ELSE {})
             \cup (IF LocalFails
                   THEN LocalFailures(blocks, tried, stop)
                   ELSE {})

-----------------------------------------------------------------------------
(* The loop and processBatch.                                              *)

\* Variation: the chain is synced when everything is requested.
IsRequested(bs, start, tgt) ==
  StartSlot(ToBeDownloadedStartEpoch(bs, start)) >= tgt

IsDone(bs, start, tgt) == StartSlot(ToBeProcessedStartEpoch(bs, start)) >= tgt

\* The chain is synced; onEnd removes it from RangeSync.
Finish ==
  /\ loop' = "ended" /\ status' = "Synced" /\ inRangeSync' = FALSE
  /\ UNCHANGED <<triggered, iterError, batches>>

StartProcessing(i) ==
  /\ batches' = [batches EXCEPT ![i].status = "Processing"]
  /\ loop' = "processing"
  /\ UNCHANGED <<triggered, iterError, status, inRangeSync>>

Iterate ==
  /\ loop = "woken"
  /\ IF status # "Syncing"
     THEN NextIteration(triggered) /\ UNCHANGED batches
     ELSE IF ~ValidStatuses(batches)
     THEN Throw("BadOrder") /\ UNCHANGED batches
     ELSE IF IsDone(batches, startEpoch, target) THEN Finish
     ELSE IF NextBatchToProcess(batches) = {}
     THEN NextIteration(triggered) /\ UNCHANGED batches
     ELSE \E i \in NextBatchToProcess(batches) : StartProcessing(i)
  /\ UNCHANGED <<startEpoch, target, peerset, requests, imported, reports>>

BatchInProcess == CHOOSE i \in DOMAIN batches : batches[i].status = "Processing"

From(bs, epoch) == Selection(bs, {i \in DOMAIN bs : bs[i].startEpoch >= epoch})

\* The peers of the failed attempts that differ from the last one.
AttemptReports(batch) ==
  {[peer |-> a.peer,
    reason |-> IF a.peer = batch.peer THEN "InvalidBatchSelf"
               ELSE "InvalidBatchOther"] :
     a \in {b \in ToSet(batch.failedProcessingAttempts) :
              b.hash # batch.blocks}}

\* Variation: the start of the chain is not moved.
AdvancedWithoutStart(bs, epoch) ==
  [batches |-> IF epoch <= startEpoch THEN bs ELSE From(bs, epoch),
   reports |-> {}, start |-> startEpoch, ok |-> TRUE]

\* advanceChain: what is left of the batches, the reports, the new start.
Advanced(bs, epoch) ==
  IF epoch <= startEpoch
  THEN [batches |-> bs, reports |-> {}, start |-> startEpoch, ok |-> TRUE]
  ELSE LET dropped == {b \in ToSet(bs) : b.startEpoch < epoch}
       IN  [batches |-> From(bs, epoch),
            reports |-> UNION {AttemptReports(b) : b \in dropped},
            start |-> epoch,
            ok |-> \A b \in dropped : b.status = "AwaitingValidation"]

ProcessingSuccess(batch) == [batch EXCEPT !.status = "AwaitingValidation"]

\* A batch of blocks, even of known ones, validates the batches before it.
Validates(blocks) == blocks # {}

Processed ==
  LET i == BatchInProcess
      done == [batches EXCEPT ![i] = ProcessingSuccess(@)]
      next == Advanced(done, IF Validates(batches[i].blocks)
                             THEN batches[i].startEpoch ELSE startEpoch)
  IN  /\ loop = "processing"
      /\ \E r \in SegmentResults(batches[i].blocks) :
           r.error = "none" /\ imported' = imported \cup r.imported
      /\ reports' = reports \cup next.reports
      /\ startEpoch' = next.start
      /\ IF next.ok
         THEN /\ NextIteration(TRUE)
              /\ TriggerBatchDownloader(status, next.batches, next.start,
                                        target, peerset, requests)
         ELSE /\ Throw("WrongStatus")
              /\ batches' = next.batches /\ UNCHANGED requests
      /\ UNCHANGED <<target, peerset>>

WithFailedAttempt(batch, error) ==
  IF error = "Engine"
  THEN [batch EXCEPT !.executionErrorAttempts = @ + 1]
  ELSE [batch EXCEPT !.failedProcessingAttempts = Append(@, Attempt(batch, error))]

\* Variation: attempts are not limited.
NeverExhausted(batch, error) == FALSE

IsExhausted(batch, error) ==
  (IF error = "Engine" THEN batch.executionErrorAttempts
   ELSE Len(batch.failedProcessingAttempts)) > MAX_BATCH_PROCESSING_ATTEMPTS

\* Variation: failures of the execution engine count as wrong batches.
AlwaysProcessing(error) == "MaxProcessingAttempts"

MaxAttempts(error) ==
  IF error = "Engine" THEN "MaxExecutionEngineErrorAttempts"
  ELSE "MaxProcessingAttempts"

\* processingError and validationError: a batch that used up its attempts
\* throws and keeps its status.
Failed(batch, error) ==
  LET failed == WithFailedAttempt(batch, error)
  IN  IF IsExhausted(failed, error) THEN failed ELSE Again(failed)

\* The batches of bs at which the validationError of those before epoch throws.
Throwing(bs, epoch, error) ==
  {j \in DOMAIN bs :
     /\ bs[j].startEpoch < epoch
     /\ \/ bs[j].status # "AwaitingValidation"
        \/ IsExhausted(WithFailedAttempt(bs[j], error), error)}

FailedUpTo(bs, last, epoch, error) ==
  [j \in DOMAIN bs |-> IF j <= last /\ bs[j].startEpoch < epoch
                       THEN Failed(bs[j], error) ELSE bs[j]]

\* The batch fails for good: nothing else of processBatch happens.
ProcessingExhausted(error, failed) ==
  /\ IsExhausted(failed, error)
  /\ batches' = [batches EXCEPT ![BatchInProcess] = failed]
  /\ Throw(MaxAttempts(error))
  /\ reports' = reports \cup EndReports(MaxAttempts(error))
  /\ UNCHANGED <<startEpoch, requests>>

\* The batch is downloaded again, and so are those before it unless a block
\* of the segment was imported and counted.
ProcessingRetried(r, failed) ==
  LET epoch == failed.startEpoch
      again == [batches EXCEPT ![BatchInProcess] = Again(failed)]
      next == Advanced(again, IF r.counted = {} THEN startEpoch ELSE epoch)
      bad == Throwing(next.batches, epoch, r.error)
      error == IF bad # {} /\ next.batches[Min(bad)].status = "AwaitingValidation"
               THEN MaxAttempts(r.error) ELSE "WrongStatus"
      last == IF bad = {} THEN Len(next.batches) ELSE Min(bad)
      new == FailedUpTo(next.batches, last, epoch, r.error)
  IN  /\ ~IsExhausted(failed, r.error)
      /\ startEpoch' = next.start
      /\ IF next.ok /\ bad = {}
         THEN /\ reports' = reports \cup next.reports
              /\ NextIteration(triggered)
              /\ TriggerBatchDownloader(status, new, next.start, target,
                                        peerset, requests)
         ELSE /\ reports' = reports \cup next.reports \cup EndReports(error)
              /\ Throw(error)
              /\ batches' = new /\ UNCHANGED requests

ProcessingFails ==
  LET batch == batches[BatchInProcess]
  IN  /\ loop = "processing"
      /\ \E r \in SegmentResults(batch.blocks) :
           LET failed == WithFailedAttempt(batch, r.error)
           IN  /\ r.error # "none"
               /\ imported' = imported \cup r.imported
               /\ ProcessingExhausted(r.error, failed) \/ ProcessingRetried(r, failed)
      /\ UNCHANGED <<target, peerset>>

-----------------------------------------------------------------------------
Next ==
  \/ \E p \in Peer, t \in Targets : AddPeer(p, t)
  \/ \E p \in Peer : RemovePeer(p)
  \/ Update
  \/ \E r \in requests :
       \E blocks \in Answers(r.peer, r.startEpoch) : DownloadSucceeds(r, blocks)
  \/ \E r \in requests : DownloadFails(r)
  \/ Iterate
  \/ Processed
  \/ ProcessingFails

Spec == Init /\ [][Next]_vars

-----------------------------------------------------------------------------
(* Properties.                                                             *)

Attempts == [peer : Peer, hash : SUBSET [slot : Chain, valid : BOOLEAN],
             here : BOOLEAN]

BatchStatus == {"AwaitingDownload", "Downloading", "AwaitingProcessing",
                "Processing", "AwaitingValidation"}

BatchTypeOK(batch) ==
  /\ batch.startEpoch \in Nat /\ batch.status \in BatchStatus
  /\ (batch.peer = NoPeer) <=> (batch.status = "AwaitingDownload")
  /\ batch.peer \in Peer \cup {NoPeer}
  /\ batch.blocks \subseteq [slot : SlotsOf(batch.startEpoch), valid : BOOLEAN]
  /\ ToSet(batch.failedDownloadAttempts) \subseteq Peer
  /\ Len(batch.failedDownloadAttempts) <= MAX_BATCH_DOWNLOAD_ATTEMPTS + 1
  /\ ToSet(batch.failedProcessingAttempts) \subseteq Attempts
  /\ Len(batch.failedProcessingAttempts) <= MAX_BATCH_PROCESSING_ATTEMPTS + 1
  /\ batch.executionErrorAttempts \in 0..MAX_BATCH_PROCESSING_ATTEMPTS + 1

\* Types; a batch that can be requested has no peer and every other one has,
\* and no batch is tried more often than its limits allow.
TypeOK ==
  /\ status \in {"Stopped", "Syncing", "Synced", "Error"}
  /\ startEpoch \in Nat /\ target \in Nat
  /\ \A i \in DOMAIN peerset : peerset[i] \in [peer : Peer, target : Targets]
  /\ \A i \in DOMAIN batches : BatchTypeOK(batches[i])
  /\ \A r \in requests : r.startEpoch \in Nat /\ r.peer \in Peer
  /\ loop \in {"waiting", "woken", "processing", "ended"}
  /\ triggered \in BOOLEAN /\ inRangeSync \in BOOLEAN
  /\ imported \subseteq Chain

\* The checks of validateBatchesStatus and of the batches' transitions never
\* throw: with any order of answers, failures and retries the statuses follow
\* the order batches.ts documents, also between two iterations of the loop.
StatusesFit ==
  /\ iterError \notin {"WrongStatus", "BadOrder"}
  /\ status = "Syncing" => ValidStatuses(batches)

\* The batches are a window without gap or duplicate that begins at the start
\* of the chain, whatever is retried, dropped or added (chain.ts, the comment
\* in includeNextBatch).
ContiguousWindow ==
  \A i \in DOMAIN batches :
    batches[i].startEpoch = startEpoch + (i - 1) * EPOCHS_PER_BATCH

\* When the chain says it is synced, a block up to the target can only be
\* missing in a batch that was not validated yet and that a peer that is not
\* honest answered.
SyncedIsImported ==
  status = "Synced" =>
    \A s \in Chain : s <= target /\ s \notin imported =>
      \E i \in DOMAIN batches :
        /\ s \in SlotsOf(batches[i].startEpoch)
        /\ batches[i].status = "AwaitingValidation"
        /\ batches[i].peer \notin Honest

\* A peer that is not honest answered the batch: it failed, or it was processed
\* and not validated yet.
HasFaultyAnswer(batch) ==
  \/ \E a \in ToSet(batch.failedProcessingAttempts) : a.peer \notin Honest
  \/ batch.status = "AwaitingValidation" /\ batch.peer \notin Honest

\* The failure that used up the attempts of the batch was one of this node.
FailedHere(batch) ==
  /\ Len(batch.failedProcessingAttempts) > MAX_BATCH_PROCESSING_ATTEMPTS
  /\ Last(batch.failedProcessingAttempts).here

\* "It's likely that all peers in this chain are ... malicious or faulty" when a
\* batch used up its processing attempts: then some peer did send a wrong
\* batch, and it is among the batches, unless the last failure was one of this
\* node, which the code counts and reports all peers for as well.  Good
\* batches of honest peers fail with the wrong ones, but never bring the chain
\* there by themselves.
FaultyPeerOnRecord ==
  iterError = "MaxProcessingAttempts" =>
    \E i \in DOMAIN batches :
      HasFaultyAnswer(batches[i]) \/ FailedHere(batches[i])

\* The last attempt of a validated batch is right, all others are wrong: who
\* is reported for another one did send a wrong batch.
OnlyFaultyReported ==
  \A r \in reports : r.reason = "InvalidBatchOther" => r.peer \notin Honest

\* No wakeup is lost: a chain that syncs and has a peer awaits an answer, has
\* a batch in process or its loop is about to run.  Every answer and failure
\* leads to another request, to the processing of a batch or to the end.  The
\* one exception: with peers of several targets, computeTarget may change the
\* target of a chain whose loop waits, and nothing wakes the loop.  Then all up
\* to one announced target is processed, and the chain fell asleep for another.
NeverStuck ==
  status = "Syncing" /\ inRangeSync /\ loop = "waiting" /\ peerset # <<>>
    => \/ requests # {}
       \/ \E t, u \in Targets : /\ IsDone(batches, startEpoch, t)
                               /\ ~IsDone(batches, startEpoch, u)

-----------------------------------------------------------------------------
(* Refinement.                                                             *)

Order ==
  INSTANCE InOrderImport WITH
    validated <- StartSlot(startEpoch),
    synced <- (status = "Synced")

\* With answers in any order, spoiled and held back blocks, and segments that
\* fail in the middle, what reaches the fork choice is the chain in order and
\* nothing after the chain said it is synced, and the start of the chain never
\* moves beyond a block that peers held back.
ImportsInOrder == Order!Spec

=============================================================================
