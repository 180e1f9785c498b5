-------------------------- MODULE SyncChainProofs ---------------------------
(***************************************************************************)
(* Proofs about SyncChain, for any peers, any chain of blocks and any      *)
(* limits.  SyncIInv is the inductive invariant: the batches are a window, *)
(* every awaited download has its batch, no batch is beyond its limits,    *)
(* and while the chain syncs their statuses are in order and only the      *)
(* batch the loop awaits is in process.  ImportedInOrder says of the fork  *)
(* choice what InOrderImport asks.  BlameInv says what the batches tell of *)
(* the peers: an honest answer is complete, and imported once it was       *)
(* processed; where blocks are missing, the peer of a batch shows why.     *)
(* AwakeInv says that while the loop waits nothing is to be processed, and *)
(* that every batch that can be requested was.                             *)
(***************************************************************************)
EXTENDS SyncChain, RecursionProofs

-----------------------------------------------------------------------------
(* The invariant. *)

BatchRecord ==
  [startEpoch : Nat, status : BatchStatus, peer : Peer \union {NoPeer},
   blocks : SUBSET [slot : Chain, valid : BOOLEAN],
   failedDownloadAttempts : Seq(Peer), failedProcessingAttempts : Seq(Attempts),
   executionErrorAttempts : Nat]

Batch ==
  {b \in BatchRecord :
     /\ b.peer = NoPeer <=> b.status = "AwaitingDownload"
     /\ \A c \in b.blocks : c.slot \in SlotsOf(b.startEpoch)}

Window(bs, start) ==
  \A i \in DOMAIN bs : bs[i].startEpoch = start + (i - 1) * EPOCHS_PER_BATCH

Fits(bs, start) == bs \in Seq(Batch) /\ Window(bs, start)

\* Every download that is awaited has its batch.
Match(bs, rs) ==
  \A r \in rs :
    \E i \in DOMAIN bs : bs[i].status = "Downloading" /\ r = RequestOf(bs[i])

\* A batch that used up its downloads has none; one that used up its attempts
\* ended the loop.
Bounded(bs, rs, lp) ==
  \A i \in DOMAIN bs :
    /\ Len(bs[i].failedDownloadAttempts) <= MAX_BATCH_DOWNLOAD_ATTEMPTS
         \/ /\ Len(bs[i].failedDownloadAttempts) = MAX_BATCH_DOWNLOAD_ATTEMPTS + 1
            /\ bs[i].status = "Downloading" /\ RequestOf(bs[i]) \notin rs
    /\ Len(bs[i].failedProcessingAttempts) <= MAX_BATCH_PROCESSING_ATTEMPTS + 1
    /\ bs[i].executionErrorAttempts <= MAX_BATCH_PROCESSING_ATTEMPTS + 1
    /\ lp # "ended" =>
         /\ Len(bs[i].failedProcessingAttempts) <= MAX_BATCH_PROCESSING_ATTEMPTS
         /\ bs[i].executionErrorAttempts <= MAX_BATCH_PROCESSING_ATTEMPTS

\* While the chain syncs the statuses are in order, and a batch is processed
\* only while the loop awaits it.
Runs(st, lp, bs) ==
  /\ st \in {"Synced", "Error"} => lp = "ended"
  /\ lp = "processing" =>
       st = "Syncing" /\ \E i \in DOMAIN bs : bs[i].status = "Processing"
  /\ st \in {"Stopped", "Syncing"} =>
       /\ ValidStatuses(bs)
       /\ \A i \in DOMAIN bs : bs[i].status = "Processing" => lp = "processing"

\* A loop that ended belongs to a chain that was removed.
Control(st, lp, error, present) ==
  /\ st \in {"Stopped", "Syncing", "Synced", "Error"}
  /\ lp \in {"waiting", "woken", "processing", "ended"}
  /\ error \notin {"WrongStatus", "BadOrder"} /\ present \in BOOLEAN
  /\ error = "Aborted" => ~present
  /\ lp = "ended" => ~present

PeerEntry == [peer : Peer, target : Targets]

SyncIInv ==
  /\ startEpoch \in Nat /\ target \in Nat /\ triggered \in BOOLEAN
  /\ peerset \in Seq(PeerEntry)
  /\ Control(status, loop, iterError, inRangeSync)
  /\ Fits(batches, startEpoch)
  /\ Match(batches, requests)
  /\ Bounded(batches, requests, loop)
  /\ Runs(status, loop, batches)

\* Every slot of the chain up to one of the set is in the set.
InOrder(slots) == \A s \in slots : \A c \in Chain : c <= s => c \in slots

ImportedInOrder ==
  /\ imported \subseteq Chain
  /\ InOrder(imported)
  /\ \A c \in Chain : c <= StartSlot(startEpoch) => c \in imported

-----------------------------------------------------------------------------
(* Batches. *)

\* The fields of a batch.
LEMMA BatchFields ==
  ASSUME NEW b \in Batch
  PROVE  /\ b.startEpoch \in Nat /\ b.status \in BatchStatus
         /\ b.peer \in Peer \union {NoPeer}
         /\ b.peer = NoPeer <=> b.status = "AwaitingDownload"
         /\ b.blocks \subseteq [slot : Chain, valid : BOOLEAN]
         /\ \A c \in b.blocks : c.slot \in SlotsOf(b.startEpoch)
         /\ b.failedDownloadAttempts \in Seq(Peer)
         /\ b.failedProcessingAttempts \in Seq(Attempts)
         /\ b.executionErrorAttempts \in Nat
BY DEF Batch, BatchRecord

\* A step of a batch that changes its status, its peer or its blocks.
SameAttempts(new, b) ==
  /\ new.startEpoch = b.startEpoch
  /\ new.failedDownloadAttempts = b.failedDownloadAttempts
  /\ new.failedProcessingAttempts = b.failedProcessingAttempts
  /\ new.executionErrorAttempts = b.executionErrorAttempts

\* The transitions of a batch give a batch; all but the failures keep its attempts.
\* A request gives it a peer.
LEMMA StartDownloadingBatch ==
  ASSUME NEW b \in Batch, NEW p \in Peer
  PROVE  /\ StartDownloading(b, p) \in Batch
         /\ SameAttempts(StartDownloading(b, p), b)
         /\ StartDownloading(b, p).status = "Downloading"
         /\ StartDownloading(b, p).peer = p
BY SyncChainAssumption DEF StartDownloading, Batch, BatchRecord, SameAttempts, BatchStatus

\* A new batch was never tried.
LEMMA NewBatchIsBatch ==
  ASSUME NEW epoch \in Nat
  PROVE  /\ NewBatch(epoch) \in Batch
         /\ NewBatch(epoch).startEpoch = epoch
         /\ NewBatch(epoch).failedDownloadAttempts = <<>>
         /\ NewBatch(epoch).failedProcessingAttempts = <<>>
         /\ NewBatch(epoch).executionErrorAttempts = 0
BY DEF NewBatch, Batch, BatchRecord, BatchStatus

\* A batch can be requested again.
LEMMA AgainBatch ==
  ASSUME NEW b \in Batch
  PROVE  /\ Again(b) \in Batch /\ SameAttempts(Again(b), b)
         /\ Again(b).status = "AwaitingDownload"
BY DEF Again, Batch, BatchRecord, SameAttempts, BatchStatus

\* An answer, even of a peer that is not honest, has blocks of the batch's slots.
LEMMA DownloadedBatch ==
  ASSUME NEW b \in Batch, b.status = "Downloading",
         NEW peer, NEW blocks \in Answers(peer, b.startEpoch)
  PROVE  /\ DownloadingSuccess(b, blocks) \in Batch
         /\ SameAttempts(DownloadingSuccess(b, blocks), b)
         /\ DownloadingSuccess(b, blocks).status = "AwaitingProcessing"
<1>1. /\ blocks \subseteq [slot : Chain, valid : BOOLEAN]
      /\ \A c \in blocks : c.slot \in SlotsOf(b.startEpoch)
  <2> DEFINE epoch == b.startEpoch
             OfEpoch(c) == c \in [slot : Chain, valid : BOOLEAN] /\ c.slot \in SlotsOf(epoch)
  <2> HIDE DEF epoch
  <2>1. \A c \in Blocks(epoch) : OfEpoch(c)
    <3> SUFFICES ASSUME NEW s \in Chain \intersect SlotsOf(epoch) PROVE OfEpoch(Block(s, TRUE))
      BY DEF Blocks
    <3> QED BY DEF Block
  <2>2. ASSUME NEW d \in Blocks(epoch)
        PROVE  \A c \in Spoiled(Blocks(epoch), {d.slot}) : OfEpoch(c)
    <3> SUFFICES ASSUME NEW c \in Blocks(epoch)
                 PROVE  OfEpoch(Block(c.slot, c.valid /\ c.slot \notin {d.slot}))
      BY DEF Spoiled
    <3>1. c.slot \in Chain /\ c.slot \in SlotsOf(epoch)
      BY <2>1
    <3>2. (c.valid /\ c.slot \notin {d.slot}) \in BOOLEAN
      OBVIOUS
    <3> QED BY <3>1, <3>2 DEF Block
  <2>3. blocks \in SUBSET Blocks(epoch)
          \/ \E d \in Blocks(epoch) : blocks = Spoiled(Blocks(epoch), {d.slot})
    <3>1. blocks \in Answers(peer, epoch)
      BY DEF epoch
    <3> DEFINE all == Blocks(epoch)
    <3>2. CASE peer \in Honest
      <4>1. blocks = all
        BY <3>1, <3>2 DEF Answers
      <4> QED BY <4>1
    <3>3. CASE peer \notin Honest
      <4>1. blocks \in (SUBSET all) \union {Spoiled(all, {d.slot}) : d \in all}
        BY <3>1, <3>3 DEF Answers
      <4> HIDE DEF all
      <4>2. blocks \in SUBSET all \/ \E d \in all : blocks = Spoiled(all, {d.slot})
        BY <4>1
      <4> QED BY <4>2 DEF all
    <3> QED BY <3>2, <3>3
  <2>4. \A c \in blocks : OfEpoch(c)
    <3> HIDE DEF Fits
    <3> QED BY <2>1, <2>2, <2>3
  <2> QED BY <2>4 DEF epoch
<1> QED BY <1>1 DEF DownloadingSuccess, Batch, BatchRecord, SameAttempts, BatchStatus

\* A failed download is one more attempt.
LEMMA FailedDownloadBatch ==
  ASSUME NEW b \in Batch, b.status = "Downloading"
  PROVE  /\ WithFailedDownload(b) \in Batch
         /\ WithFailedDownload(b).startEpoch = b.startEpoch
         /\ WithFailedDownload(b).status = "Downloading"
         /\ WithFailedDownload(b).peer = b.peer
         /\ Len(WithFailedDownload(b).failedDownloadAttempts)
              = Len(b.failedDownloadAttempts) + 1
         /\ WithFailedDownload(b).failedProcessingAttempts = b.failedProcessingAttempts
         /\ WithFailedDownload(b).executionErrorAttempts = b.executionErrorAttempts
<1>1. b.peer \in Peer
  BY BatchFields
<1>2. /\ Append(b.failedDownloadAttempts, b.peer) \in Seq(Peer)
      /\ Len(Append(b.failedDownloadAttempts, b.peer)) = Len(b.failedDownloadAttempts) + 1
  BY <1>1, BatchFields
<1> DEFINE more == Append(b.failedDownloadAttempts, b.peer)
<1>3. WithFailedDownload(b) = [b EXCEPT !.failedDownloadAttempts = more]
  BY DEF WithFailedDownload
<1> HIDE DEF more
<1> QED BY <1>2, <1>3 DEF Batch, BatchRecord, more

\* A failed segment is one more attempt of one of two kinds.
LEMMA FailedAttemptBatch ==
  ASSUME NEW b \in Batch, b.peer # NoPeer, NEW error
  PROVE  /\ WithFailedAttempt(b, error) \in Batch
         /\ WithFailedAttempt(b, error).startEpoch = b.startEpoch
         /\ WithFailedAttempt(b, error).status = b.status
         /\ WithFailedAttempt(b, error).failedDownloadAttempts = b.failedDownloadAttempts
         /\ Len(WithFailedAttempt(b, error).failedProcessingAttempts)
              <= Len(b.failedProcessingAttempts) + 1
         /\ WithFailedAttempt(b, error).executionErrorAttempts
              <= b.executionErrorAttempts + 1
         /\ WithFailedAttempt(b, error).failedProcessingAttempts # b.failedProcessingAttempts
              => error # "Engine"
         /\ WithFailedAttempt(b, error).executionErrorAttempts # b.executionErrorAttempts
              => error = "Engine"
<1>1. CASE error = "Engine"
  <2>1. WithFailedAttempt(b, error) = [b EXCEPT !.executionErrorAttempts = @ + 1]
    BY <1>1 DEF WithFailedAttempt
  <2>2. Len(b.failedProcessingAttempts) \in Nat /\ b.executionErrorAttempts \in Nat
    BY BatchFields
  <2> QED BY <1>1, <2>1, <2>2 DEF Batch, BatchRecord
<1>2. CASE error # "Engine"
  <2> DEFINE more == Append(b.failedProcessingAttempts, Attempt(b, error))
  <2>1. Attempt(b, error) \in Attempts
    BY BatchFields DEF Attempt, Attempts
  <2>2. more \in Seq(Attempts) /\ Len(more) = Len(b.failedProcessingAttempts) + 1
    BY <2>1, BatchFields
  <2>3. WithFailedAttempt(b, error) = [b EXCEPT !.failedProcessingAttempts = more]
    BY <1>2 DEF WithFailedAttempt
  <2>4. Len(b.failedProcessingAttempts) \in Nat /\ b.executionErrorAttempts \in Nat
    BY BatchFields
  <2> HIDE DEF more
  <2> DEFINE new == WithFailedAttempt(b, error)
  <2>5. new \in Batch
    BY <2>2, <2>3 DEF Batch, BatchRecord
  <2>6. /\ new.startEpoch = b.startEpoch /\ new.status = b.status
        /\ new.failedDownloadAttempts = b.failedDownloadAttempts
        /\ new.failedProcessingAttempts = more
        /\ new.executionErrorAttempts = b.executionErrorAttempts
    BY <2>3 DEF Batch, BatchRecord
  <2> HIDE DEF new
  <2> QED BY <1>2, <2>2, <2>4, <2>5, <2>6 DEF new
<1> QED BY <1>1, <1>2

\* A batch that was processed, or is.
LEMMA ProcessedBatch ==
  ASSUME NEW b \in Batch, b.status # "AwaitingDownload"
  PROVE  /\ ProcessingSuccess(b) \in Batch /\ SameAttempts(ProcessingSuccess(b), b)
         /\ ProcessingSuccess(b).status = "AwaitingValidation"
         /\ ProcessingSuccess(b).peer = b.peer
         /\ [b EXCEPT !.status = "Processing"] \in Batch
         /\ SameAttempts([b EXCEPT !.status = "Processing"], b)
         /\ [b EXCEPT !.status = "Processing"].status = "Processing"
BY DEF ProcessingSuccess, Batch, BatchRecord, SameAttempts, BatchStatus

\* Distinct batches are apart.
LEMMA ProductGrows ==
  ASSUME NEW i \in Nat, NEW j \in Nat
  PROVE  i <= j <=> i * EPOCHS_PER_BATCH <= j * EPOCHS_PER_BATCH
<1>1. EPOCHS_PER_BATCH \in Nat /\ EPOCHS_PER_BATCH >= 1
  BY SyncChainAssumption
<1>2. ASSUME NEW m \in Nat, NEW n \in Nat, m < n
      PROVE  m * EPOCHS_PER_BATCH < n * EPOCHS_PER_BATCH
  <2>1. PICK d \in Nat : n = m + d /\ d >= 1
    <3>1. n - m \in Nat /\ n = m + (n - m) /\ n - m >= 1
      BY <1>2
    <3> QED BY <3>1
  <2>2. n * EPOCHS_PER_BATCH = m * EPOCHS_PER_BATCH + d * EPOCHS_PER_BATCH
    BY <1>1, <2>1
  <2>3. d * EPOCHS_PER_BATCH >= 1
    BY <1>1, <2>1
  <2>4. m * EPOCHS_PER_BATCH \in Nat /\ d * EPOCHS_PER_BATCH \in Nat
    BY <1>1
  <2> QED BY <2>2, <2>3, <2>4
<1>3. i * EPOCHS_PER_BATCH \in Nat /\ j * EPOCHS_PER_BATCH \in Nat
  BY <1>1
<1>4. CASE i < j
  BY <1>2, <1>3, <1>4
<1>5. CASE j < i
  BY <1>2, <1>3, <1>5
<1>6. CASE i = j
  BY <1>3, <1>6
<1> QED BY <1>4, <1>5, <1>6

-----------------------------------------------------------------------------
(* requestBatches. *)

IsNew(b) == \E p \in Peer, e \in Nat : b = StartDownloading(NewBatch(e), p)

IsRetried(new, b) ==
  b.status = "AwaitingDownload" /\ \E p \in Peer : new = StartDownloading(b, p)

\* What requestBatches may do to the batches.
Extends(new, bs) ==
  /\ Len(bs) <= Len(new)
  /\ \A i \in 1..Len(bs) : new[i] = bs[i] \/ IsRetried(new[i], bs[i])
  /\ \A i \in (Len(bs) + 1)..Len(new) : IsNew(new[i])

\* In a window without gap the next batch begins after as many batches as there are.
LEMMA NextEpoch ==
  ASSUME NEW start \in Nat, NEW bs, Fits(bs, start)
  PROVE  /\ ToBeDownloadedStartEpoch(bs, start) = start + Len(bs) * EPOCHS_PER_BATCH
         /\ ToBeDownloadedStartEpoch(bs, start) \in Nat
<1> DEFINE n == Len(bs)
<1>1. /\ n \in Nat /\ EPOCHS_PER_BATCH \in Nat /\ n * EPOCHS_PER_BATCH \in Nat
      /\ DOMAIN bs = 1..n
  BY SyncChainAssumption DEF Fits
<1>2. CASE bs = <<>>
  <2>1. ToBeDownloadedStartEpoch(bs, start) = start /\ n = 0
    BY <1>2 DEF ToBeDownloadedStartEpoch
  <2> HIDE DEF n
  <2>2. 0 * EPOCHS_PER_BATCH = 0
    BY <1>1
  <2> QED BY <2>1, <2>2 DEF n
<1>3. CASE bs # <<>>
  <2>1. n \in DOMAIN bs
    BY <1>1, <1>3 DEF Fits
  <2>2. bs[n].startEpoch = start + (n - 1) * EPOCHS_PER_BATCH
    BY <2>1 DEF Fits, Window
  <2>3. ToBeDownloadedStartEpoch(bs, start) = bs[n].startEpoch + EPOCHS_PER_BATCH
    BY <1>3 DEF ToBeDownloadedStartEpoch, Last
  <2> HIDE DEF n
  <2>4. (n - 1) * EPOCHS_PER_BATCH + EPOCHS_PER_BATCH = n * EPOCHS_PER_BATCH
    BY <1>1
  <2>5. (n - 1) * EPOCHS_PER_BATCH \in Int
    BY <1>1
  <2>6. ToBeDownloadedStartEpoch(bs, start) = start + n * EPOCHS_PER_BATCH
    BY <1>1, <2>2, <2>3, <2>4, <2>5
  <2> QED BY <1>1, <2>6 DEF n
<1> QED BY <1>2, <1>3

\* A new batch continues the window.
LEMMA IncludeNextBatchFits ==
  ASSUME NEW start \in Nat, NEW tgt, NEW bs, Fits(bs, start), NEW p \in Peer
  PROVE  LET new == IncludeNextBatch(start, tgt, bs, p)
         IN  /\ Fits(new, start)
             /\ \/ new = bs
                \/ /\ Len(new) = Len(bs) + 1
                   /\ \A i \in 1..Len(bs) : new[i] = bs[i]
                   /\ IsNew(new[Len(bs) + 1])
<1> DEFINE new == IncludeNextBatch(start, tgt, bs, p)
           epoch == ToBeDownloadedStartEpoch(bs, start)
           b == StartDownloading(NewBatch(epoch), p)
<1>1. epoch \in Nat /\ epoch = start + Len(bs) * EPOCHS_PER_BATCH
  BY NextEpoch
<1>2. b \in Batch /\ b.startEpoch = epoch /\ IsNew(b)
  BY <1>1, NewBatchIsBatch, StartDownloadingBatch DEF SameAttempts, IsNew
<1>3. new = bs \/ new = Append(bs, b)
  BY DEF IncludeNextBatch
<1> HIDE DEF new, b, epoch
<1>4. CASE new = Append(bs, b)
  <2>1. /\ new \in Seq(Batch) /\ Len(new) = Len(bs) + 1 /\ Len(bs) \in Nat
        /\ \A i \in 1..Len(bs) : new[i] = bs[i]
        /\ new[Len(bs) + 1] = b /\ DOMAIN bs = 1..Len(bs)
        /\ DOMAIN new = 1..(Len(bs) + 1)
    BY <1>2, <1>4 DEF Fits
  <2>2. Window(new, start)
    <3> SUFFICES ASSUME NEW i \in 1..(Len(bs) + 1)
                 PROVE  new[i].startEpoch = start + (i - 1) * EPOCHS_PER_BATCH
      BY <2>1 DEF Window
    <3>1. CASE i \in 1..Len(bs)
      BY <2>1, <3>1 DEF Fits, Window
    <3>2. CASE i = Len(bs) + 1
      <4>1. i - 1 = Len(bs)
        BY <2>1, <3>2
      <4> QED BY <1>1, <1>2, <2>1, <3>2, <4>1
    <3> QED BY <2>1, <3>1, <3>2
  <2> QED BY <1>2, <2>1, <2>2 DEF Fits, new
<1> QED BY <1>3, <1>4 DEF new

\* The batches after the first n peers were served.
Included(bs, start, tgt, order, retried) ==
  CHOOSE included :
    included = [n \in 0..Len(order) |->
                  IF n = 0 THEN retried
                  ELSE IF ActiveRequests(bs, order[n]) > 0 THEN included[n - 1]
                  ELSE IncludeNextBatch(start, tgt, included[n - 1], order[n])]

\* The recursion is well defined.
LEMMA IncludedSteps ==
  ASSUME NEW bs, NEW start, NEW tgt, NEW order, Len(order) \in Nat, NEW retried
  PROVE  LET included == Included(bs, start, tgt, order, retried)
         IN  /\ IncludeNextBatches(bs, start, tgt, order, retried) = included[Len(order)]
             /\ included[0] = retried
             /\ \A n \in 1..Len(order) :
                  included[n] = IF ActiveRequests(bs, order[n]) > 0 THEN included[n - 1]
                                ELSE IncludeNextBatch(start, tgt, included[n - 1], order[n])
<1> DEFINE size == Len(order)
           Next1(t, k) == IF ActiveRequests(bs, order[k]) > 0 THEN t
                         ELSE IncludeNextBatch(start, tgt, t, order[k])
           Steps(g, n) == [k \in 0..n |-> IF k = 0 THEN retried ELSE Next1(g[k - 1], k)]
           Defined == {n \in 0..size : \E g : g = Steps(g, n)}
           included == Included(bs, start, tgt, order, retried)
<1> HIDE DEF Next1
<1>1. 0 \in Defined
  <2> DEFINE g == [k \in 0..0 |-> retried]
  <2>1. \A k \in 0..0 : k = 0
    OBVIOUS
  <2>2. g = Steps(g, 0)
    BY <2>1
  <2> HIDE DEF g, Steps
  <2>3. \E x : x = Steps(x, 0)
    BY <2>2
  <2> QED BY <2>3
<1>2. ASSUME NEW n \in 0..(size - 1), n \in Defined
      PROVE  n + 1 \in Defined
  <2>1. PICK g : g = Steps(g, n)
    BY <1>2
  <2> DEFINE h == [k \in 0..(n + 1) |-> IF k = n + 1 THEN Next1(g[n], n + 1) ELSE g[k]]
  <2>2. \A k \in 0..n : g[k] = IF k = 0 THEN retried ELSE Next1(g[k - 1], k)
    <3>1. \A k \in 0..n : Steps(g, n)[k] = IF k = 0 THEN retried ELSE Next1(g[k - 1], k)
      OBVIOUS
    <3> HIDE DEF Steps
    <3> QED BY <2>1, <3>1
  <2>3. \A k \in 0..(n + 1) : h[k] = IF k = 0 THEN retried ELSE Next1(h[k - 1], k)
    <3> SUFFICES ASSUME NEW k \in 0..(n + 1)
                 PROVE  h[k] = IF k = 0 THEN retried ELSE Next1(h[k - 1], k)
      OBVIOUS
    <3>1. CASE k = n + 1
      BY <3>1
    <3>2. CASE k # n + 1
      <4>1. k \in 0..n /\ h[k] = g[k] /\ (k # 0 => h[k - 1] = g[k - 1])
        BY <3>2
      <4> QED BY <2>2, <4>1
    <3> QED BY <3>1, <3>2
  <2>4. h = Steps(h, n + 1)
    BY <2>3
  <2>5. n + 1 \in 0..size
    OBVIOUS
  <2> QED BY <2>4, <2>5
<1>3. size \in Defined
  <2> HIDE DEF Defined
  <2>1. 0..size \subseteq Defined
    BY <1>1, <1>2, Induction
  <2> QED BY <2>1
<1>4. PICK g : g = Steps(g, size)
  BY <1>3
<1>5. included = Steps(included, size)
  BY <1>4 DEF Included, Next1
<1>6. included[0] = retried
  BY <1>5
<1>7. \A n \in 1..size : included[n] = Next1(included[n - 1], n)
  BY <1>5
<1>8. IncludeNextBatches(bs, start, tgt, order, retried) = included[size]
  BY DEF IncludeNextBatches, Included
<1> QED BY <1>6, <1>7, <1>8 DEF Next1

\* Some peer is the best one.
LEMMA BestPeerIsPeer ==
  ASSUME NEW order \in Seq(Peer), order # <<>>, NEW bs \in Seq(Batch), NEW batch
  PROVE  BestPeerToRetryBatch(bs, batch, order) \in Peer
<1> DEFINE failed(p) == IF p \in FailedPeers(batch) THEN 1 ELSE 0
           active(p) == ActiveRequests(bs, p)
           better(p, q) == \/ failed(p) < failed(q)
                           \/ failed(p) = failed(q) /\ active(p) < active(q)
           best == {i \in DOMAIN order :
                      \A j \in DOMAIN order : ~better(order[j], order[i])}
<1>1. Len(order) \in Nat /\ DOMAIN order = 1..Len(order) /\ 1 \in DOMAIN order
  OBVIOUS
<1>2. \A p : ActiveRequests(bs, p) \in Nat
  <2> TAKE p
  <2> DEFINE D == {i \in DOMAIN bs : bs[i].status = "Downloading" /\ bs[i].peer = p}
  <2>1. IsFiniteSet(1..Len(bs)) /\ D \subseteq 1..Len(bs)
    BY FS_Interval
  <2>2. IsFiniteSet(D)
    BY <2>1, FS_Subset
  <2>3. Cardinality(D) \in Nat
    BY <2>2, FS_CardinalityType
  <2> QED BY <2>3 DEF ActiveRequests
<1>3. \A i \in DOMAIN order : failed(order[i]) \in {0, 1} /\ active(order[i]) \in Nat
  BY <1>2
<1>4. BestPeerToRetryBatch(bs, batch, order) = order[Min(best)]
  BY DEF BestPeerToRetryBatch
<1>5. best # {}
  <2> DEFINE fails == {failed(order[i]) : i \in DOMAIN order}
  <2>1. fails \in SUBSET Nat /\ fails # {}
    BY <1>1
  <2>2. PICK f \in fails : \A g \in fails : f <= g
    <3> HIDE DEF fails
    <3> QED BY <2>1, LeastNatural
  <2> DEFINE actives == {active(order[i]) : i \in {j \in DOMAIN order : failed(order[j]) = f}}
  <2> HIDE DEF active, failed
  <2>3. actives \in SUBSET Nat /\ actives # {}
    BY <1>3, <2>2
  <2>4. PICK a \in actives : \A g \in actives : a <= g
    <3> HIDE DEF actives
    <3> QED BY <2>3, LeastNatural
  <2>5. PICK i \in DOMAIN order : failed(order[i]) = f /\ active(order[i]) = a
    BY <2>4
  <2>6. ASSUME NEW j \in DOMAIN order, better(order[j], order[i]) PROVE FALSE
    <3>1. failed(order[i]) <= failed(order[j]) /\ failed(order[i]) \in Nat /\ failed(order[j]) \in Nat
      BY <1>3, <2>2, <2>5
    <3>2. failed(order[j]) = failed(order[i]) /\ active(order[j]) < active(order[i])
      BY <2>6, <3>1
    <3>3. active(order[i]) <= active(order[j]) /\ active(order[i]) \in Nat /\ active(order[j]) \in Nat
      BY <1>3, <2>4, <2>5, <3>2
    <3> QED BY <3>2, <3>3
  <2> QED BY <2>5, <2>6
<1> HIDE DEF better
<1>6. best \in SUBSET Nat
  BY <1>1
<1> HIDE DEF best
<1>7. PICK i \in best : \A j \in best : i <= j
  BY <1>5, <1>6, LeastNatural
<1>8. Min(best) \in best
  BY <1>7 DEF Min
<1>9. Min(best) \in DOMAIN order
  BY <1>8 DEF best
<1> QED BY <1>4, <1>9

\* The stage of a batch by its status.
LEMMA StageIs ==
  ASSUME NEW b
  PROVE  /\ b.status = "AwaitingValidation" => Stage(b) = 1
         /\ b.status = "Processing" => Stage(b) = 2
         /\ b.status \notin {"AwaitingValidation", "Processing"} => Stage(b) = 3
BY DEF Stage

\* The batches after those that can be requested again were.
Retried(bs, order) ==
  [i \in DOMAIN bs |->
     IF bs[i].status = "AwaitingDownload" /\ order # <<>>
     THEN StartDownloading(bs[i], BestPeerToRetryBatch(bs, bs[i], order))
     ELSE bs[i]]

\* They are the window they were.
LEMMA RetriedFits ==
  ASSUME NEW start \in Nat, NEW bs, Fits(bs, start), NEW order \in Seq(Peer)
  PROVE  /\ Fits(Retried(bs, order), start) /\ Extends(Retried(bs, order), bs)
         /\ Len(Retried(bs, order)) = Len(bs)
<1> DEFINE retried == Retried(bs, order)
<1>1. /\ bs \in Seq(Batch) /\ Len(bs) \in Nat /\ DOMAIN bs = 1..Len(bs)
      /\ \A i \in DOMAIN bs : bs[i] \in Batch
  BY DEF Fits
<1>2. ASSUME NEW i \in DOMAIN bs
      PROVE  /\ retried[i] \in Batch /\ retried[i].startEpoch = bs[i].startEpoch
             /\ retried[i] = bs[i] \/ IsRetried(retried[i], bs[i])
  <2>1. CASE bs[i].status = "AwaitingDownload" /\ order # <<>>
    <3> DEFINE p == BestPeerToRetryBatch(bs, bs[i], order)
    <3>1. p \in Peer /\ retried[i] = StartDownloading(bs[i], p)
      BY <1>1, <2>1, BestPeerIsPeer DEF Retried
    <3> HIDE DEF p, retried
    <3> QED BY <1>1, <2>1, <3>1, StartDownloadingBatch DEF SameAttempts, IsRetried
  <2>2. CASE ~(bs[i].status = "AwaitingDownload" /\ order # <<>>)
    <3>1. retried[i] = bs[i]
      BY <2>2 DEF Retried
    <3> HIDE DEF retried
    <3> QED BY <1>1, <3>1
  <2> QED BY <2>1, <2>2
<1>3. DOMAIN retried = 1..Len(bs) /\ retried = [i \in 1..Len(bs) |-> retried[i]]
  BY <1>1 DEF Retried
<1> HIDE DEF retried
<1>4. retried \in Seq(Batch) /\ Len(retried) = Len(bs)
  <2>1. retried \in [1..Len(bs) -> Batch]
    BY <1>1, <1>2, <1>3
  <2> QED BY <1>1, <2>1
<1>5. Window(retried, start)
  BY <1>1, <1>2, <1>3 DEF Window, Fits
<1>6. Extends(retried, bs)
  BY <1>1, <1>2, <1>4 DEF Extends
<1> QED BY <1>4, <1>5, <1>6 DEF Fits, retried

\* requestBatches lets the peers take new batches one after the other.
LEMMA RequestedSteps ==
  ASSUME NEW bs, NEW start, NEW tgt, NEW order, Len(order) \in Nat
  PROVE  LET included == Included(bs, start, tgt, order, Retried(bs, order))
         IN  /\ Requested(bs, start, tgt, order) = included[Len(order)]
             /\ included[0] = Retried(bs, order)
             /\ \A n \in 1..Len(order) :
                  included[n] = IF ActiveRequests(bs, order[n]) > 0 THEN included[n - 1]
                                ELSE IncludeNextBatch(start, tgt, included[n - 1], order[n])
<1> DEFINE retried == Retried(bs, order)
<1>1. Requested(bs, start, tgt, order) = IncludeNextBatches(bs, start, tgt, order, retried)
  BY DEF Requested, Retried
<1> HIDE DEF retried
<1> QED BY <1>1, IncludedSteps DEF retried

\* requestBatches keeps the window and only requests.
LEMMA RequestedFits ==
  ASSUME NEW start \in Nat, NEW tgt, NEW bs, Fits(bs, start), NEW order \in Seq(Peer)
  PROVE  /\ Fits(Requested(bs, start, tgt, order), start)
         /\ Extends(Requested(bs, start, tgt, order), bs)
<1> DEFINE included == Included(bs, start, tgt, order, Retried(bs, order))
           Good == {n \in 0..Len(order) : Fits(included[n], start) /\ Extends(included[n], bs)}
<1>1. bs \in Seq(Batch) /\ Len(bs) \in Nat /\ DOMAIN bs = 1..Len(bs)
  BY DEF Fits
<1>i. /\ Requested(bs, start, tgt, order) = included[Len(order)]
      /\ included[0] = Retried(bs, order)
      /\ \A n \in 1..Len(order) :
           \/ included[n] = included[n - 1]
           \/ included[n] = IncludeNextBatch(start, tgt, included[n - 1], order[n])
  <2>1. Len(order) \in Nat
    OBVIOUS
  <2> QED BY <2>1, RequestedSteps
<1> HIDE DEF included
<1>5. 0 \in Good
  BY <1>i, RetriedFits
<1>6. ASSUME NEW n \in 0..(Len(order) - 1), n \in Good
      PROVE  n + 1 \in Good
  <2> DEFINE old == included[n]
             new == included[n + 1]
  <2>1. n \in Nat /\ n + 1 \in 1..Len(order) /\ (n + 1) - 1 = n /\ n + 1 \in 0..Len(order)
    OBVIOUS
  <2>2. Fits(old, start) /\ Extends(old, bs) /\ order[n + 1] \in Peer
    BY <1>6, <2>1
  <2>3. new = old \/ new = IncludeNextBatch(start, tgt, old, order[n + 1])
    BY <1>i, <2>1
  <2> HIDE DEF old, new
  <2>4. /\ Fits(new, start)
        /\ new = old
             \/ /\ Len(new) = Len(old) + 1
                /\ \A i \in 1..Len(old) : new[i] = old[i]
                /\ IsNew(new[Len(old) + 1])
    BY <2>2, <2>3, IncludeNextBatchFits
  <2>5. Extends(new, bs)
    <3>1. CASE new = old
      BY <2>2, <3>1
    <3>2. CASE new # old
      <4>1. Len(old) \in Nat /\ Len(bs) <= Len(old)
        BY <2>2 DEF Fits, Extends
      <4>2. ASSUME NEW i \in (Len(bs) + 1)..Len(new) PROVE IsNew(new[i])
        <5>1. i \in (Len(bs) + 1)..Len(old) \/ i = Len(old) + 1
          BY <1>1, <2>4, <3>2, <4>1
        <5>2. i \in (Len(bs) + 1)..Len(old) => i \in 1..Len(old)
          BY <1>1, <4>1
        <5> QED BY <2>2, <2>4, <3>2, <5>1, <5>2 DEF Extends
      <4>3. ASSUME NEW i \in 1..Len(bs) PROVE new[i] = bs[i] \/ IsRetried(new[i], bs[i])
        <5>1. i \in 1..Len(old)
          BY <1>1, <4>1
        <5>2. new[i] = old[i] /\ (old[i] = bs[i] \/ IsRetried(old[i], bs[i]))
          BY <2>2, <2>4, <3>2, <5>1 DEF Extends
        <5> QED BY <5>2
      <4>4. Len(bs) <= Len(new)
        BY <1>1, <2>4, <3>2, <4>1
      <4> QED BY <4>2, <4>3, <4>4 DEF Extends
    <3> QED BY <3>1, <3>2
  <2> QED BY <2>1, <2>4, <2>5 DEF new
<1>7. Len(order) \in Good
  <2> HIDE DEF Good
  <2>1. 0..Len(order) \subseteq Good
    BY <1>5, <1>6, Induction
  <2> QED BY <2>1
<1> QED BY <1>i, <1>7

\* Each batch that waits for an answer or is in another state of the old
\* sequence keeps its place, and a batch of the new one is an old or a new one.
LEMMA ExtendsFacts ==
  ASSUME NEW start \in Nat, NEW bs, NEW new, Fits(bs, start), Fits(new, start), Extends(new, bs)
  PROVE  /\ DOMAIN bs = 1..Len(bs) /\ DOMAIN new = 1..Len(new)
         /\ Len(bs) \in Nat /\ Len(new) \in Nat /\ Len(bs) <= Len(new)
         /\ \A i \in DOMAIN new :
              \/ i \in DOMAIN bs /\ new[i] = bs[i]
              \/ /\ i \in DOMAIN bs /\ bs[i].status = "AwaitingDownload"
                 /\ new[i].status = "Downloading" /\ SameAttempts(new[i], bs[i])
              \/ /\ i > Len(bs) /\ new[i].status = "Downloading"
                 /\ new[i].failedDownloadAttempts = <<>>
                 /\ new[i].failedProcessingAttempts = <<>>
                 /\ new[i].executionErrorAttempts = 0
         /\ \A i \in DOMAIN bs :
              i \in DOMAIN new /\ (bs[i].status # "AwaitingDownload" => new[i] = bs[i])
<1>1. /\ DOMAIN bs = 1..Len(bs) /\ DOMAIN new = 1..Len(new)
      /\ Len(bs) \in Nat /\ Len(new) \in Nat /\ Len(bs) <= Len(new)
      /\ \A i \in DOMAIN bs : bs[i] \in Batch
  BY DEF Fits, Extends
<1>2. \A i \in DOMAIN new : i \in DOMAIN bs \/ i \in (Len(bs) + 1)..Len(new)
  BY <1>1
<1>3. ASSUME NEW i \in DOMAIN bs
      PROVE  \/ new[i] = bs[i]
             \/ /\ bs[i].status = "AwaitingDownload"
                /\ new[i].status = "Downloading" /\ SameAttempts(new[i], bs[i])
  BY <1>1, StartDownloadingBatch DEF Extends, IsRetried
<1>4. ASSUME NEW i \in (Len(bs) + 1)..Len(new)
      PROVE  /\ i > Len(bs) /\ new[i].status = "Downloading"
             /\ new[i].failedDownloadAttempts = <<>>
             /\ new[i].failedProcessingAttempts = <<>>
             /\ new[i].executionErrorAttempts = 0
  <2>1. IsNew(new[i]) /\ i > Len(bs)
    BY <1>1 DEF Extends
  <2> QED BY <2>1, NewBatchIsBatch, StartDownloadingBatch DEF IsNew, SameAttempts
<1>5. \A i \in DOMAIN bs : i \in DOMAIN new
  BY <1>1
<1> QED BY <1>1, <1>2, <1>3, <1>4, <1>5

\* The epochs of a window are distinct.
LEMMA EpochsDiffer ==
  ASSUME NEW start \in Nat, NEW bs, Fits(bs, start),
         NEW i \in DOMAIN bs, NEW j \in DOMAIN bs
  PROVE  bs[i].startEpoch <= bs[j].startEpoch <=> i <= j
<1>1. /\ bs[i].startEpoch = start + (i - 1) * EPOCHS_PER_BATCH
      /\ bs[j].startEpoch = start + (j - 1) * EPOCHS_PER_BATCH
  BY DEF Fits, Window
<1>2. i - 1 \in Nat /\ j - 1 \in Nat /\ i \in Nat /\ j \in Nat
  BY DEF Fits
<1>3. i - 1 <= j - 1 <=> (i - 1) * EPOCHS_PER_BATCH <= (j - 1) * EPOCHS_PER_BATCH
  BY <1>2, ProductGrows
<1>4. (i - 1) * EPOCHS_PER_BATCH \in Nat /\ (j - 1) * EPOCHS_PER_BATCH \in Nat
  BY <1>2, SyncChainAssumption
<1> DEFINE a == (i - 1) * EPOCHS_PER_BATCH
           b == (j - 1) * EPOCHS_PER_BATCH
<1> HIDE DEF a, b
<1>5. start + a <= start + b <=> a <= b
  BY <1>4 DEF a, b
<1> QED BY <1>1, <1>2, <1>3, <1>5 DEF a, b

\* The batches and downloads that triggerBatchDownloader leaves.
LEMMA DownloaderKeepsMatch ==
  ASSUME NEW start \in Nat, NEW bs, NEW new, Fits(bs, start), Fits(new, start), Extends(new, bs),
         NEW rs, Match(bs, rs), NEW more, more \subseteq rs \union NewRequests(bs, new)
  PROVE  Match(new, more)
<1> SUFFICES ASSUME NEW r \in more
             PROVE  \E i \in DOMAIN new : new[i].status = "Downloading" /\ r = RequestOf(new[i])
  BY DEF Match
<1>1. CASE r \in rs
  <2>1. PICK i \in DOMAIN bs : bs[i].status = "Downloading" /\ r = RequestOf(bs[i])
    BY <1>1 DEF Match
  <2>2. i \in DOMAIN new /\ new[i] = bs[i]
    BY <2>1, ExtendsFacts
  <2> QED BY <2>1, <2>2
<1>2. CASE r \in NewRequests(bs, new)
  BY <1>2 DEF NewRequests, ToSet
<1> QED BY <1>1, <1>2

\* It keeps the limits: a batch that is requested awaits no answer of before.
LEMMA DownloaderKeepsBounds ==
  ASSUME NEW start \in Nat, NEW bs, NEW new, Fits(bs, start), Fits(new, start), Extends(new, bs),
         NEW rs, NEW more, more \subseteq rs \union NewRequests(bs, new),
         NEW lp, Bounded(bs, rs, lp)
  PROVE  Bounded(new, more, lp)
<1> DEFINE D == MAX_BATCH_DOWNLOAD_ATTEMPTS
           P == MAX_BATCH_PROCESSING_ATTEMPTS
           Downloads(bs1, rs1, i) ==
             \/ Len(bs1[i].failedDownloadAttempts) <= D
             \/ /\ Len(bs1[i].failedDownloadAttempts) = D + 1
                /\ bs1[i].status = "Downloading" /\ RequestOf(bs1[i]) \notin rs1
           Processings(bs1, i) ==
             /\ Len(bs1[i].failedProcessingAttempts) <= P + 1
             /\ bs1[i].executionErrorAttempts <= P + 1
             /\ lp # "ended" => /\ Len(bs1[i].failedProcessingAttempts) <= P
                                /\ bs1[i].executionErrorAttempts <= P
<1>1. \A i \in DOMAIN bs : Downloads(bs, rs, i) /\ Processings(bs, i)
  BY DEF Bounded
<1>2. D \in Nat /\ P \in Nat
  BY SyncChainAssumption
<1> SUFFICES ASSUME NEW i \in DOMAIN new PROVE Downloads(new, more, i) /\ Processings(new, i)
  BY DEF Bounded
<1>3. \/ i \in DOMAIN bs /\ new[i] = bs[i]
      \/ /\ i \in DOMAIN bs /\ bs[i].status = "AwaitingDownload"
         /\ new[i].status = "Downloading" /\ SameAttempts(new[i], bs[i])
      \/ /\ new[i].status = "Downloading"
         /\ new[i].failedDownloadAttempts = <<>>
         /\ new[i].failedProcessingAttempts = <<>>
         /\ new[i].executionErrorAttempts = 0
  BY ExtendsFacts
<1>4. CASE i \in DOMAIN bs /\ new[i] = bs[i]
  <2>1. ASSUME bs[i].status = "Downloading", RequestOf(bs[i]) \notin rs
        PROVE  RequestOf(new[i]) \notin more
    <3> SUFFICES ASSUME RequestOf(bs[i]) \in NewRequests(bs, new) PROVE FALSE
      BY <1>4, <2>1
    <3>1. PICK c : /\ RequestOf(c) = RequestOf(bs[i])
                   /\ ~\E j \in DOMAIN bs : /\ bs[j].startEpoch = c.startEpoch
                                            /\ bs[j].status = "Downloading"
      BY DEF NewRequests
    <3>2. c.startEpoch = bs[i].startEpoch
      <4>1. RequestOf(c).startEpoch = RequestOf(bs[i]).startEpoch
        BY <3>1
      <4> QED BY <4>1 DEF RequestOf
    <3> QED BY <1>4, <2>1, <3>1, <3>2
  <2>2. Processings(new, i)
    BY <1>1, <1>4
  <2>3. Downloads(new, more, i)
    BY <1>1, <1>4, <2>1
  <2> QED BY <2>2, <2>3
<1>5. CASE /\ i \in DOMAIN bs /\ bs[i].status = "AwaitingDownload"
           /\ new[i].status = "Downloading" /\ SameAttempts(new[i], bs[i])
  BY <1>1, <1>5 DEF SameAttempts
<1>6. CASE /\ new[i].status = "Downloading"
           /\ new[i].failedDownloadAttempts = <<>>
           /\ new[i].failedProcessingAttempts = <<>>
           /\ new[i].executionErrorAttempts = 0
  <2>1. Len(<<>>) = 0
    OBVIOUS
  <2> QED BY <1>2, <1>6, <2>1
<1> QED BY <1>3, <1>4, <1>5, <1>6

\* It keeps the order of the statuses.
LEMMA DownloaderKeepsRun ==
  ASSUME NEW start \in Nat, NEW bs, NEW new, Fits(bs, start), Fits(new, start), Extends(new, bs),
         NEW st, NEW lp, Runs(st, lp, bs)
  PROVE  Runs(st, lp, new)
<1>f. /\ DOMAIN bs = 1..Len(bs) /\ DOMAIN new = 1..Len(new)
      /\ Len(bs) \in Nat /\ Len(new) \in Nat /\ Len(bs) <= Len(new)
  BY ExtendsFacts
<1>1. ASSUME NEW i \in DOMAIN new
      PROVE  /\ i \in DOMAIN bs => Stage(new[i]) = Stage(bs[i])
             /\ i \notin DOMAIN bs => Stage(new[i]) = 3
             /\ new[i].status = "Processing" => i \in DOMAIN bs /\ bs[i].status = "Processing"
  <2>1. \/ i \in DOMAIN bs /\ new[i] = bs[i]
        \/ /\ i \in DOMAIN bs /\ bs[i].status = "AwaitingDownload"
           /\ new[i].status = "Downloading"
        \/ i > Len(bs) /\ new[i].status = "Downloading"
    BY ExtendsFacts
  <2>2. i > Len(bs) => i \notin DOMAIN bs
    BY <1>f
  <2>3. new[i].status = "Downloading" => Stage(new[i]) = 3
    BY StageIs
  <2>4. bs[i].status = "AwaitingDownload" => Stage(bs[i]) = 3
    BY StageIs
  <2> QED BY <2>1, <2>2, <2>3, <2>4
<1>2. ASSUME ValidStatuses(bs) PROVE ValidStatuses(new)
  <2> SUFFICES ASSUME NEW i \in DOMAIN new, NEW j \in DOMAIN new, i < j
               PROVE  Stage(new[i]) <= Stage(new[j]) /\ ~(Stage(new[i]) = 2 /\ Stage(new[j]) = 2)
    BY DEF ValidStatuses
  <2>1. CASE j \in DOMAIN bs
    <3>1. i \in DOMAIN bs
      BY <1>f, <2>1
    <3> QED BY <1>1, <1>2, <2>1, <3>1 DEF ValidStatuses
  <2>2. CASE j \notin DOMAIN bs
    <3>1. Stage(new[j]) = 3 /\ Stage(new[i]) \in {1, 2, 3}
      BY <1>1, <2>2 DEF Stage
    <3> QED BY <3>1
  <2> QED BY <2>1, <2>2
<1>3. ASSUME \E i \in DOMAIN bs : bs[i].status = "Processing"
      PROVE  \E i \in DOMAIN new : new[i].status = "Processing"
  BY <1>3, ExtendsFacts
<1> QED BY <1>1, <1>2, <1>3 DEF Runs

\* The orders in which the peers may be shuffled.
LEMMA OrdersOfPeers ==
  ASSUME NEW peers \in Seq(PeerEntry), NEW order \in SetToSeqs(PeersOf(peers))
  PROVE  order \in Seq(Peer)
<1>1. PeersOf(peers) \subseteq Peer
  <2> SUFFICES ASSUME NEW i \in DOMAIN peers PROVE peers[i].peer \in Peer
    BY DEF PeersOf, ToSet
  <2>1. peers[i] \in PeerEntry
    OBVIOUS
  <2> QED BY <2>1 DEF PeerEntry
<1>2. IsFiniteSet(PeersOf(peers))
  BY <1>1, SyncChainAssumption, FS_Subset
<1>3. Cardinality(PeersOf(peers)) \in Nat
  BY <1>2, FS_CardinalityType
<1> DEFINE n == Cardinality(PeersOf(peers))
<1>4. order \in [1..n -> PeersOf(peers)]
  BY DEF SetToSeqs
<1> HIDE DEF n
<1>5. order \in [1..n -> Peer] /\ n \in Nat
  BY <1>1, <1>3, <1>4 DEF n
<1> QED BY <1>5

\* What holds of the mid-state of a handler holds after the downloader.
LEMMA TriggerBatchDownloaderKeeps ==
  ASSUME NEW start \in Nat, NEW tgt, NEW bs, Fits(bs, start), NEW peers \in Seq(PeerEntry),
         NEW st, NEW rs, Match(bs, rs), NEW lp, Bounded(bs, rs, lp), NEW st2, Runs(st2, lp, bs),
         TriggerBatchDownloader(st, bs, start, tgt, peers, rs)
  PROVE  /\ Fits(batches', start) /\ Match(batches', requests')
         /\ Bounded(batches', requests', lp) /\ Runs(st2, lp, batches')
<1>1. CASE st # "Syncing"
  BY <1>1 DEF TriggerBatchDownloader
<1>2. CASE st = "Syncing"
  <2>1. PICK order \in SetToSeqs(PeersOf(peers)) :
          /\ batches' = Requested(bs, start, tgt, order)
          /\ requests' = rs \union NewRequests(bs, Requested(bs, start, tgt, order))
    BY <1>2 DEF TriggerBatchDownloader
  <2>2. Fits(batches', start) /\ Extends(batches', bs)
    BY <2>1, OrdersOfPeers, RequestedFits
  <2>3. requests' \subseteq rs \union NewRequests(bs, batches')
    BY <2>1
  <2> QED BY <2>2, <2>3, DownloaderKeepsMatch, DownloaderKeepsBounds, DownloaderKeepsRun
<1> QED BY <1>1, <1>2

-----------------------------------------------------------------------------
(* The loop. *)

ControlNow == Control(status, loop, iterError, inRangeSync) /\ triggered \in BOOLEAN

\* What a step of the loop or of its end means for the batches.
ControlStep ==
  /\ Control(status', loop', iterError', inRangeSync') /\ triggered' \in BOOLEAN
  /\ \A bs : Runs(status, loop, bs) => Runs(status', loop', bs)
  /\ loop = "ended" => loop' = "ended"

\* A trigger never leaves the loop.
LEMMA TriggerIsStep ==
  ASSUME ControlNow, Trigger
  PROVE  ControlStep
<1>1. /\ status' = status /\ iterError' = iterError /\ inRangeSync' = inRangeSync
      /\ loop' = IF loop = "waiting" THEN "woken" ELSE loop
      /\ triggered' \in BOOLEAN
  BY DEF Trigger
<1>2. Control(status', loop', iterError', inRangeSync')
  BY <1>1 DEF ControlNow, Control
<1>3. ASSUME NEW bs, Runs(status, loop, bs) PROVE Runs(status', loop', bs)
  BY <1>1, <1>3 DEF Runs, ControlNow, Control
<1> QED BY <1>1, <1>2, <1>3 DEF ControlStep

\* An end with an error of the chain, or of one that is removed.
LEMMA EndIsStep ==
  ASSUME ControlNow, NEW error, NEW present \in BOOLEAN, End(error, present),
         error \notin {"WrongStatus", "BadOrder"}, present => inRangeSync,
         error = "Aborted" => ~present
  PROVE  ControlStep
<1>1. CASE loop = "waiting"
  <2>1. /\ loop' = "ended" /\ iterError' = error /\ triggered' = triggered
        /\ status' = status \/ (error # "Aborted" /\ status' = "Error")
        /\ inRangeSync' = FALSE
    BY <1>1 DEF End, Leave
  <2>2. ASSUME NEW bs, Runs(status, loop, bs) PROVE Runs(status', loop', bs)
    BY <1>1, <2>1, <2>2 DEF Runs
  <2> QED BY <1>1, <2>1, <2>2 DEF ControlStep, ControlNow, Control
<1>2. CASE loop # "waiting"
  <2>1. /\ iterError' = error /\ inRangeSync' = present
        /\ loop' = loop /\ triggered' = triggered /\ status' = status
    BY <1>2 DEF End
  <2> QED BY <2>1 DEF ControlStep, ControlNow, Control
<1> QED BY <1>1, <1>2

\* A handler that does not touch the loop.
LEMMA NoStepIsStep ==
  ASSUME ControlNow, UNCHANGED loopVars
  PROVE  ControlStep
BY DEF ControlStep, ControlNow, loopVars

\* The update after a peer joined starts a chain that is stopped, or ends one
\* whose target is known.
LEMMA JoinIsStep ==
  ASSUME ControlNow, inRangeSync, NEW tgt, UpdateAfterJoin(tgt)
  PROVE  ControlStep
<1>1. CASE IsKnown(tgt)
  BY <1>1, EndIsStep DEF UpdateAfterJoin
<1>2. CASE ~IsKnown(tgt) /\ status = "Stopped"
  <2>1. /\ status' = "Syncing" /\ loop' = "woken" /\ triggered' = triggered
        /\ iterError' = iterError /\ inRangeSync' = inRangeSync
    BY <1>2 DEF UpdateAfterJoin
  <2>2. ASSUME NEW bs, Runs(status, loop, bs) PROVE Runs(status', loop', bs)
    BY <1>2, <2>1, <2>2 DEF Runs
  <2> QED BY <2>1, <2>2 DEF ControlStep, ControlNow, Control
<1>3. CASE ~IsKnown(tgt) /\ status # "Stopped"
  BY <1>3, NoStepIsStep DEF UpdateAfterJoin
<1> QED BY <1>1, <1>2, <1>3

\* The loop calls next() after a round that left no batch in process.
LEMMA NextIterationKeeps ==
  ASSUME ControlNow, loop # "ended", NEW flag \in BOOLEAN, NextIteration(flag),
         NEW bs, Runs(status, "woken", bs)
  PROVE  /\ Control(status', loop', iterError', inRangeSync') /\ triggered' \in BOOLEAN
         /\ Runs(status', loop', bs)
<1>1. CASE iterError # "none"
  <2>1. /\ loop' = "ended" /\ iterError' = iterError /\ triggered' = triggered
        /\ status' = status \/ status' = "Error"
        /\ inRangeSync' = (iterError = "Aborted" /\ inRangeSync)
    BY <1>1 DEF NextIteration, Throw, Leave
  <2> QED BY <2>1 DEF ControlNow, Control, Runs
<1>2. CASE iterError = "none"
  <2>1. /\ loop' \in {"woken", "waiting"} /\ triggered' = FALSE /\ iterError' = iterError
        /\ status' = status /\ inRangeSync' = inRangeSync
    BY <1>2 DEF NextIteration
  <2> QED BY <2>1 DEF ControlNow, Control, Runs
<1> QED BY <1>1, <1>2

\* The loop throws.
LEMMA ThrowKeeps ==
  ASSUME ControlNow, NEW error, error \notin {"WrongStatus", "BadOrder", "Aborted"}, Throw(error)
  PROVE  /\ Control(status', loop', iterError', inRangeSync') /\ triggered' \in BOOLEAN
         /\ loop' = "ended" /\ \A bs : Runs(status', loop', bs)
<1>1. /\ loop' = "ended" /\ iterError' = error /\ triggered' = triggered
      /\ status' = "Error" /\ inRangeSync' = FALSE
  BY DEF Throw, Leave
<1> QED BY <1>1 DEF ControlNow, Control, Runs

\* A bound for a loop that runs is one for a loop that ended.
LEMMA BoundedStays ==
  ASSUME NEW bs, NEW rs, NEW lp, NEW lp2, Bounded(bs, rs, lp), lp = "ended" => lp2 = "ended"
  PROVE  Bounded(bs, rs, lp2)
BY DEF Bounded

-----------------------------------------------------------------------------
(* Batches that are replaced. *)

\* A batch that is replaced by one of the same epoch keeps the window.
LEMMA ReplacedFits ==
  ASSUME NEW start, NEW bs, Fits(bs, start), NEW i \in DOMAIN bs,
         NEW b \in Batch, b.startEpoch = bs[i].startEpoch
  PROVE  /\ Fits([bs EXCEPT ![i] = b], start)
         /\ DOMAIN [bs EXCEPT ![i] = b] = DOMAIN bs
         /\ Len([bs EXCEPT ![i] = b]) = Len(bs)
         /\ [bs EXCEPT ![i] = b][i] = b
         /\ \A j \in DOMAIN bs : j # i => [bs EXCEPT ![i] = b][j] = bs[j]
<1> DEFINE new == [bs EXCEPT ![i] = b]
<1>1. /\ new \in Seq(Batch) /\ DOMAIN new = DOMAIN bs /\ Len(new) = Len(bs)
      /\ new[i] = b /\ \A j \in DOMAIN bs : j # i => new[j] = bs[j]
  BY DEF Fits
<1> HIDE DEF new
<1>2. Window(new, start)
  BY <1>1 DEF Fits, Window
<1> QED BY <1>1, <1>2 DEF Fits, new

\* One of the same stage keeps the order of the statuses.
LEMMA ReplacedRuns ==
  ASSUME NEW bs, NEW i \in DOMAIN bs, NEW new, DOMAIN new = DOMAIN bs,
         \A j \in DOMAIN bs : j # i => new[j] = bs[j],
         Stage(new[i]) = Stage(bs[i]),
         new[i].status = "Processing" <=> bs[i].status = "Processing",
         NEW st, NEW lp, Runs(st, lp, bs)
  PROVE  Runs(st, lp, new)
<1>1. \A j \in DOMAIN bs : /\ Stage(new[j]) = Stage(bs[j])
                           /\ new[j].status = "Processing" <=> bs[j].status = "Processing"
  OBVIOUS
<1>2. ValidStatuses(bs) => ValidStatuses(new)
  BY <1>1 DEF ValidStatuses
<1> QED BY <1>1, <1>2 DEF Runs

\* One that awaits no answer keeps the others' requests.
LEMMA ReplacedMatch ==
  ASSUME NEW bs, NEW i \in DOMAIN bs, NEW new, DOMAIN new = DOMAIN bs,
         \A j \in DOMAIN bs : j # i => new[j] = bs[j],
         NEW rs, Match(bs, rs), NEW less, less \subseteq rs,
         \A r \in less : bs[i].status = "Downloading" => r # RequestOf(bs[i])
  PROVE  Match(new, less)
<1> SUFFICES ASSUME NEW r \in less
             PROVE  \E j \in DOMAIN new : new[j].status = "Downloading" /\ r = RequestOf(new[j])
  BY DEF Match
<1>1. PICK j \in DOMAIN bs : bs[j].status = "Downloading" /\ r = RequestOf(bs[j])
  BY DEF Match
<1>2. j # i
  BY <1>1
<1> QED BY <1>1, <1>2

\* The attempts of one batch.
BoundedBatch(b, rs, lp) ==
  /\ Len(b.failedDownloadAttempts) <= MAX_BATCH_DOWNLOAD_ATTEMPTS
       \/ /\ Len(b.failedDownloadAttempts) = MAX_BATCH_DOWNLOAD_ATTEMPTS + 1
          /\ b.status = "Downloading" /\ RequestOf(b) \notin rs
  /\ Len(b.failedProcessingAttempts) <= MAX_BATCH_PROCESSING_ATTEMPTS + 1
  /\ b.executionErrorAttempts <= MAX_BATCH_PROCESSING_ATTEMPTS + 1
  /\ lp # "ended" =>
       /\ Len(b.failedProcessingAttempts) <= MAX_BATCH_PROCESSING_ATTEMPTS
       /\ b.executionErrorAttempts <= MAX_BATCH_PROCESSING_ATTEMPTS

\* The limits hold batch by batch.
LEMMA BoundedIs ==
  ASSUME NEW bs, NEW rs, NEW lp
  PROVE  Bounded(bs, rs, lp) <=> \A i \in DOMAIN bs : BoundedBatch(bs[i], rs, lp)
BY DEF Bounded, BoundedBatch

\* A batch within its limits can replace another one.
LEMMA ReplacedBounds ==
  ASSUME NEW bs, NEW i \in DOMAIN bs, NEW new, DOMAIN new = DOMAIN bs,
         \A j \in DOMAIN bs : j # i => new[j] = bs[j],
         NEW rs, NEW lp, Bounded(bs, rs, lp), NEW less, less \subseteq rs,
         BoundedBatch(new[i], less, lp)
  PROVE  Bounded(new, less, lp)
<1>1. \A j \in DOMAIN bs : BoundedBatch(bs[j], rs, lp)
  BY BoundedIs
<1>2. \A b : BoundedBatch(b, rs, lp) => BoundedBatch(b, less, lp)
  BY DEF BoundedBatch
<1>3. \A j \in DOMAIN new : BoundedBatch(new[j], less, lp)
  BY <1>1, <1>2
<1> QED BY <1>3, BoundedIs

-----------------------------------------------------------------------------
(* Peers and downloads. *)

\* Peers and target.
LEMMA MostCommonTargetIsTarget ==
  ASSUME NEW peers \in Seq(PeerEntry), peers # <<>>
  PROVE  MostCommonTarget(peers) \in Targets
<1> DEFINE count(i) ==
             Cardinality({j \in 1..i : peers[j].target = peers[i].target})
           counts == {count(i) : i \in DOMAIN peers}
           first == {i \in DOMAIN peers : count(i) = Max(counts)}
<1>1. /\ Len(peers) \in Nat /\ DOMAIN peers = 1..Len(peers) /\ 1 \in DOMAIN peers
      /\ \A i \in DOMAIN peers : peers[i] \in PeerEntry
  OBVIOUS
<1>2. ASSUME NEW i \in DOMAIN peers
      PROVE  count(i) \in Nat /\ count(i) <= Len(peers)
  <2> DEFINE D == {j \in 1..i : peers[j].target = peers[i].target}
  <2>1. i \in Nat /\ i <= Len(peers) /\ D \subseteq 1..i
    BY <1>1
  <2>2. IsFiniteSet(1..i) /\ Cardinality(1..i) = i
    BY <2>1, FS_Interval
  <2>3. IsFiniteSet(D) /\ Cardinality(D) <= i
    BY <2>1, <2>2, FS_Subset
  <2>4. Cardinality(D) \in Nat
    BY <2>3, FS_CardinalityType
  <2> QED BY <1>1, <2>1, <2>3, <2>4
<1>3. MostCommonTarget(peers) = peers[Min(first)].target
  BY DEF MostCommonTarget
<1> HIDE DEF count
<1>4. counts \in SUBSET Nat /\ counts # {} /\ \A k \in counts : k <= Len(peers)
  BY <1>1, <1>2
<1> HIDE DEF counts
<1>5. PICK m \in counts : \A k \in counts : k <= m
  BY <1>1, <1>4, GreatestNatural
<1>6. Max(counts) \in counts
  <2>1. \A k \in counts : m >= k
    BY <1>4, <1>5
  <2> QED BY <1>5, <2>1 DEF Max
<1>7. first \in SUBSET Nat /\ first # {}
  <2>1. PICK i \in DOMAIN peers : Max(counts) = count(i)
    BY <1>6 DEF counts
  <2>2. first \subseteq DOMAIN peers /\ i \in first
    BY <2>1
  <2> QED BY <1>1, <2>2
<1> HIDE DEF first
<1>8. PICK i \in first : \A j \in first : i <= j
  BY <1>7, LeastNatural
<1>9. Min(first) \in first
  BY <1>8 DEF Min
<1>10. Min(first) \in DOMAIN peers
  BY <1>9 DEF first
<1> QED BY <1>1, <1>3, <1>10 DEF PeerEntry

\* The target is that of a peer, or stays.
LEMMA ComputeTargetIsNatural ==
  ASSUME target \in Nat, NEW peers \in Seq(PeerEntry)
  PROVE  ComputeTarget(peers) \in Nat
BY MostCommonTargetIsTarget, SyncChainAssumption DEF ComputeTarget

\* A chain begins with no batch.
LEMMA InitIInv == Init => SyncIInv
<1> SUFFICES ASSUME Init PROVE SyncIInv
  OBVIOUS
<1>1. startEpoch \in Nat /\ target \in Nat /\ triggered \in BOOLEAN
  BY SyncChainAssumption DEF Init
<1>2. peerset = <<>> /\ batches = <<>> /\ requests = {}
  BY DEF Init
<1>3. Control(status, loop, iterError, inRangeSync)
  BY DEF Init, Control
<1>4. Fits(batches, startEpoch)
  BY <1>2 DEF Fits, Window
<1>5. Match(batches, requests) /\ Bounded(batches, requests, loop)
  BY <1>2 DEF Match, Bounded
<1>6. Runs(status, loop, batches)
  BY <1>2 DEF Init, Runs, ValidStatuses
<1>7. peerset \in Seq(PeerEntry)
  BY <1>2
<1> QED BY <1>1, <1>3, <1>4, <1>5, <1>6, <1>7 DEF SyncIInv

\* A step of the loop, and the downloader on the batches of a mid-state.
LEMMA StepKeepsIInv ==
  ASSUME SyncIInv, ControlStep, startEpoch' = startEpoch, target' \in Nat,
         peerset' \in Seq(PeerEntry),
         NEW bs, Fits(bs, startEpoch), NEW rs, Match(bs, rs), Bounded(bs, rs, loop'),
         Runs(status, loop, bs), NEW st,
         TriggerBatchDownloader(st, bs, startEpoch, target', peerset', rs)
  PROVE  SyncIInv'
<1>1. Runs(status', loop', bs)
  BY DEF ControlStep
<1>2. startEpoch \in Nat
  BY DEF SyncIInv
<1>3. /\ Fits(batches', startEpoch) /\ Match(batches', requests')
      /\ Bounded(batches', requests', loop') /\ Runs(status', loop', batches')
  BY <1>1, <1>2, TriggerBatchDownloaderKeeps
<1> QED BY <1>2, <1>3 DEF ControlStep, SyncIInv

\* The peers stay peers with a target.
LEMMA SetPeerTyped ==
  ASSUME peerset \in Seq(PeerEntry), NEW p \in Peer, NEW tgt \in Targets
  PROVE  SetPeer(p, tgt) \in Seq(PeerEntry)
<1> DEFINE entry == [peer |-> p, target |-> tgt]
<1>1. entry \in PeerEntry
  BY DEF PeerEntry
<1>2. SetPeer(p, tgt) = IF p \in PeersOf(peerset)
                        THEN [i \in DOMAIN peerset |->
                                IF peerset[i].peer = p THEN entry ELSE peerset[i]]
                        ELSE Append(peerset, entry)
  BY DEF SetPeer
<1> HIDE DEF entry
<1>3. CASE p \in PeersOf(peerset)
  <2> DEFINE new == [i \in DOMAIN peerset |->
                       IF peerset[i].peer = p THEN entry ELSE peerset[i]]
  <2>1. DOMAIN peerset = 1..Len(peerset) /\ Len(peerset) \in Nat
        /\ \A i \in DOMAIN peerset : peerset[i] \in PeerEntry
    OBVIOUS
  <2>2. new \in [1..Len(peerset) -> PeerEntry]
    BY <1>1, <2>1
  <2>3. new \in Seq(PeerEntry)
    BY <2>1, <2>2
  <2> QED BY <1>2, <1>3, <2>3
<1>4. CASE p \notin PeersOf(peerset)
  BY <1>1, <1>2, <1>4
<1> QED BY <1>3, <1>4

\* A peer that joins starts the chain or gets batches to download.
LEMMA AddPeerIInv ==
  ASSUME SyncIInv, NEW p \in Peer, NEW tgt \in Targets, AddPeer(p, tgt)
  PROVE  SyncIInv'
<1>1. peerset' \in Seq(PeerEntry)
  BY SetPeerTyped DEF SyncIInv, AddPeer
<1>2. target' \in Nat
  BY <1>1, ComputeTargetIsNatural DEF SyncIInv, AddPeer
<1>3. ControlStep
  BY JoinIsStep DEF SyncIInv, ControlNow, AddPeer
<1>4. Bounded(batches, requests, loop')
  BY <1>3, BoundedStays DEF SyncIInv, ControlStep
<1>5. PICK st : TriggerBatchDownloader(st, batches, startEpoch, target', peerset', requests)
  BY DEF AddPeer
<1>6. startEpoch' = startEpoch
  BY DEF AddPeer
<1> QED BY <1>1, <1>2, <1>3, <1>4, <1>5, <1>6, StepKeepsIInv DEF SyncIInv

\* A peer that leaves only changes the target.
LEMMA RemovePeerIInv ==
  ASSUME SyncIInv, NEW p \in Peer, RemovePeer(p)
  PROVE  SyncIInv'
<1>1. peerset' \in Seq(PeerEntry)
  BY SelectionSelects DEF SyncIInv, RemovePeer
<1>2. target' \in Nat
  BY <1>1, ComputeTargetIsNatural DEF SyncIInv, RemovePeer
<1> QED BY <1>1, <1>2 DEF SyncIInv, RemovePeer, loopVars

\* The update of RangeSync ends a chain that is not needed.
LEMMA UpdateIInv ==
  ASSUME SyncIInv, Update
  PROVE  SyncIInv'
<1>1. ControlStep
  BY EndIsStep DEF SyncIInv, ControlNow, Update
<1>2. Bounded(batches, requests, loop')
  BY <1>1, BoundedStays DEF SyncIInv, ControlStep
<1> QED BY <1>1, <1>2 DEF SyncIInv, ControlStep, Update

\* The batch of an answer.
LEMMA BatchOfRequest ==
  ASSUME SyncIInv, NEW r \in requests, NEW i, i = CHOOSE j \in BatchOf(r) : TRUE
  PROVE  /\ BatchOf(r) # {} /\ i \in DOMAIN batches /\ batches[i] \in Batch
         /\ batches[i].status = "Downloading" /\ r = RequestOf(batches[i])
<1>1. PICK j \in DOMAIN batches : batches[j].status = "Downloading" /\ r = RequestOf(batches[j])
  BY DEF SyncIInv, Match
<1>2. r.startEpoch = batches[j].startEpoch
  BY <1>1 DEF RequestOf
<1>3. j \in BatchOf(r)
  BY <1>1, <1>2 DEF BatchOf
<1>4. i \in BatchOf(r)
  BY <1>3
<1>5. /\ i \in DOMAIN batches /\ batches[i].status = "Downloading"
      /\ batches[i].startEpoch = batches[j].startEpoch
  BY <1>2, <1>4 DEF BatchOf
<1>6. i = j
  <2>1. i \in Nat /\ j \in Nat /\ batches[i] \in Batch /\ batches[j] \in Batch
    BY <1>1, <1>5 DEF SyncIInv, Fits
  <2>2. /\ batches[i].startEpoch <= batches[j].startEpoch
        /\ batches[j].startEpoch <= batches[i].startEpoch
    BY <1>5, <2>1, BatchFields
  <2>3. i <= j /\ j <= i
    BY <1>1, <1>5, <2>2, EpochsDiffer DEF SyncIInv
  <2> QED BY <2>1, <2>3
<1>7. batches[i] \in Batch
  BY <1>5 DEF SyncIInv, Fits
<1>8. r = RequestOf(batches[i])
  BY <1>1, <1>6
<1> QED BY <1>3, <1>5, <1>7, <1>8

\* An answer finds the batch that awaits it.
LEMMA DownloadSucceedsIInv ==
  ASSUME SyncIInv, NEW r \in requests, NEW blocks \in Answers(r.peer, r.startEpoch),
         DownloadSucceeds(r, blocks)
  PROVE  SyncIInv'
<1> DEFINE i == CHOOSE j \in BatchOf(r) : TRUE
           b == DownloadingSuccess(batches[i], blocks)
           mid == [batches EXCEPT ![i] = b]
           less == requests \ {r}
<1>1. /\ BatchOf(r) # {} /\ i \in DOMAIN batches /\ batches[i] \in Batch
      /\ batches[i].status = "Downloading" /\ r = RequestOf(batches[i])
  BY BatchOfRequest
<1>2. /\ Trigger
      /\ TriggerBatchDownloader(status, mid, startEpoch, target, peerset, less)
      /\ UNCHANGED <<startEpoch, target, peerset>>
  BY <1>1 DEF DownloadSucceeds
<1> HIDE DEF i
<1>3. b \in Batch /\ SameAttempts(b, batches[i]) /\ b.status = "AwaitingProcessing"
  <2>1. r.startEpoch = batches[i].startEpoch
    BY <1>1 DEF RequestOf
  <2>2. blocks \in Answers(r.peer, batches[i].startEpoch)
    BY <2>1
  <2> QED BY <1>1, <2>2, DownloadedBatch
<1> HIDE DEF b
<1>4. /\ Fits(mid, startEpoch) /\ DOMAIN mid = DOMAIN batches /\ mid[i] = b
      /\ \A j \in DOMAIN batches : j # i => mid[j] = batches[j]
  BY <1>1, <1>3, ReplacedFits DEF SyncIInv, SameAttempts
<1> HIDE DEF mid
<1>5. Match(mid, less)
  BY <1>1, <1>4, ReplacedMatch DEF SyncIInv
<1>6. Bounded(mid, less, loop)
  <2>1. BoundedBatch(batches[i], requests, loop)
    BY <1>1, BoundedIs DEF SyncIInv
  <2>2. BoundedBatch(b, less, loop)
    BY <1>1, <1>3, <2>1 DEF BoundedBatch, SameAttempts
  <2> QED BY <1>1, <1>4, <2>2, ReplacedBounds DEF SyncIInv
<1>7. Runs(status, loop, mid)
  <2>1. Stage(b) = 3 /\ Stage(batches[i]) = 3
    BY <1>1, <1>3, StageIs
  <2> QED BY <1>1, <1>3, <1>4, <2>1, ReplacedRuns DEF SyncIInv
<1>8. ControlStep
  BY <1>2, TriggerIsStep DEF SyncIInv, ControlNow
<1>9. Bounded(mid, less, loop')
  BY <1>6, <1>8, BoundedStays DEF ControlStep
<1>10. target' \in Nat /\ peerset' \in Seq(PeerEntry) /\ startEpoch' = startEpoch
       /\ target' = target /\ peerset' = peerset
  BY <1>2 DEF SyncIInv
<1> QED BY <1>2, <1>4, <1>5, <1>7, <1>8, <1>9, <1>10, StepKeepsIInv

\* A failure finds it too, and ends the chain if it was the last attempt.
LEMMA DownloadFailsIInv ==
  ASSUME SyncIInv, NEW r \in requests, DownloadFails(r)
  PROVE  SyncIInv'
<1> DEFINE i == CHOOSE j \in BatchOf(r) : TRUE
           failed == WithFailedDownload(batches[i])
           exhausted == Len(failed.failedDownloadAttempts) > MAX_BATCH_DOWNLOAD_ATTEMPTS
           b == IF exhausted THEN failed ELSE Again(failed)
           mid == [batches EXCEPT ![i] = b]
           less == requests \ {r}
<1>1. /\ BatchOf(r) # {} /\ i \in DOMAIN batches /\ batches[i] \in Batch
      /\ batches[i].status = "Downloading" /\ r = RequestOf(batches[i])
  BY BatchOfRequest
<1>2. /\ IF exhausted THEN End("MaxDownloadAttempts", inRangeSync) ELSE UNCHANGED loopVars
      /\ TriggerBatchDownloader(status, mid, startEpoch, target, peerset, less)
      /\ UNCHANGED <<startEpoch, target, peerset>>
  BY <1>1 DEF DownloadFails
<1> HIDE DEF i
<1>3. /\ failed \in Batch /\ failed.startEpoch = batches[i].startEpoch
      /\ failed.status = "Downloading" /\ failed.peer = batches[i].peer
      /\ Len(failed.failedDownloadAttempts) = Len(batches[i].failedDownloadAttempts) + 1
      /\ failed.failedProcessingAttempts = batches[i].failedProcessingAttempts
      /\ failed.executionErrorAttempts = batches[i].executionErrorAttempts
  BY <1>1, FailedDownloadBatch
<1> HIDE DEF failed
<1>4. BoundedBatch(batches[i], requests, loop)
  BY <1>1, BoundedIs DEF SyncIInv
<1>5. /\ b \in Batch /\ b.startEpoch = batches[i].startEpoch
      /\ b.status \notin {"AwaitingValidation", "Processing"}
      /\ BoundedBatch(b, less, loop)
  <2>1. Len(batches[i].failedDownloadAttempts) \in Nat /\ MAX_BATCH_DOWNLOAD_ATTEMPTS \in Nat
    BY <1>1, BatchFields, SyncChainAssumption
  <2>2. CASE exhausted
    <3>1. b = failed /\ Len(failed.failedDownloadAttempts) = MAX_BATCH_DOWNLOAD_ATTEMPTS + 1
      BY <1>1, <1>3, <1>4, <2>1, <2>2 DEF BoundedBatch
    <3>2. RequestOf(failed) = r
      BY <1>1, <1>3 DEF RequestOf
    <3> QED BY <1>3, <1>4, <3>1, <3>2 DEF BoundedBatch
  <2>3. CASE ~exhausted
    <3>1. b = Again(failed) /\ Len(failed.failedDownloadAttempts) <= MAX_BATCH_DOWNLOAD_ATTEMPTS
      BY <1>3, <2>1, <2>3
    <3>2. b \in Batch /\ SameAttempts(b, failed) /\ b.status = "AwaitingDownload"
      BY <1>3, <3>1, AgainBatch
    <3> HIDE DEF b
    <3> QED BY <1>3, <1>4, <3>1, <3>2 DEF BoundedBatch, SameAttempts
  <2> QED BY <2>2, <2>3
<1> HIDE DEF b
<1>6. /\ Fits(mid, startEpoch) /\ DOMAIN mid = DOMAIN batches /\ mid[i] = b
      /\ \A j \in DOMAIN batches : j # i => mid[j] = batches[j]
  BY <1>1, <1>5, ReplacedFits DEF SyncIInv
<1> HIDE DEF mid
<1>7. Match(mid, less)
  BY <1>1, <1>6, ReplacedMatch DEF SyncIInv
<1>8. Bounded(mid, less, loop)
  BY <1>1, <1>5, <1>6, ReplacedBounds DEF SyncIInv
<1>9. Runs(status, loop, mid)
  <2>1. Stage(b) = 3 /\ Stage(batches[i]) = 3
    BY <1>1, <1>5, StageIs
  <2> QED BY <1>1, <1>5, <1>6, <2>1, ReplacedRuns DEF SyncIInv
<1>10. ControlStep
  <2>1. ControlNow /\ inRangeSync \in BOOLEAN
    BY DEF SyncIInv, ControlNow, Control
  <2>2. CASE exhausted
    BY <1>2, <2>1, <2>2, EndIsStep
  <2>3. CASE ~exhausted
    BY <1>2, <2>1, <2>3, NoStepIsStep
  <2> QED BY <2>2, <2>3
<1>11. Bounded(mid, less, loop')
  BY <1>8, <1>10, BoundedStays DEF ControlStep
<1>12. target' \in Nat /\ peerset' \in Seq(PeerEntry) /\ startEpoch' = startEpoch
       /\ target' = target /\ peerset' = peerset
  BY <1>2 DEF SyncIInv
<1> QED BY <1>2, <1>6, <1>7, <1>9, <1>10, <1>11, <1>12, StepKeepsIInv

-----------------------------------------------------------------------------
(* Iterations and advanceChain. *)

\* An iteration finds the statuses in order, and takes the first batch that is
\* downloaded.
LEMMA IterateIInv ==
  ASSUME SyncIInv, Iterate
  PROVE  SyncIInv'
<1>1. /\ loop = "woken"
      /\ UNCHANGED <<startEpoch, target, peerset, requests>>
      /\ ControlNow
  BY DEF Iterate, SyncIInv, ControlNow
<1>2. ASSUME NextIteration(triggered), UNCHANGED batches
      PROVE  SyncIInv'
  <2>1. Runs(status, "woken", batches) /\ triggered \in BOOLEAN
    BY <1>1 DEF SyncIInv
  <2>2. /\ Control(status', loop', iterError', inRangeSync') /\ triggered' \in BOOLEAN
        /\ Runs(status', loop', batches)
    BY <1>1, <1>2, <2>1, NextIterationKeeps
  <2>3. Bounded(batches, requests, loop')
    BY <1>1, BoundedStays DEF SyncIInv
  <2> QED BY <1>1, <1>2, <2>2, <2>3 DEF SyncIInv
<1>3. CASE status # "Syncing"
  BY <1>1, <1>2, <1>3 DEF Iterate
<1>4. CASE status = "Syncing"
  <2>1. ValidStatuses(batches)
    BY <1>4 DEF SyncIInv, Runs
  <2>2. CASE Finish
    <3>1. /\ loop' = "ended" /\ status' = "Synced" /\ inRangeSync' = FALSE
          /\ triggered' = triggered /\ iterError' = iterError /\ batches' = batches
      BY <2>2 DEF Finish
    <3>2. Runs(status', loop', batches')
      BY <3>1 DEF Runs
    <3>3. Bounded(batches, requests, "ended")
      BY <1>1, BoundedStays DEF SyncIInv
    <3>4. Control(status', loop', iterError', inRangeSync')
      BY <3>1 DEF SyncIInv, Control
    <3> QED BY <1>1, <3>1, <3>2, <3>3, <3>4 DEF SyncIInv
  <2>3. ASSUME NEW i \in NextBatchToProcess(batches), StartProcessing(i)
        PROVE  SyncIInv'
    <3> DEFINE b == [batches[i] EXCEPT !.status = "Processing"]
               mid == [batches EXCEPT ![i] = b]
    <3>1. /\ i \in DOMAIN batches /\ batches[i].status = "AwaitingProcessing"
          /\ \A j \in 1..(i - 1) : batches[j].status = "AwaitingValidation"
          /\ batches[i] \in Batch
      BY DEF NextBatchToProcess, SyncIInv, Fits
    <3>2. /\ batches' = mid /\ loop' = "processing" /\ status' = status
          /\ UNCHANGED <<triggered, iterError, inRangeSync>>
      BY <2>3 DEF StartProcessing
    <3>3. b \in Batch /\ SameAttempts(b, batches[i]) /\ b.status = "Processing"
      BY <3>1, ProcessedBatch
    <3> HIDE DEF b
    <3>4. /\ Fits(mid, startEpoch) /\ DOMAIN mid = DOMAIN batches /\ mid[i] = b
          /\ \A j \in DOMAIN batches : j # i => mid[j] = batches[j]
      BY <3>1, <3>3, ReplacedFits DEF SyncIInv, SameAttempts
    <3> HIDE DEF mid
    <3>5. Match(mid, requests)
      BY <3>1, <3>4, ReplacedMatch DEF SyncIInv
    <3>6. Bounded(mid, requests, "processing")
      <4>1. Bounded(batches, requests, "processing")
        BY <1>1, BoundedStays DEF SyncIInv
      <4>2. BoundedBatch(batches[i], requests, "processing")
        BY <3>1, <4>1, BoundedIs
      <4>3. BoundedBatch(b, requests, "processing")
        BY <3>1, <3>3, <4>2 DEF BoundedBatch, SameAttempts
      <4> QED BY <3>1, <3>4, <4>1, <4>3, ReplacedBounds
    <3>7. Runs(status, "processing", mid)
      <4>1. DOMAIN batches \subseteq Nat
        BY DEF SyncIInv, Fits
      <4>2. Stage(b) = 2 /\ Stage(batches[i]) = 3
        BY <3>1, <3>3, StageIs
      <4>3. ASSUME NEW j \in DOMAIN batches, j < i PROVE Stage(batches[j]) = 1
        <5>1. j \in 1..(i - 1)
          BY <3>1, <4>3 DEF SyncIInv, Fits
        <5> QED BY <3>1, <5>1, StageIs
      <4>4. ASSUME NEW j \in DOMAIN batches, i < j PROVE Stage(batches[j]) = 3
        <5>1. Stage(batches[i]) <= Stage(batches[j]) /\ Stage(batches[j]) \in {1, 2, 3}
          BY <2>1, <3>1, <4>4 DEF ValidStatuses, Stage
        <5> QED BY <4>2, <5>1
      <4>5. ValidStatuses(mid)
        <5> SUFFICES ASSUME NEW j \in DOMAIN batches, NEW k \in DOMAIN batches, j < k
                     PROVE  Stage(mid[j]) <= Stage(mid[k])
                              /\ ~(Stage(mid[j]) = 2 /\ Stage(mid[k]) = 2)
          BY <3>4 DEF ValidStatuses
        <5>1. Stage(mid[i]) = 2
          BY <3>4, <4>2
        <5>2. CASE j = i
          <6>1. k # i /\ i < k
            BY <4>1, <5>2
          <6> QED BY <3>4, <4>4, <5>1, <5>2, <6>1
        <5>3. CASE k = i
          <6>1. j # i /\ j < i
            BY <4>1, <5>3
          <6> QED BY <3>4, <4>3, <5>1, <5>3, <6>1
        <5>4. CASE j # i /\ k # i
          BY <2>1, <3>4, <5>4 DEF ValidStatuses
        <5> QED BY <5>2, <5>3, <5>4
      <4>6. \E j \in DOMAIN mid : mid[j].status = "Processing"
        BY <3>1, <3>3, <3>4
      <4> QED BY <1>4, <4>5, <4>6 DEF Runs
    <3>8. Control(status', loop', iterError', inRangeSync')
      BY <1>1, <3>2 DEF SyncIInv, Control
    <3> QED BY <1>1, <3>2, <3>4, <3>5, <3>6, <3>7, <3>8 DEF SyncIInv
  <2> QED BY <1>2, <1>4, <2>1, <2>2, <2>3 DEF Iterate
<1> QED BY <1>3, <1>4

-----------------------------------------------------------------------------
(* advanceChain. *)

\* The batches from some index on.
IsRest(new, bs, d) ==
  /\ d \in 0..Len(bs) /\ Len(new) = Len(bs) - d
  /\ \A j \in 1..(Len(bs) - d) : j + d \in DOMAIN bs /\ new[j] = bs[j + d]

\* Advancing to the epoch of a batch drops the batches before it.
LEMMA AdvancedFits ==
  ASSUME startEpoch \in Nat, NEW bs, Fits(bs, startEpoch), NEW i \in DOMAIN bs,
         \A j \in DOMAIN bs : j < i => bs[j].status = "AwaitingValidation",
         NEW epoch \in {startEpoch, bs[i].startEpoch}
  PROVE  LET next == Advanced(bs, epoch)
         IN  /\ next.ok /\ next.start \in Nat /\ startEpoch <= next.start
             /\ next.start \in {startEpoch, epoch}
             /\ Fits(next.batches, next.start)
             /\ \E d \in 0..(i - 1) : IsRest(next.batches, bs, d)
<1> DEFINE next == Advanced(bs, epoch)
<1>1. /\ Len(bs) \in Nat /\ DOMAIN bs = 1..Len(bs) /\ bs \in Seq(Batch)
      /\ i \in Nat /\ 1 <= i /\ i <= Len(bs)
      /\ \A j \in DOMAIN bs : bs[j] \in Batch /\ bs[j].startEpoch \in Nat
  BY BatchFields DEF Fits
<1>2. CASE epoch <= startEpoch
  <2>1. next = [batches |-> bs, reports |-> {}, start |-> startEpoch, ok |-> TRUE]
    BY <1>2 DEF Advanced
  <2>2. IsRest(bs, bs, 0) /\ 0 \in 0..(i - 1)
    BY <1>1 DEF IsRest
  <2> QED BY <2>1, <2>2
<1>3. CASE ~(epoch <= startEpoch)
  <2>1. epoch = bs[i].startEpoch /\ epoch \in Nat /\ startEpoch < epoch
    BY <1>1, <1>3
  <2> DEFINE kept == {j \in DOMAIN bs : bs[j].startEpoch >= epoch}
             dropped == {b \in ToSet(bs) : b.startEpoch < epoch}
             rest == SubSeq(bs, i, Len(bs))
  <2>2. /\ next.batches = Selection(bs, kept) /\ next.start = epoch
        /\ next.ok = \A b \in dropped : b.status = "AwaitingValidation"
    BY <1>3 DEF Advanced, From
  <2>3. ASSUME NEW j \in DOMAIN bs PROVE bs[j].startEpoch >= epoch <=> i <= j
    <3>1. bs[i].startEpoch <= bs[j].startEpoch <=> i <= j
      BY EpochsDiffer
    <3> QED BY <1>1, <2>1, <3>1
  <2>4. next.batches = rest
    <3>1. \A j \in 1..Len(bs) : j \in kept <=> i <= j
      BY <1>1, <2>3
    <3> HIDE DEF kept
    <3>2. i \in 1..Len(bs)
      BY <1>1
    <3> QED BY <1>1, <2>2, <3>1, <3>2, SelectionOfRest
  <2>5. next.ok
    <3> SUFFICES ASSUME NEW b \in dropped PROVE b.status = "AwaitingValidation"
      BY <2>2
    <3>1. PICK j \in DOMAIN bs : b = bs[j]
      BY DEF ToSet
    <3>2. j < i
      BY <1>1, <2>1, <2>3, <3>1
    <3> QED BY <3>1, <3>2
  <2>6. /\ rest \in Seq(Batch) /\ Len(rest) = Len(bs) - (i - 1)
        /\ DOMAIN rest = 1..(Len(bs) - (i - 1))
        /\ \A j \in 1..(Len(bs) - (i - 1)) : j + (i - 1) \in DOMAIN bs /\ rest[j] = bs[j + (i - 1)]
    BY <1>1
  <2> HIDE DEF rest
  <2>7. Window(rest, epoch)
    <3> SUFFICES ASSUME NEW j \in 1..(Len(bs) - (i - 1))
                 PROVE  rest[j].startEpoch = epoch + (j - 1) * EPOCHS_PER_BATCH
      BY <2>6 DEF Window
    <3>1. /\ rest[j].startEpoch = startEpoch + (j + (i - 1) - 1) * EPOCHS_PER_BATCH
          /\ epoch = startEpoch + (i - 1) * EPOCHS_PER_BATCH
      BY <2>1, <2>6 DEF Fits, Window
    <3>2. EPOCHS_PER_BATCH \in Nat /\ j \in Nat
      BY <1>1, SyncChainAssumption
    <3>3. (j + (i - 1) - 1) * EPOCHS_PER_BATCH
            = (i - 1) * EPOCHS_PER_BATCH + (j - 1) * EPOCHS_PER_BATCH
      BY <1>1, <3>2
    <3>4. /\ (i - 1) * EPOCHS_PER_BATCH \in Int /\ (j - 1) * EPOCHS_PER_BATCH \in Int
      BY <1>1, <3>2
    <3> QED BY <3>1, <3>3, <3>4
  <2>8. IsRest(rest, bs, i - 1) /\ i - 1 \in 0..(i - 1)
    BY <1>1, <2>6 DEF IsRest
  <2> HIDE DEF kept, dropped
  <2>9. next.start = epoch /\ next.batches = rest
    BY <2>2, <2>4
  <2>10. Fits(rest, epoch)
    BY <2>6, <2>7 DEF Fits
  <2>11. \E d \in 0..(i - 1) : IsRest(rest, bs, d)
    BY <2>8
  <2> QED BY <2>1, <2>5, <2>9, <2>10, <2>11
<1> QED BY <1>2, <1>3

\* What holds of the batches holds of the rest of them, if what was dropped
\* awaited no answer.
LEMMA RestKeeps ==
  ASSUME NEW bs, NEW start, NEW new, NEW start2, Fits(bs, start), Fits(new, start2),
         NEW d, IsRest(new, bs, d),
         \A j \in DOMAIN bs : j <= d => bs[j].status = "AwaitingValidation",
         NEW rs, Match(bs, rs), NEW lp, Bounded(bs, rs, lp)
  PROVE  /\ Match(new, rs) /\ Bounded(new, rs, lp)
         /\ \A st : Runs(st, "woken", bs) => Runs(st, "woken", new)
<1>1. /\ Len(bs) \in Nat /\ DOMAIN bs = 1..Len(bs) /\ d \in 0..Len(bs) /\ d \in Nat
      /\ DOMAIN new = 1..(Len(bs) - d)
  BY DEF Fits, IsRest
<1>2. \A j \in DOMAIN new : j + d \in DOMAIN bs /\ new[j] = bs[j + d]
  BY <1>1 DEF IsRest
<1>3. ASSUME NEW r \in rs
      PROVE  \E j \in DOMAIN new : new[j].status = "Downloading" /\ r = RequestOf(new[j])
  <2>1. PICK k \in DOMAIN bs : bs[k].status = "Downloading" /\ r = RequestOf(bs[k])
    BY DEF Match
  <2>2. ~(k <= d)
    BY <2>1
  <2>3. k - d \in DOMAIN new /\ (k - d) + d = k
    BY <1>1, <2>2
  <2> QED BY <1>2, <2>1, <2>3
<1>4. Bounded(new, rs, lp)
  <2>1. \A j \in DOMAIN bs : BoundedBatch(bs[j], rs, lp)
    BY BoundedIs
  <2>2. \A j \in DOMAIN new : BoundedBatch(new[j], rs, lp)
    BY <1>2, <2>1
  <2> QED BY <2>2, BoundedIs
<1>5. ASSUME ValidStatuses(bs) PROVE ValidStatuses(new)
  <2> SUFFICES ASSUME NEW j \in DOMAIN new, NEW k \in DOMAIN new, j < k
               PROVE  Stage(new[j]) <= Stage(new[k]) /\ ~(Stage(new[j]) = 2 /\ Stage(new[k]) = 2)
    BY DEF ValidStatuses
  <2>1. j + d < k + d
    BY <1>1
  <2> QED BY <1>2, <1>5, <2>1 DEF ValidStatuses
<1>6. ASSUME NEW st, Runs(st, "woken", bs) PROVE Runs(st, "woken", new)
  BY <1>2, <1>5, <1>6 DEF Runs
<1> QED BY <1>3, <1>4, <1>6 DEF Match

-----------------------------------------------------------------------------
(* A segment without an error. *)

\* The batch that is in process comes after validated ones only.
LEMMA BatchInProcessIs ==
  ASSUME SyncIInv, loop = "processing", NEW i, i = BatchInProcess
  PROVE  /\ status = "Syncing" /\ ValidStatuses(batches)
         /\ i \in DOMAIN batches /\ i \in Nat /\ DOMAIN batches = 1..Len(batches)
         /\ Len(batches) \in Nat
         /\ batches[i].status = "Processing" /\ batches[i] \in Batch
         /\ batches[i].peer # NoPeer
         /\ \A j \in DOMAIN batches : j < i => batches[j].status = "AwaitingValidation"
         /\ \A j \in DOMAIN batches : i < j => Stage(batches[j]) = 3
<1>1. status = "Syncing" /\ ValidStatuses(batches)
  BY DEF SyncIInv, Runs
<1>2. \E j \in DOMAIN batches : batches[j].status = "Processing"
  BY DEF SyncIInv, Runs
<1>3. i \in DOMAIN batches /\ batches[i].status = "Processing"
  BY <1>2 DEF BatchInProcess
<1>4. /\ DOMAIN batches = 1..Len(batches) /\ Len(batches) \in Nat /\ batches[i] \in Batch
      /\ i \in Nat
  BY <1>3 DEF SyncIInv, Fits
<1>5. Stage(batches[i]) = 2 /\ batches[i].peer # NoPeer
  BY <1>3, <1>4, StageIs, BatchFields
<1>6. ASSUME NEW j \in DOMAIN batches, j < i
      PROVE  batches[j].status = "AwaitingValidation"
  <2>1. Stage(batches[j]) <= Stage(batches[i]) /\ ~(Stage(batches[j]) = 2 /\ Stage(batches[i]) = 2)
    BY <1>1, <1>3, <1>6 DEF ValidStatuses
  <2>2. batches[j].status = "Processing" => Stage(batches[j]) = 2
    BY StageIs
  <2>3. batches[j].status \notin {"AwaitingValidation", "Processing"} => Stage(batches[j]) = 3
    BY StageIs
  <2> QED BY <1>5, <2>1, <2>2, <2>3
<1>7. ASSUME NEW j \in DOMAIN batches, i < j
      PROVE  Stage(batches[j]) = 3
  <2>1. Stage(batches[i]) <= Stage(batches[j]) /\ ~(Stage(batches[i]) = 2 /\ Stage(batches[j]) = 2)
    BY <1>1, <1>3, <1>7 DEF ValidStatuses
  <2>2. Stage(batches[j]) \in {1, 2, 3}
    BY DEF Stage
  <2> QED BY <1>5, <2>1, <2>2
<1> QED BY <1>1, <1>3, <1>4, <1>5, <1>6, <1>7

\* A chain whose loop continues with other batches.
LEMMA ContinueKeepsIInv ==
  ASSUME SyncIInv, loop # "ended", target' = target, peerset' = peerset,
         startEpoch' \in Nat, NEW flag \in BOOLEAN, NextIteration(flag),
         NEW bs, Fits(bs, startEpoch'), Match(bs, requests),
         Bounded(bs, requests, "waiting"), Runs(status, "woken", bs), NEW st,
         TriggerBatchDownloader(st, bs, startEpoch', target, peerset, requests)
  PROVE  SyncIInv'
<1>1. ControlNow /\ peerset \in Seq(PeerEntry) /\ target \in Nat
  BY DEF SyncIInv, ControlNow
<1>2. /\ Control(status', loop', iterError', inRangeSync') /\ triggered' \in BOOLEAN
      /\ Runs(status', loop', bs)
  BY <1>1, NextIterationKeeps
<1>3. Bounded(bs, requests, loop')
  BY BoundedStays
<1> DEFINE lp == loop'
           st2 == status'
           start == startEpoch'
<1>4. /\ Bounded(bs, requests, lp) /\ Runs(st2, lp, bs) /\ Fits(bs, start) /\ start \in Nat
      /\ TriggerBatchDownloader(st, bs, start, target, peerset, requests)
  BY <1>2, <1>3
<1> HIDE DEF lp, st2, start
<1>5. /\ Fits(batches', start) /\ Match(batches', requests')
      /\ Bounded(batches', requests', lp) /\ Runs(st2, lp, batches')
  BY <1>1, <1>4, TriggerBatchDownloaderKeeps
<1>6. /\ Fits(batches', startEpoch') /\ Bounded(batches', requests', loop')
      /\ Runs(status', loop', batches')
  BY <1>5 DEF lp, st2, start
<1> QED BY <1>1, <1>2, <1>5, <1>6 DEF SyncIInv

\* A chain whose loop throws.
LEMMA ThrowKeepsIInv ==
  ASSUME SyncIInv, target' = target, peerset' = peerset, startEpoch' \in Nat,
         NEW error, error \notin {"WrongStatus", "BadOrder", "Aborted"}, Throw(error),
         requests' = requests, Fits(batches', startEpoch'), Match(batches', requests),
         Bounded(batches', requests, "ended")
  PROVE  SyncIInv'
<1>1. ControlNow
  BY DEF SyncIInv, ControlNow
<1>2. /\ Control(status', loop', iterError', inRangeSync') /\ triggered' \in BOOLEAN
      /\ loop' = "ended" /\ \A bs : Runs(status', loop', bs)
  BY <1>1, ThrowKeeps
<1> QED BY <1>2 DEF SyncIInv

\* A batch that is processed only has validated ones before it to drop.
LEMMA ProcessedIInv ==
  ASSUME SyncIInv, Processed
  PROVE  SyncIInv'
<1> DEFINE i == BatchInProcess
           b == ProcessingSuccess(batches[i])
           done == [batches EXCEPT ![i] = ProcessingSuccess(@)]
           epoch == IF Validates(batches[i].blocks) THEN batches[i].startEpoch ELSE startEpoch
           next == Advanced(done, epoch)
<1>1. /\ loop = "processing" /\ target' = target /\ peerset' = peerset
      /\ startEpoch' = next.start
      /\ next.ok => /\ NextIteration(TRUE)
                    /\ TriggerBatchDownloader(status, next.batches, next.start,
                                              target, peerset, requests)
  BY DEF Processed
<1>2. /\ status = "Syncing" /\ ValidStatuses(batches)
      /\ i \in DOMAIN batches /\ i \in Nat /\ DOMAIN batches = 1..Len(batches)
      /\ Len(batches) \in Nat
      /\ batches[i].status = "Processing" /\ batches[i] \in Batch
      /\ batches[i].peer # NoPeer
      /\ \A j \in DOMAIN batches : j < i => batches[j].status = "AwaitingValidation"
      /\ \A j \in DOMAIN batches : i < j => Stage(batches[j]) = 3
  BY <1>1, BatchInProcessIs
<1> HIDE DEF i
<1>3. b \in Batch /\ SameAttempts(b, batches[i]) /\ b.status = "AwaitingValidation"
  BY <1>2, ProcessedBatch
<1>4. done = [batches EXCEPT ![i] = b]
  BY <1>2
<1> HIDE DEF b, done
<1>5. /\ Fits(done, startEpoch) /\ DOMAIN done = DOMAIN batches /\ done[i] = b
      /\ \A j \in DOMAIN batches : j # i => done[j] = batches[j]
  BY <1>2, <1>3, <1>4, ReplacedFits DEF SyncIInv, SameAttempts
<1>6. Match(done, requests)
  BY <1>2, <1>5, ReplacedMatch DEF SyncIInv
<1>7. Bounded(done, requests, "processing")
  <2>1. Bounded(batches, requests, "processing") /\ \A j \in DOMAIN batches : BoundedBatch(batches[j], requests, "processing")
    BY <1>1, BoundedIs DEF SyncIInv
  <2>2. BoundedBatch(b, requests, "processing")
    BY <1>2, <1>3, <2>1 DEF BoundedBatch, SameAttempts
  <2> QED BY <1>2, <1>5, <2>1, <2>2, ReplacedBounds
<1>8. Bounded(done, requests, "waiting")
  BY <1>7, BoundedStays
<1>9. Runs(status, "woken", done)
  <2>1. Stage(b) = 1
    BY <1>3, StageIs
  <2>2. ASSUME NEW j \in DOMAIN batches, j < i PROVE Stage(done[j]) = 1
    <3>1. j # i
      BY <1>2, <2>2
    <3> QED BY <1>2, <1>5, <2>2, <3>1, StageIs
  <2>3. ASSUME NEW j \in DOMAIN batches, i < j
        PROVE  Stage(done[j]) = 3 /\ done[j].status # "Processing"
    <3>1. j # i
      BY <1>2, <2>3
    <3>2. done[j] = batches[j] /\ Stage(batches[j]) = 3
      BY <1>2, <1>5, <2>3, <3>1
    <3> QED BY <3>2, StageIs
  <2>4. ASSUME NEW j \in DOMAIN batches
        PROVE  (Stage(done[j]) = IF j <= i THEN 1 ELSE 3) /\ done[j].status # "Processing"
    <3>1. CASE j < i
      <4>1. done[j] = batches[j] /\ batches[j].status = "AwaitingValidation"
        BY <1>2, <1>5, <3>1
      <4> QED BY <1>2, <2>2, <3>1, <4>1
    <3>2. CASE j = i
      BY <1>2, <1>3, <1>5, <2>1, <3>2
    <3>3. CASE i < j
      BY <1>2, <2>3, <3>3
    <3> QED BY <1>2, <3>1, <3>2, <3>3
  <2>5. ValidStatuses(done)
    <3> SUFFICES ASSUME NEW j \in DOMAIN batches, NEW k \in DOMAIN batches, j < k
                 PROVE  Stage(done[j]) <= Stage(done[k])
                          /\ ~(Stage(done[j]) = 2 /\ Stage(done[k]) = 2)
      BY <1>5 DEF ValidStatuses
    <3>1. (Stage(done[j]) = IF j <= i THEN 1 ELSE 3) /\ (Stage(done[k]) = IF k <= i THEN 1 ELSE 3)
      BY <2>4
    <3>2. j \in Int /\ k \in Int /\ i \in Int
      BY <1>2
    <3> QED BY <3>1, <3>2
  <2> QED BY <1>2, <1>5, <2>4, <2>5 DEF Runs
<1>10. /\ next.ok /\ next.start \in Nat
       /\ Fits(next.batches, next.start)
       /\ \E d \in 0..(i - 1) : IsRest(next.batches, done, d)
  <2>1. startEpoch \in Nat
    BY DEF SyncIInv
  <2>2. \A j \in DOMAIN done : j < i => done[j].status = "AwaitingValidation"
    BY <1>2, <1>5
  <2>3. i \in DOMAIN done /\ done[i].startEpoch = batches[i].startEpoch
    BY <1>2, <1>3, <1>5 DEF SameAttempts
  <2>4. epoch \in {startEpoch, done[i].startEpoch}
    BY <2>3
  <2> HIDE DEF epoch
  <2> QED BY <1>5, <2>1, <2>2, <2>3, <2>4, AdvancedFits
<1> HIDE DEF epoch, next
<1>11. PICK d \in 0..(i - 1) : IsRest(next.batches, done, d)
  BY <1>10
<1>12. \A j \in DOMAIN done : j <= d => done[j].status = "AwaitingValidation"
  BY <1>2, <1>5
<1>13. /\ Match(next.batches, requests) /\ Bounded(next.batches, requests, "waiting")
       /\ Runs(status, "woken", next.batches)
  BY <1>5, <1>6, <1>8, <1>9, <1>10, <1>11, <1>12, RestKeeps
<1>14. TriggerBatchDownloader(status, next.batches, startEpoch', target, peerset, requests)
  BY <1>1, <1>10
<1> QED BY <1>1, <1>10, <1>13, <1>14, ContinueKeepsIInv

-----------------------------------------------------------------------------
(* A segment with an error. *)

\* A batch that fails stays within its limits, and can only be requested again
\* if they are not used up.
LEMMA FailedBatch ==
  ASSUME NEW b \in Batch, b.status \notin {"AwaitingDownload", "Downloading"}, NEW error,
         NEW rs, BoundedBatch(b, rs, "waiting"), NEW f, f = WithFailedAttempt(b, error)
  PROVE  /\ f \in Batch /\ f.startEpoch = b.startEpoch /\ f.status = b.status
         /\ BoundedBatch(f, rs, "ended")
         /\ Again(f) \in Batch /\ Again(f).startEpoch = b.startEpoch
         /\ Again(f).status = "AwaitingDownload"
         /\ ~IsExhausted(f, error) => BoundedBatch(Again(f), rs, "waiting")
         /\ Failed(b, error) \in {f, Again(f)}
         /\ ~IsExhausted(f, error) => Failed(b, error) = Again(f)
         /\ BoundedBatch(Failed(b, error), rs, "ended")
<1>1. b.peer # NoPeer
  BY BatchFields
<1>2. /\ f \in Batch /\ f.startEpoch = b.startEpoch /\ f.status = b.status
      /\ f.failedDownloadAttempts = b.failedDownloadAttempts
      /\ Len(f.failedProcessingAttempts) <= Len(b.failedProcessingAttempts) + 1
      /\ f.executionErrorAttempts <= b.executionErrorAttempts + 1
      /\ f.failedProcessingAttempts # b.failedProcessingAttempts => error # "Engine"
      /\ f.executionErrorAttempts # b.executionErrorAttempts => error = "Engine"
  BY <1>1, FailedAttemptBatch
<1>3. /\ Again(f) \in Batch /\ SameAttempts(Again(f), f) /\ Again(f).status = "AwaitingDownload"
  BY <1>2, AgainBatch
<1>4. Failed(b, error) = IF IsExhausted(f, error) THEN f ELSE Again(f)
  BY DEF Failed
<1> DEFINE g == Again(f)
<1> HIDE DEF g
<1>5. /\ Len(b.failedProcessingAttempts) \in Nat /\ Len(f.failedProcessingAttempts) \in Nat
      /\ b.executionErrorAttempts \in Nat /\ f.executionErrorAttempts \in Nat
      /\ Len(b.failedDownloadAttempts) <= MAX_BATCH_DOWNLOAD_ATTEMPTS
      /\ Len(b.failedProcessingAttempts) <= MAX_BATCH_PROCESSING_ATTEMPTS
      /\ b.executionErrorAttempts <= MAX_BATCH_PROCESSING_ATTEMPTS
      /\ MAX_BATCH_PROCESSING_ATTEMPTS \in Nat
  BY <1>2, BatchFields, SyncChainAssumption DEF BoundedBatch
<1>6. /\ Len(f.failedProcessingAttempts) <= MAX_BATCH_PROCESSING_ATTEMPTS + 1
      /\ f.executionErrorAttempts <= MAX_BATCH_PROCESSING_ATTEMPTS + 1
      /\ Len(f.failedDownloadAttempts) <= MAX_BATCH_DOWNLOAD_ATTEMPTS
  BY <1>2, <1>5
<1>7. BoundedBatch(f, rs, "ended")
  BY <1>6 DEF BoundedBatch
<1>8. SameAttempts(g, f) /\ g.status = "AwaitingDownload"
  BY <1>3 DEF g
<1>9. BoundedBatch(g, rs, "ended")
  BY <1>6, <1>8 DEF BoundedBatch, SameAttempts
<1>10. ASSUME ~IsExhausted(f, error) PROVE BoundedBatch(g, rs, "waiting")
  <2>1. /\ Len(f.failedProcessingAttempts) <= MAX_BATCH_PROCESSING_ATTEMPTS
        /\ f.executionErrorAttempts <= MAX_BATCH_PROCESSING_ATTEMPTS
    <3>1. CASE error = "Engine"
      <4>1. f.executionErrorAttempts <= MAX_BATCH_PROCESSING_ATTEMPTS
        BY <1>5, <1>10, <3>1 DEF IsExhausted
      <4> QED BY <1>2, <1>5, <3>1, <4>1
    <3>2. CASE error # "Engine"
      <4>1. Len(f.failedProcessingAttempts) <= MAX_BATCH_PROCESSING_ATTEMPTS
        BY <1>5, <1>10, <3>2 DEF IsExhausted
      <4> QED BY <1>2, <1>5, <3>2, <4>1
    <3> QED BY <3>1, <3>2
  <2> QED BY <1>6, <1>8, <2>1 DEF BoundedBatch, SameAttempts
<1>11. Failed(b, error) \in {f, g} /\ (~IsExhausted(f, error) => Failed(b, error) = g)
  BY <1>4 DEF g
<1>12. g.startEpoch = b.startEpoch
  BY <1>2, <1>8 DEF SameAttempts
<1> QED BY <1>2, <1>3, <1>7, <1>9, <1>10, <1>11, <1>12 DEF g

\* The minimum of a set of indices is in it.
LEMMA FirstIsMin ==
  ASSUME NEW S, S \subseteq Nat, S # {}
  PROVE  Min(S) \in S
<1>1. PICK m \in S : \A k \in S : m <= k
  BY LeastNatural
<1> QED BY <1>1 DEF Min

\* A batch that used up its attempts ends the loop.
LEMMA ExhaustedIInv ==
  ASSUME SyncIInv, loop = "processing", target' = target, peerset' = peerset, NEW error,
         NEW failed, failed = WithFailedAttempt(batches[BatchInProcess], error),
         ProcessingExhausted(error, failed)
  PROVE  SyncIInv'
<1> DEFINE i == BatchInProcess
<1>1. /\ batches' = [batches EXCEPT ![i] = failed]
      /\ Throw(MaxAttempts(error))
      /\ startEpoch' = startEpoch /\ requests' = requests
  BY DEF ProcessingExhausted
<1>2. /\ i \in DOMAIN batches /\ batches[i].status = "Processing" /\ batches[i] \in Batch
      /\ failed = WithFailedAttempt(batches[i], error)
  BY BatchInProcessIs
<1> HIDE DEF i
<1>3. Bounded(batches, requests, "waiting") /\ \A j \in DOMAIN batches : BoundedBatch(batches[j], requests, "waiting")
  BY BoundedStays, BoundedIs DEF SyncIInv
<1>4. /\ failed \in Batch /\ failed.startEpoch = batches[i].startEpoch
      /\ failed.status = "Processing" /\ BoundedBatch(failed, requests, "ended")
  BY <1>2, <1>3, FailedBatch
<1> DEFINE new == [batches EXCEPT ![i] = failed]
<1>5. /\ Fits(new, startEpoch) /\ DOMAIN new = DOMAIN batches /\ new[i] = failed
      /\ \A j \in DOMAIN batches : j # i => new[j] = batches[j]
  BY <1>2, <1>4, ReplacedFits DEF SyncIInv
<1> HIDE DEF new
<1>6. Match(new, requests)
  BY <1>2, <1>5, ReplacedMatch DEF SyncIInv
<1>7. Bounded(new, requests, "ended")
  <2>1. Bounded(batches, requests, "ended")
    BY <1>3, BoundedStays
  <2> QED BY <1>2, <1>4, <1>5, <2>1, ReplacedBounds
<1>8. batches' = new /\ startEpoch' \in Nat
  BY <1>1 DEF new, SyncIInv
<1>9. MaxAttempts(error) \notin {"WrongStatus", "BadOrder", "Aborted"}
  BY DEF MaxAttempts
<1>10. /\ Fits(batches', startEpoch') /\ Match(batches', requests)
       /\ Bounded(batches', requests, "ended")
  BY <1>1, <1>5, <1>6, <1>7, <1>8
<1> QED BY <1>1, <1>8, <1>9, <1>10, ThrowKeepsIInv

\* Batches of which each is one of bs that awaits the same answer, or none.
KeepsRequests(new, bs) ==
  \A j \in DOMAIN new : \E k \in DOMAIN bs :
    /\ new[j].startEpoch = bs[k].startEpoch
    /\ new[j].status = "Downloading" => new[j] = bs[k]

\* So do batches made of those.
LEMMA RequestsStayKept ==
  ASSUME NEW bs, NEW mid, NEW new, KeepsRequests(mid, bs), KeepsRequests(new, mid)
  PROVE  KeepsRequests(new, bs)
<1> SUFFICES ASSUME NEW j \in DOMAIN new
             PROVE  \E k \in DOMAIN bs :
                      /\ new[j].startEpoch = bs[k].startEpoch
                      /\ new[j].status = "Downloading" => new[j] = bs[k]
  BY DEF KeepsRequests
<1>1. PICK m \in DOMAIN mid :
        /\ new[j].startEpoch = mid[m].startEpoch
        /\ new[j].status = "Downloading" => new[j] = mid[m]
  BY DEF KeepsRequests
<1>2. PICK k \in DOMAIN bs :
        /\ mid[m].startEpoch = bs[k].startEpoch
        /\ mid[m].status = "Downloading" => mid[m] = bs[k]
  BY DEF KeepsRequests
<1> QED BY <1>1, <1>2

\* The batches if the one in process is to be requested again.
WaitsAgain(i, failed, again) ==
  /\ Fits(again, startEpoch) /\ DOMAIN again = DOMAIN batches
  /\ i \in DOMAIN again /\ again[i].startEpoch = failed.startEpoch
  /\ again[i].status = "AwaitingDownload" /\ KeepsRequests(again, batches)
  /\ \A j \in DOMAIN again : j < i => again[j].status = "AwaitingValidation"
  /\ \A j \in DOMAIN again :
       i <= j => Stage(again[j]) = 3 /\ again[j].status # "Processing"
  /\ Match(again, requests) /\ Bounded(again, requests, "waiting")

\* The batch in process can be requested again.
LEMMA AgainKeeps ==
  ASSUME SyncIInv, loop = "processing", NEW i, i = BatchInProcess, NEW error,
         NEW failed, failed = WithFailedAttempt(batches[i], error),
         ~IsExhausted(failed, error),
         NEW again, again = [batches EXCEPT ![i] = Again(failed)]
  PROVE  WaitsAgain(i, failed, again)
<1>1. /\ i \in DOMAIN batches /\ i \in Nat /\ DOMAIN batches = 1..Len(batches)
      /\ Len(batches) \in Nat
      /\ batches[i].status = "Processing" /\ batches[i] \in Batch
      /\ \A j \in DOMAIN batches : j < i => batches[j].status = "AwaitingValidation"
      /\ \A j \in DOMAIN batches : i < j => Stage(batches[j]) = 3
  BY BatchInProcessIs
<1> DEFINE b == Again(failed)
<1>2. Bounded(batches, requests, "waiting") /\ \A j \in DOMAIN batches : BoundedBatch(batches[j], requests, "waiting")
  BY BoundedStays, BoundedIs DEF SyncIInv
<1>3. /\ failed.startEpoch = batches[i].startEpoch
      /\ b \in Batch /\ b.startEpoch = batches[i].startEpoch /\ b.status = "AwaitingDownload"
      /\ BoundedBatch(b, requests, "waiting")
  BY <1>1, <1>2, FailedBatch
<1>4. again = [batches EXCEPT ![i] = b]
  OBVIOUS
<1> HIDE DEF b
<1>5. /\ Fits(again, startEpoch) /\ DOMAIN again = DOMAIN batches /\ again[i] = b
      /\ \A j \in DOMAIN batches : j # i => again[j] = batches[j]
  <2>1. Fits(batches, startEpoch)
    BY DEF SyncIInv
  <2> DEFINE new == [batches EXCEPT ![i] = b]
  <2>2. /\ Fits(new, startEpoch) /\ DOMAIN new = DOMAIN batches /\ new[i] = b
        /\ \A j \in DOMAIN batches : j # i => new[j] = batches[j]
    BY <1>1, <1>3, <2>1, ReplacedFits
  <2> QED BY <1>4, <2>2
<1>6. Match(again, requests)
  BY <1>1, <1>5, ReplacedMatch DEF SyncIInv
<1>7. Bounded(again, requests, "waiting")
  BY <1>1, <1>2, <1>3, <1>5, ReplacedBounds
<1>8. ASSUME NEW j \in DOMAIN again, j < i PROVE again[j].status = "AwaitingValidation"
  <2>1. j # i
    BY <1>1, <1>5, <1>8
  <2> QED BY <1>1, <1>5, <1>8, <2>1
<1>9. ASSUME NEW j \in DOMAIN again, i <= j
      PROVE  Stage(again[j]) = 3 /\ again[j].status # "Processing"
  <2>1. CASE j = i
    BY <1>3, <1>5, <2>1, StageIs
  <2>2. CASE j # i
    <3>1. again[j] = batches[j] /\ Stage(batches[j]) = 3
      BY <1>1, <1>5, <1>9, <2>2
    <3> QED BY <3>1, StageIs
  <2> QED BY <2>1, <2>2
<1>10. KeepsRequests(again, batches)
  <2> SUFFICES ASSUME NEW j \in DOMAIN batches
               PROVE  /\ again[j].startEpoch = batches[j].startEpoch
                      /\ again[j].status = "Downloading" => again[j] = batches[j]
    BY <1>5 DEF KeepsRequests
  <2>1. CASE j = i
    BY <1>3, <1>5, <2>1
  <2>2. CASE j # i
    BY <1>5, <2>2
  <2> QED BY <2>1, <2>2
<1> QED BY <1>1, <1>3, <1>5, <1>6, <1>7, <1>8, <1>9, <1>10 DEF WaitsAgain

\* The batches before epoch were processed.
ProcessedBefore(bs, epoch) ==
  \A j \in DOMAIN bs : bs[j].startEpoch < epoch => bs[j].status = "AwaitingValidation"

\* The batches before epoch are to be requested again, the others are as they were.
AwaitUpTo(new, bs, epoch) ==
  \A j \in DOMAIN bs : IF bs[j].startEpoch < epoch
                       THEN new[j].status = "AwaitingDownload"
                       ELSE new[j] = bs[j]

\* The batches before the failed one are requested again too, up to one that
\* used up its attempts.
LEMMA FailedUpToKeeps ==
  ASSUME NEW start \in Nat, NEW bs, Fits(bs, start), NEW epoch, NEW error,
         ProcessedBefore(bs, epoch),
         NEW rs, Match(bs, rs), Bounded(bs, rs, "waiting"),
         NEW last, NEW new, new = FailedUpTo(bs, last, epoch, error)
  PROVE  /\ Fits(new, start) /\ Match(new, rs) /\ Bounded(new, rs, "ended")
         /\ DOMAIN new = DOMAIN bs /\ KeepsRequests(new, bs)
         /\ Throwing(bs, epoch, error) = {} /\ last = Len(bs) =>
              Bounded(new, rs, "waiting") /\ AwaitUpTo(new, bs, epoch)
<1>1. /\ DOMAIN bs = 1..Len(bs) /\ Len(bs) \in Nat /\ bs \in Seq(Batch)
      /\ \A j \in DOMAIN bs : bs[j] \in Batch
      /\ \A j \in DOMAIN bs : BoundedBatch(bs[j], rs, "waiting")
  BY BoundedIs DEF Fits
<1> DEFINE IsFailed(j) == j <= last /\ bs[j].startEpoch < epoch
<1>2. /\ DOMAIN new = DOMAIN bs
      /\ \A j \in DOMAIN bs : new[j] = IF IsFailed(j) THEN Failed(bs[j], error) ELSE bs[j]
  BY DEF FailedUpTo
<1>3. ASSUME NEW j \in DOMAIN bs, IsFailed(j)
      PROVE  /\ new[j] \in Batch /\ new[j].startEpoch = bs[j].startEpoch
             /\ BoundedBatch(new[j], rs, "ended")
             /\ bs[j].status = "AwaitingValidation" /\ new[j].status # "Downloading"
             /\ ~IsExhausted(WithFailedAttempt(bs[j], error), error) =>
                  BoundedBatch(new[j], rs, "waiting") /\ new[j].status = "AwaitingDownload"
  <2> DEFINE f == WithFailedAttempt(bs[j], error)
  <2>1. bs[j].status \notin {"AwaitingDownload", "Downloading"} /\ bs[j].status = "AwaitingValidation"
    BY <1>3 DEF ProcessedBefore
  <2>2. /\ f \in Batch /\ f.startEpoch = bs[j].startEpoch /\ f.status = bs[j].status
        /\ Again(f) \in Batch /\ Again(f).startEpoch = bs[j].startEpoch
        /\ Again(f).status = "AwaitingDownload"
        /\ ~IsExhausted(f, error) => BoundedBatch(Again(f), rs, "waiting")
        /\ Failed(bs[j], error) \in {f, Again(f)}
        /\ ~IsExhausted(f, error) => Failed(bs[j], error) = Again(f)
        /\ BoundedBatch(Failed(bs[j], error), rs, "ended")
    BY <1>1, <2>1, FailedBatch
  <2>3. new[j] = Failed(bs[j], error)
    BY <1>2, <1>3
  <2> HIDE DEF f, IsFailed
  <2>4. /\ new[j] \in {f, Again(f)} /\ BoundedBatch(new[j], rs, "ended")
        /\ ~IsExhausted(f, error) => new[j] = Again(f)
    BY <2>2, <2>3
  <2>5. /\ new[j] \in Batch /\ new[j].startEpoch = bs[j].startEpoch
        /\ new[j].status # "Downloading"
    BY <2>1, <2>2, <2>4
  <2>6. ~IsExhausted(f, error) =>
          BoundedBatch(new[j], rs, "waiting") /\ new[j].status = "AwaitingDownload"
    BY <2>2, <2>4
  <2> QED BY <2>1, <2>4, <2>5, <2>6 DEF f
<1>4. ASSUME NEW j \in DOMAIN bs
      PROVE  /\ new[j] \in Batch /\ new[j].startEpoch = bs[j].startEpoch
             /\ BoundedBatch(new[j], rs, "ended")
             /\ bs[j].status = "Downloading" => new[j] = bs[j]
             /\ new[j].status = "Downloading" => new[j] = bs[j]
  <2>1. CASE IsFailed(j)
    <3>1. bs[j].status = "AwaitingValidation"
      BY <1>3, <2>1
    <3> QED BY <1>3, <2>1, <3>1
  <2>2. CASE ~IsFailed(j)
    <3>1. new[j] = bs[j]
      BY <1>2, <2>2
    <3>2. BoundedBatch(bs[j], rs, "ended")
      BY <1>1, SyncChainAssumption DEF BoundedBatch
    <3> QED BY <1>1, <3>1, <3>2
  <2> QED BY <2>1, <2>2
<1>5. Bounded(new, rs, "ended")
  BY <1>2, <1>4, BoundedIs
<1>6. Match(new, rs)
  BY <1>2, <1>4 DEF Match
<1>7. Fits(new, start)
  <2>1. new \in Seq(Batch)
    <3>1. new = [j \in 1..Len(bs) |-> new[j]]
      <4>1. new = [j \in DOMAIN bs |-> new[j]]
        BY DEF FailedUpTo
      <4> QED BY <1>1, <4>1
    <3>2. \A j \in 1..Len(bs) : new[j] \in Batch
      BY <1>1, <1>4
    <3> QED BY <1>1, <3>1, <3>2
  <2>2. Window(new, start)
    BY <1>2, <1>4 DEF Fits, Window
  <2> QED BY <2>1, <2>2 DEF Fits
<1>8. ASSUME Throwing(bs, epoch, error) = {}, last = Len(bs), NEW j \in DOMAIN bs
      PROVE  /\ BoundedBatch(new[j], rs, "waiting")
             /\ IF bs[j].startEpoch < epoch
                THEN new[j].status = "AwaitingDownload"
                ELSE new[j] = bs[j]
  <2>1. IsFailed(j) <=> bs[j].startEpoch < epoch
    BY <1>1, <1>8
  <2>2. CASE IsFailed(j)
    <3>1. ~IsExhausted(WithFailedAttempt(bs[j], error), error)
      BY <1>8, <2>2 DEF Throwing
    <3>2. BoundedBatch(new[j], rs, "waiting") /\ new[j].status = "AwaitingDownload"
      BY <1>3, <2>2, <3>1
    <3> QED BY <2>1, <2>2, <3>2
  <2>3. CASE ~IsFailed(j)
    BY <1>1, <1>2, <2>1, <2>3
  <2> QED BY <2>2, <2>3
<1>9. Throwing(bs, epoch, error) = {} /\ last = Len(bs) => Bounded(new, rs, "waiting")
  BY <1>2, <1>8, BoundedIs
<1>10. KeepsRequests(new, bs)
  BY <1>2, <1>4 DEF KeepsRequests
<1>11. Throwing(bs, epoch, error) = {} /\ last = Len(bs) => AwaitUpTo(new, bs, epoch)
  BY <1>8 DEF AwaitUpTo
<1> QED BY <1>2, <1>5, <1>6, <1>7, <1>9, <1>10, <1>11

\* A batch that is retried takes those before it along, or drops them; one of them
\* that used up its attempts ends the loop.  If the loop goes on, the chain starts
\* with a batch that is to be requested.
LEMMA RetriedLeaves ==
  ASSUME SyncIInv, loop = "processing",
         NEW r, NEW failed, failed = WithFailedAttempt(batches[BatchInProcess], r.error),
         ProcessingRetried(r, failed)
  PROVE  \E bs :
           /\ startEpoch' \in Nat /\ Fits(bs, startEpoch') /\ Match(bs, requests)
           /\ KeepsRequests(bs, batches)
           /\ \/ /\ NextIteration(triggered)
                 /\ TriggerBatchDownloader(status, bs, startEpoch', target, peerset, requests)
                 /\ Bounded(bs, requests, "waiting")
                 /\ \A j \in DOMAIN bs : Stage(bs[j]) = 3 /\ bs[j].status # "Processing"
                 /\ 1 \in DOMAIN bs /\ bs[1].status = "AwaitingDownload"
              \/ /\ Throw(MaxAttempts(r.error)) /\ Bounded(bs, requests, "ended")
                 /\ batches' = bs /\ requests' = requests
<1> DEFINE i == BatchInProcess
           epoch == failed.startEpoch
           again == [batches EXCEPT ![i] = Again(failed)]
           to == IF r.counted = {} THEN startEpoch ELSE epoch
           next == Advanced(again, to)
           bad == Throwing(next.batches, epoch, r.error)
           error == IF bad # {} /\ next.batches[Min(bad)].status = "AwaitingValidation"
                    THEN MaxAttempts(r.error) ELSE "WrongStatus"
           last == IF bad = {} THEN Len(next.batches) ELSE Min(bad)
           new == FailedUpTo(next.batches, last, epoch, r.error)
<1>1. /\ ~IsExhausted(failed, r.error) /\ startEpoch' = next.start
      /\ next.ok /\ bad = {} =>
           /\ NextIteration(triggered)
           /\ TriggerBatchDownloader(status, new, next.start, target, peerset, requests)
      /\ ~(next.ok /\ bad = {}) => Throw(error) /\ batches' = new /\ requests' = requests
  BY DEF ProcessingRetried
<1> HIDE DEF next, to, bad, error, last, new
<1>2. /\ Fits(again, startEpoch) /\ DOMAIN again = DOMAIN batches
      /\ i \in DOMAIN again /\ again[i].startEpoch = epoch
      /\ again[i].status = "AwaitingDownload" /\ KeepsRequests(again, batches)
      /\ \A j \in DOMAIN again : j < i => again[j].status = "AwaitingValidation"
      /\ \A j \in DOMAIN again :
           i <= j => Stage(again[j]) = 3 /\ again[j].status # "Processing"
      /\ Match(again, requests) /\ Bounded(again, requests, "waiting")
  <2>1. i = BatchInProcess /\ failed = WithFailedAttempt(batches[i], r.error)
    OBVIOUS
  <2> DEFINE e == r.error
  <2>2. failed = WithFailedAttempt(batches[i], e) /\ ~IsExhausted(failed, e)
    BY <1>1
  <2>3. again = [batches EXCEPT ![i] = Again(failed)]
    OBVIOUS
  <2> HIDE DEF i, e, again
  <2>4. WaitsAgain(i, failed, again)
    BY <2>1, <2>2, <2>3, AgainKeeps, Zenon
  <2> QED BY <2>4 DEF WaitsAgain
<1>3. /\ i \in Nat /\ status = "Syncing" /\ startEpoch \in Nat /\ triggered \in BOOLEAN
      /\ DOMAIN again = 1..Len(again) /\ Len(again) \in Nat /\ epoch \in Nat
  <2>1. /\ i \in Nat /\ status = "Syncing" /\ startEpoch \in Nat /\ triggered \in BOOLEAN
    BY BatchInProcessIs DEF SyncIInv
  <2> HIDE DEF again, i
  <2>2. again \in Seq(Batch) /\ again[i] \in Batch
    BY <1>2 DEF Fits
  <2>3. epoch \in Nat
    BY <1>2, <2>2, BatchFields
  <2> QED BY <2>1, <2>2, <2>3
<1>4. to \in {startEpoch, again[i].startEpoch}
  BY <1>2 DEF to
<1> HIDE DEF again, i, epoch
<1>5. /\ next.ok /\ next.start \in Nat /\ Fits(next.batches, next.start)
      /\ \E d \in 0..(i - 1) : IsRest(next.batches, again, d)
  BY <1>2, <1>3, <1>4, AdvancedFits DEF next
<1>6. PICK d \in 0..(i - 1) : IsRest(next.batches, again, d)
  BY <1>5
<1> DEFINE nb == next.batches
           start == next.start
<1> HIDE DEF nb, start
<1>7. /\ next.ok /\ start \in Nat /\ Fits(nb, start) /\ d \in 0..(i - 1) /\ IsRest(nb, again, d)
  BY <1>5, <1>6 DEF nb, start
<1>8. Match(nb, requests) /\ Bounded(nb, requests, "waiting")
  <2>1. \A j \in DOMAIN again : j <= d => again[j].status = "AwaitingValidation"
    BY <1>2, <1>3, <1>7
  <2> QED BY <1>2, <1>7, <2>1, RestKeeps
<1>9. /\ DOMAIN nb = 1..Len(nb) /\ Len(nb) \in Nat
      /\ \A j \in DOMAIN nb :
           IF nb[j].startEpoch < epoch
           THEN nb[j].status = "AwaitingValidation"
           ELSE Stage(nb[j]) = 3 /\ nb[j].status # "Processing"
      /\ 1 \in DOMAIN nb
      /\ nb[1].startEpoch < epoch \/ nb[1].status = "AwaitingDownload"
      /\ KeepsRequests(nb, again)
  <2>1. /\ DOMAIN nb = 1..(Len(again) - d) /\ Len(nb) = Len(again) - d /\ Len(nb) \in Nat
        /\ \A j \in DOMAIN nb : j + d \in DOMAIN again /\ nb[j] = again[j + d]
    BY <1>3, <1>7 DEF IsRest, Fits
  <2>2. ASSUME NEW j \in DOMAIN nb
        PROVE  IF nb[j].startEpoch < epoch
               THEN nb[j].status = "AwaitingValidation"
               ELSE Stage(nb[j]) = 3 /\ nb[j].status # "Processing"
    <3> DEFINE k == j + d
    <3>1. k \in DOMAIN again /\ nb[j] = again[k] /\ k \in Nat
      BY <1>3, <2>1
    <3> HIDE DEF k
    <3>2. epoch <= again[k].startEpoch <=> i <= k
      BY <1>2, <1>3, <3>1, EpochsDiffer
    <3>3. again[k].startEpoch \in Nat
      BY <1>2, <3>1, BatchFields DEF Fits
    <3>4. CASE k < i
      <4>1. ~(epoch <= again[k].startEpoch)
        BY <1>3, <3>1, <3>2, <3>4
      <4> QED BY <1>2, <1>3, <3>1, <3>3, <3>4, <4>1
    <3>5. CASE i <= k
      <4>1. ~(again[k].startEpoch < epoch)
        BY <1>3, <3>2, <3>3, <3>5
      <4> QED BY <1>2, <3>1, <3>5, <4>1
    <3> QED BY <1>3, <3>1, <3>4, <3>5
  <2>3. 1 \in DOMAIN nb /\ 1 + d \in DOMAIN again /\ nb[1] = again[1 + d]
    <3>1. i <= Len(again) /\ d <= i - 1 /\ d \in Nat
      BY <1>2, <1>3, <1>7
    <3> QED BY <1>3, <2>1, <3>1
  <2>4. nb[1].startEpoch < epoch \/ nb[1].status = "AwaitingDownload"
    <3> DEFINE k == 1 + d
    <3>1. k \in DOMAIN again /\ nb[1] = again[k] /\ k \in Nat /\ k <= i
      BY <1>3, <1>7, <2>3
    <3> HIDE DEF k
    <3>2. epoch <= again[k].startEpoch <=> i <= k
      BY <1>2, <1>3, <3>1, EpochsDiffer
    <3>3. again[k].startEpoch \in Nat
      BY <1>2, <3>1, BatchFields DEF Fits
    <3>4. k = i \/ ~(i <= k)
      BY <1>3, <3>1
    <3>5. ~(i <= k) => again[k].startEpoch < epoch
      BY <1>3, <3>2, <3>3
    <3> QED BY <1>2, <3>1, <3>4, <3>5
  <2>5. KeepsRequests(nb, again)
    BY <2>1 DEF KeepsRequests
  <2> QED BY <2>1, <2>2, <2>3, <2>4, <2>5
<1>10. bad = Throwing(nb, epoch, r.error) /\ new = FailedUpTo(nb, last, epoch, r.error)
  BY DEF nb, bad, new
<1>11. last = IF bad = {} THEN Len(nb) ELSE Min(bad)
  BY DEF nb, last
<1>12. error = IF bad # {} /\ nb[Min(bad)].status = "AwaitingValidation"
               THEN MaxAttempts(r.error) ELSE "WrongStatus"
  BY DEF nb, error
<1>13. /\ Fits(new, start) /\ Match(new, requests) /\ Bounded(new, requests, "ended")
       /\ DOMAIN new = DOMAIN nb /\ KeepsRequests(new, nb)
       /\ Throwing(nb, epoch, r.error) = {} /\ last = Len(nb) =>
            Bounded(new, requests, "waiting") /\ AwaitUpTo(new, nb, epoch)
  <2> DEFINE e == r.error
  <2>1. new = FailedUpTo(nb, last, epoch, e)
    BY <1>10
  <2>2. ProcessedBefore(nb, epoch)
    BY <1>9 DEF ProcessedBefore
  <2> HIDE DEF e
  <2>3. /\ Fits(new, start) /\ Match(new, requests) /\ Bounded(new, requests, "ended")
    BY <1>7, <1>8, <2>1, <2>2, FailedUpToKeeps
  <2>4. DOMAIN new = DOMAIN nb
    BY <2>1 DEF FailedUpTo
  <2>5. KeepsRequests(new, nb)
    BY <1>7, <1>8, <2>1, <2>2, FailedUpToKeeps
  <2>6. Throwing(nb, epoch, e) = {} /\ last = Len(nb) =>
          Bounded(new, requests, "waiting") /\ AwaitUpTo(new, nb, epoch)
    BY <1>7, <1>8, <2>1, <2>2, FailedUpToKeeps
  <2> QED BY <2>3, <2>4, <2>5, <2>6 DEF e
<1>14. startEpoch' = start
  BY <1>1 DEF start
<1>15. KeepsRequests(new, batches)
  <2>1. KeepsRequests(nb, batches)
    BY <1>2, <1>9, RequestsStayKept
  <2> QED BY <1>13, <2>1, RequestsStayKept
<1>16. CASE bad = {}
  <2>1. /\ Bounded(new, requests, "waiting")
        /\ \A j \in DOMAIN nb :
             IF nb[j].startEpoch < epoch
             THEN new[j].status = "AwaitingDownload"
             ELSE new[j] = nb[j]
    BY <1>10, <1>11, <1>13, <1>16 DEF AwaitUpTo
  <2>2. ASSUME NEW j \in DOMAIN new PROVE Stage(new[j]) = 3 /\ new[j].status # "Processing"
    BY <1>9, <1>13, <2>1, <2>2, StageIs
  <2>3. 1 \in DOMAIN new /\ new[1].status = "AwaitingDownload"
    BY <1>9, <1>13, <2>1
  <2>5. /\ NextIteration(triggered)
        /\ TriggerBatchDownloader(status, new, startEpoch', target, peerset, requests)
    BY <1>1, <1>7, <1>16 DEF start
  <2>6. startEpoch' \in Nat /\ Fits(new, startEpoch')
    BY <1>7, <1>13, <1>14
  <2> QED BY <1>13, <1>15, <2>1, <2>2, <2>3, <2>5, <2>6
<1>17. CASE bad # {}
  <2>1. Throw(error) /\ batches' = new /\ requests' = requests
    BY <1>1, <1>17
  <2>2. Min(bad) \in bad
    <3>1. bad \subseteq Nat
      BY <1>9, <1>10 DEF Throwing
    <3> QED BY <1>17, <3>1, FirstIsMin
  <2> DEFINE m == Min(bad)
  <2> HIDE DEF m
  <2>3. m \in DOMAIN nb /\ nb[m].startEpoch < epoch
    BY <1>10, <2>2 DEF Throwing, m
  <2>4. nb[m].status = "AwaitingValidation"
    BY <1>9, <2>3
  <2>5. error = MaxAttempts(r.error)
    BY <1>12, <1>17, <2>4 DEF m
  <2>7. startEpoch' \in Nat /\ Fits(new, startEpoch')
    BY <1>7, <1>13, <1>14
  <2> QED BY <1>13, <1>15, <2>1, <2>5, <2>7
<1> QED BY <1>16, <1>17

\* So it keeps the invariant.
LEMMA RetriedIInv ==
  ASSUME SyncIInv, loop = "processing", target' = target, peerset' = peerset,
         NEW r, NEW failed, failed = WithFailedAttempt(batches[BatchInProcess], r.error),
         ProcessingRetried(r, failed)
  PROVE  SyncIInv'
<1>1. PICK bs :
        /\ startEpoch' \in Nat /\ Fits(bs, startEpoch') /\ Match(bs, requests)
        /\ \/ /\ NextIteration(triggered)
              /\ TriggerBatchDownloader(status, bs, startEpoch', target, peerset, requests)
              /\ Bounded(bs, requests, "waiting")
              /\ \A j \in DOMAIN bs : Stage(bs[j]) = 3 /\ bs[j].status # "Processing"
           \/ /\ Throw(MaxAttempts(r.error)) /\ Bounded(bs, requests, "ended")
              /\ batches' = bs /\ requests' = requests
  BY RetriedLeaves
<1>2. CASE /\ NextIteration(triggered)
           /\ TriggerBatchDownloader(status, bs, startEpoch', target, peerset, requests)
           /\ Bounded(bs, requests, "waiting")
           /\ \A j \in DOMAIN bs : Stage(bs[j]) = 3 /\ bs[j].status # "Processing"
  <2>1. status = "Syncing" /\ triggered \in BOOLEAN
    BY DEF SyncIInv, Runs
  <2>2. ValidStatuses(bs)
    BY <1>2 DEF ValidStatuses
  <2>3. Runs(status, "woken", bs)
    BY <1>2, <2>1, <2>2 DEF Runs
  <2> QED BY <1>1, <1>2, <2>1, <2>3, ContinueKeepsIInv
<1>3. CASE /\ Throw(MaxAttempts(r.error)) /\ Bounded(bs, requests, "ended")
           /\ batches' = bs /\ requests' = requests
  <2>1. MaxAttempts(r.error) \notin {"WrongStatus", "BadOrder", "Aborted"}
    BY DEF MaxAttempts
  <2>2. /\ Fits(batches', startEpoch') /\ Match(batches', requests)
        /\ Bounded(batches', requests, "ended")
    BY <1>1, <1>3
  <2> QED BY <1>1, <1>3, <2>1, <2>2, ThrowKeepsIInv
<1> QED BY <1>1, <1>2, <1>3

\* Whatever segment fails at whatever block.
LEMMA ProcessingFailsIInv ==
  ASSUME SyncIInv, ProcessingFails
  PROVE  SyncIInv'
<1>1. /\ loop = "processing" /\ target' = target /\ peerset' = peerset
      /\ \E r \in SegmentResults(batches[BatchInProcess].blocks) :
           LET failed == WithFailedAttempt(batches[BatchInProcess], r.error)
           IN  ProcessingExhausted(r.error, failed) \/ ProcessingRetried(r, failed)
  BY DEF ProcessingFails
<1>2. PICK r \in SegmentResults(batches[BatchInProcess].blocks) :
        LET failed == WithFailedAttempt(batches[BatchInProcess], r.error)
        IN  ProcessingExhausted(r.error, failed) \/ ProcessingRetried(r, failed)
  BY <1>1
<1> DEFINE failed == WithFailedAttempt(batches[BatchInProcess], r.error)
<1>3. CASE ProcessingExhausted(r.error, failed)
  BY <1>1, <1>3, ExhaustedIInv
<1>4. CASE ProcessingRetried(r, failed)
  BY <1>1, <1>4, RetriedIInv
<1> QED BY <1>2, <1>3, <1>4

\* Every step keeps the invariant.
LEMMA NextIInv ==
  ASSUME SyncIInv, [Next]_vars
  PROVE  SyncIInv'
<1>1. CASE UNCHANGED vars
  BY <1>1 DEF vars, SyncIInv, Control, Fits, Window, Match, Bounded, Runs, ValidStatuses
<1>2. ASSUME NEW p \in Peer, NEW t \in Targets, AddPeer(p, t) PROVE SyncIInv'
  BY <1>2, AddPeerIInv
<1>3. ASSUME NEW p \in Peer, RemovePeer(p) PROVE SyncIInv'
  BY <1>3, RemovePeerIInv
<1>4. CASE Update
  BY <1>4, UpdateIInv
<1>5. ASSUME NEW r \in requests, NEW blocks \in Answers(r.peer, r.startEpoch),
             DownloadSucceeds(r, blocks)
      PROVE  SyncIInv'
  BY <1>5, DownloadSucceedsIInv
<1>6. ASSUME NEW r \in requests, DownloadFails(r) PROVE SyncIInv'
  BY <1>6, DownloadFailsIInv
<1>7. CASE Iterate
  BY <1>7, IterateIInv
<1>8. CASE Processed
  BY <1>8, ProcessedIInv
<1>9. CASE ProcessingFails
  BY <1>9, ProcessingFailsIInv
<1> QED BY <1>1, <1>2, <1>3, <1>4, <1>5, <1>6, <1>7, <1>8, <1>9 DEF Next

\* The inductive invariant: with any order of answers, failures, segments and peers.
THEOREM SyncInvariance == Spec => []SyncIInv
<1>1. Init => SyncIInv
  BY InitIInv
<1>2. SyncIInv /\ [Next]_vars => SyncIInv'
  BY NextIInv
<1> QED BY <1>1, <1>2, PTL DEF Spec

\* The batches of includeNextBatch, advanceChain and the retries are a window
\* without gap or duplicate from the start of the chain.
THEOREM WindowIsContiguous == Spec => []ContiguousWindow
<1>1. SyncIInv => ContiguousWindow
  BY DEF SyncIInv, Fits, Window, ContiguousWindow
<1> QED BY <1>1, SyncInvariance, PTL

\* validateBatchesStatus and the transitions of Batch never throw.
THEOREM StatusesInOrder == Spec => []StatusesFit
<1>1. SyncIInv => StatusesFit
  BY DEF SyncIInv, Control, Runs, StatusesFit
<1> QED BY <1>1, SyncInvariance, PTL

-----------------------------------------------------------------------------
(* The order of the imports. *)

\* The blocks that a segment imports: the unknown ones up to some slot, which
\* is not beyond a block that is refused.
ImportsUpTo(blocks, upTo, r) ==
  /\ IsLinear(blocks)
  /\ upTo \in Nat
  /\ \A s : s \in r.imported <=> s \in SlotsIn(blocks) /\ s \notin imported /\ s < upTo
  /\ \A b \in Refused(blocks) : upTo <= b.slot
  /\ r.error = "none" => \A s \in SlotsIn(blocks) : s < upTo

\* What Max chooses.
LEMMA GreatestIsMax ==
  ASSUME NEW S, NEW last \in S, \A s \in S : last >= s
  PROVE  Max(S) \in S /\ \A s \in S : Max(S) >= s
BY Zenon DEF Max

\* A segment that is not refused imports up to its last block.
LEMMA InfinityIsAbove ==
  Infinity \in Nat /\ \A s \in Chain : s < Infinity
<1>1. PICK last \in Chain : \A s \in Chain : s <= last
  BY SyncChainAssumption
<1>2. Chain \subseteq Nat
  BY SyncChainAssumption
<1>3. \A s \in Chain : last >= s
  BY <1>1, <1>2
<1>4. Max(Chain) \in Chain /\ \A s \in Chain : Max(Chain) >= s
  BY <1>3, GreatestIsMax, Zenon
<1> DEFINE top == Max(Chain)
<1>5. Infinity = 1 + top /\ top \in Chain /\ \A s \in Chain : top >= s
  BY <1>4 DEF Infinity
<1> HIDE DEF top
<1> QED BY <1>2, <1>5

\* The results of a segment that stops at a slot: nothing is tried, all up to
\* that slot is imported, or a block up to it fails before or in its import.
SegmentCase(blocks, stop, r) ==
  \/ \E error \in {"Block", "Local"} :
       r = Segment(0, blocks, error) /\ (error = "Block" => ~IsLinear(blocks))
  \/ /\ IsLinear(blocks)
     /\ r = Segment(stop, blocks, IF stop = Infinity THEN "none" ELSE "Block")
  \/ /\ IsLinear(blocks)
     /\ \E b \in Unknown(blocks) :
          /\ b.slot <= stop
          /\ \E error \in {"Engine", "Local"} : r = Segment(b.slot, blocks, error)
  \/ /\ IsLinear(blocks)
     /\ \E b \in Unknown(blocks) : b.slot < stop /\ r = ImportThrows(b.slot, blocks)

\* Every result is one of these.
LEMMA SegmentCases ==
  ASSUME NEW blocks, NEW r \in SegmentResults(blocks)
  PROVE  SegmentCase(blocks, Min({b.slot : b \in Refused(blocks)} \cup {Infinity}), r)
<1> DEFINE stop == Min({b.slot : b \in Refused(blocks)} \cup {Infinity})
           tried == {b.slot : b \in {c \in Unknown(blocks) :
                                       c.slot <= stop /\ ~IsOrphan(c, blocks)}}
<1> SUFFICES SegmentCase(blocks, stop, r)
  OBVIOUS
<1> HIDE DEF stop
<1>1. \A slot \in tried : \E b \in Unknown(blocks) : b.slot = slot /\ b.slot <= stop
  OBVIOUS
<1>2. CASE ~IsLinear(blocks)
  <2>1. r = Segment(0, blocks, "Block") \/ r \in LocalFailures(blocks, {}, 0)
    BY <1>2 DEF SegmentResults
  <2>2. r \in LocalFailures(blocks, {}, 0) => r = Segment(0, blocks, "Local")
    BY DEF LocalFailures
  <2> QED BY <1>2, <2>1, <2>2 DEF SegmentCase
<1>3. CASE IsLinear(blocks)
  <2>1. \/ r = Segment(stop, blocks, IF stop = Infinity THEN "none" ELSE "Block")
        \/ \E slot \in tried : r = Segment(slot, blocks, "Engine")
        \/ r \in LocalFailures(blocks, tried, stop)
    BY <1>3 DEF SegmentResults, stop
  <2> HIDE DEF tried
  <2>2. r \in LocalFailures(blocks, tried, stop) =>
          \/ r = Segment(0, blocks, "Local")
          \/ \E slot \in tried : r = Segment(slot, blocks, "Local")
          \/ \E slot \in tried : slot < stop /\ r = ImportThrows(slot, blocks)
    BY DEF LocalFailures
  <2>3. ASSUME NEW slot \in tried, NEW error \in {"Engine", "Local"}, r = Segment(slot, blocks, error)
        PROVE  SegmentCase(blocks, stop, r)
    BY <1>1, <1>3, <2>3 DEF SegmentCase
  <2>4. ASSUME NEW slot \in tried, slot < stop, r = ImportThrows(slot, blocks)
        PROVE  SegmentCase(blocks, stop, r)
    BY <1>1, <1>3, <2>4 DEF SegmentCase
  <2>5. CASE r = Segment(0, blocks, "Local")
    <3>1. "Local" \in {"Block", "Local"} /\ "Local" # "Block"
      OBVIOUS
    <3> QED BY <2>5, <3>1, Zenon DEF SegmentCase
  <2>6. CASE r = Segment(stop, blocks, IF stop = Infinity THEN "none" ELSE "Block")
    BY <1>3, <2>6, Zenon DEF SegmentCase
  <2>7. \/ r = Segment(0, blocks, "Local")
        \/ r = Segment(stop, blocks, IF stop = Infinity THEN "none" ELSE "Block")
        \/ \E slot \in tried : \E error \in {"Engine", "Local"} : r = Segment(slot, blocks, error)
        \/ \E slot \in tried : slot < stop /\ r = ImportThrows(slot, blocks)
    BY <2>1, <2>2
  <2> QED BY <2>3, <2>4, <2>5, <2>6, <2>7
<1> QED BY <1>2, <1>3

\* The outcomes of a segment, and what importedBlocks counts.
LEMMA SegmentFields ==
  ASSUME NEW blocks, NEW r \in SegmentResults(blocks)
  PROVE  r.error \in {"none", "Block", "Engine", "Local"} /\ r.counted \subseteq r.imported
<1>1. \A upTo, error : /\ Segment(upTo, blocks, error).error = error
                       /\ Segment(upTo, blocks, error).counted
                            = Segment(upTo, blocks, error).imported
  BY DEF Segment
<1>2. \A slot : /\ ImportThrows(slot, blocks).error = "Local"
                /\ ImportThrows(slot, blocks).counted \subseteq ImportThrows(slot, blocks).imported
  BY DEF ImportThrows, Segment
<1>3. PICK stop : SegmentCase(blocks, stop, r)
  BY SegmentCases
<1>4. ASSUME NEW upTo, NEW error \in {"none", "Block", "Engine", "Local"},
             r = Segment(upTo, blocks, error)
      PROVE  r.error \in {"none", "Block", "Engine", "Local"} /\ r.counted \subseteq r.imported
  BY <1>1, <1>4
<1>5. \/ \E upTo : \E error \in {"none", "Block", "Engine", "Local"} :
            r = Segment(upTo, blocks, error)
      \/ \E slot : r = ImportThrows(slot, blocks)
  BY <1>3 DEF SegmentCase
<1> QED BY <1>2, <1>4, <1>5

\* A result imports nothing, or the unknown blocks up to a slot before the refused ones.
LEMMA SegmentImports ==
  ASSUME NEW blocks, blocks \subseteq [slot : Chain, valid : BOOLEAN],
         NEW r \in SegmentResults(blocks)
  PROVE  (r.imported = {} /\ r.error # "none") \/ \E upTo : ImportsUpTo(blocks, upTo, r)
<1> DEFINE stops == {b.slot : b \in Refused(blocks)} \cup {Infinity}
           stop == Min(stops)
<1>1. Chain \subseteq Nat /\ \A b \in blocks : b.slot \in Nat /\ b.slot \in Chain
  BY SyncChainAssumption
<1>2. Refused(blocks) \subseteq blocks
  BY DEF Refused, Unknown
<1>3. stop \in Nat /\ stop \in stops /\ \A s \in stops : stop <= s
  <2>1. stops \subseteq Nat
    BY <1>1, <1>2, InfinityIsAbove
  <2>2. stops # {}
    OBVIOUS
  <2> HIDE DEF stops
  <2>3. PICK m \in stops : \A k \in stops : m <= k
    BY <2>1, <2>2, LeastNatural
  <2>4. stop \in stops /\ \A s \in stops : stop <= s
    BY <2>3 DEF Min
  <2> QED BY <2>1, <2>4
<1>4. \A b \in Refused(blocks) : stop <= b.slot
  BY <1>3
<1> HIDE DEF stop
<1>5. ASSUME NEW upTo, NEW error, r = Segment(upTo, blocks, error)
      PROVE  /\ r.error = error
             /\ \A s : s \in r.imported <=> s \in SlotsIn(blocks) /\ s \notin imported /\ s < upTo
  BY <1>5 DEF Segment, Below, Unknown, SlotsIn
<1>6. ASSUME NEW error, r = Segment(0, blocks, error)
      PROVE  r.imported = {} /\ r.error = error
  <2>1. r.error = error /\ \A s : s \in r.imported => s \in SlotsIn(blocks) /\ s < 0
    BY <1>5, <1>6
  <2>2. \A s \in SlotsIn(blocks) : s \in Nat
    BY <1>1 DEF SlotsIn
  <2>3. ASSUME NEW s \in r.imported PROVE FALSE
    BY <2>1, <2>2, <2>3
  <2> QED BY <2>1, <2>3
<1>7. ASSUME NEW upTo \in Nat, upTo <= stop, IsLinear(blocks), r.error # "none",
             \A s : s \in r.imported <=> s \in SlotsIn(blocks) /\ s \notin imported /\ s < upTo
      PROVE  ImportsUpTo(blocks, upTo, r)
  <2>1. \A c \in Refused(blocks) : upTo <= c.slot
    BY <1>1, <1>2, <1>3, <1>4, <1>7
  <2> QED BY <1>7, <2>1 DEF ImportsUpTo
<1>8. SegmentCase(blocks, stop, r)
  BY SegmentCases DEF stop
<1>9. CASE \E error : error # "none" /\ r = Segment(0, blocks, error)
  BY <1>6, <1>9
<1>10. CASE IsLinear(blocks) /\ r = Segment(stop, blocks, IF stop = Infinity THEN "none" ELSE "Block")
  <2>1. /\ r.error = IF stop = Infinity THEN "none" ELSE "Block"
        /\ \A s : s \in r.imported <=> s \in SlotsIn(blocks) /\ s \notin imported /\ s < stop
    BY <1>5, <1>10
  <2>2. r.error = "none" => \A s \in SlotsIn(blocks) : s < stop
    BY <1>1, <2>1, InfinityIsAbove DEF SlotsIn
  <2> QED BY <1>3, <1>4, <1>10, <2>1, <2>2 DEF ImportsUpTo
<1>11. ASSUME IsLinear(blocks), NEW b \in Unknown(blocks), b.slot <= stop,
              NEW error, error # "none", r = Segment(b.slot, blocks, error)
       PROVE  \E upTo : ImportsUpTo(blocks, upTo, r)
  <2>1. b.slot \in Nat
    BY <1>1 DEF Unknown
  <2>2. /\ r.error = error
        /\ \A s : s \in r.imported <=> s \in SlotsIn(blocks) /\ s \notin imported /\ s < b.slot
    BY <1>5, <1>11
  <2>3. ImportsUpTo(blocks, b.slot, r)
    BY <1>7, <1>11, <2>1, <2>2
  <2> QED BY <2>3
<1>12. ASSUME IsLinear(blocks), NEW b \in Unknown(blocks), b.slot < stop,
              r = ImportThrows(b.slot, blocks)
       PROVE  \E upTo : ImportsUpTo(blocks, upTo, r)
  <2> DEFINE slot == b.slot
  <2>1. slot \in Nat /\ slot < stop /\ slot \in SlotsIn(blocks) /\ slot \notin imported
    BY <1>1, <1>12 DEF Unknown, SlotsIn
  <2>2. r.error = "Local" /\ r.imported = Below(slot, blocks) \cup {slot}
    BY <1>12 DEF ImportThrows, Segment
  <2> HIDE DEF slot
  <2>3. \A s : s \in Below(slot, blocks) <=> s \in SlotsIn(blocks) /\ s \notin imported /\ s < slot
    BY DEF Below, Unknown, SlotsIn
  <2>4. \A s \in SlotsIn(blocks) : s \in Nat
    BY <1>1 DEF SlotsIn
  <2>5. \A s : s \in r.imported <=> s \in SlotsIn(blocks) /\ s \notin imported /\ s < slot + 1
    <3>1. \A s \in SlotsIn(blocks) : s < slot + 1 <=> s < slot \/ s = slot
      BY <2>1, <2>4
    <3> QED BY <2>1, <2>2, <2>3, <3>1
  <2>6. slot + 1 \in Nat /\ slot + 1 <= stop
    BY <1>3, <2>1
  <2>7. ImportsUpTo(blocks, slot + 1, r)
    BY <1>7, <1>12, <2>2, <2>5, <2>6
  <2> QED BY <2>7
<1> QED BY <1>8, <1>9, <1>10, <1>11, <1>12 DEF SegmentCase

\* All slots before the first block of a segment that imports some are imported.
LEMMA ParentsAreImported ==
  ASSUME imported \subseteq Chain, InOrder(imported), NEW epoch \in Nat,
         NEW blocks, blocks \subseteq [slot : Chain, valid : BOOLEAN],
         \A b \in blocks : b.slot \in SlotsOf(epoch),
         NEW upTo, NEW r, ImportsUpTo(blocks, upTo, r), r.imported # {}
  PROVE  \E first \in SlotsIn(blocks) :
           /\ \A s \in SlotsIn(blocks) : first <= s
           /\ \A s \in Chain : s < first => s \in imported
<1> DEFINE slots == SlotsIn(blocks)
<1>1. Chain \subseteq Nat /\ \A b \in blocks : b.slot \in Nat /\ b.slot \in Chain
  BY SyncChainAssumption
<1>2. slots \subseteq Chain /\ slots \subseteq Nat
  BY <1>1 DEF SlotsIn
<1>3. PICK x \in r.imported : TRUE
  OBVIOUS
<1>4. x \in slots /\ x \notin imported /\ x < upTo /\ upTo \in Nat
  BY <1>3 DEF ImportsUpTo
<1>5. PICK first \in slots : \A s \in slots : first <= s
  <2> HIDE DEF slots
  <2> QED BY <1>2, <1>4, LeastNatural
<1>6. PICK b \in blocks : b.slot = first
  BY DEF SlotsIn
<1>7. first \in Nat /\ first >= 1 /\ first <= x
  <2>1. first \in StartSlot(epoch) + 1 .. StartSlot(epoch) + EPOCHS_PER_BATCH * SLOTS_PER_EPOCH
    BY <1>6 DEF SlotsOf
  <2>2. StartSlot(epoch) \in Nat
    BY SyncChainAssumption DEF StartSlot
  <2> HIDE DEF slots
  <2> QED BY <1>2, <1>4, <1>5, <2>1, <2>2
<1>8. ASSUME NEW s \in Chain, s < first PROVE s \in imported
  <2>1. CASE first \in imported
    BY <1>1, <1>7, <1>8, <2>1 DEF InOrder
  <2>2. CASE first \notin imported
    <3>1. b \notin Refused(blocks)
      <4>1. ~(upTo <= b.slot)
        BY <1>1, <1>2, <1>4, <1>6, <1>7
      <4> QED BY <4>1 DEF ImportsUpTo
    <3>2. ParentIsKnown(b.slot)
      <4>1. b \in Unknown(blocks)
        BY <1>6, <2>2 DEF Unknown
      <4>2. \A c \in blocks : b.slot <= c.slot
        BY <1>5, <1>6 DEF SlotsIn
      <4> QED BY <3>1, <4>1, <4>2 DEF Refused, IsOrphan
    <3> DEFINE before == {c \in Chain : c < first}
    <3>3. Max(before) \in imported
      BY <1>6, <3>2 DEF ParentIsKnown
    <3>4. PICK last \in before : \A c \in before : c <= last
      <4>1. before \subseteq Nat /\ 0 \in before /\ \A c \in before : c <= first
        <5>1. before \subseteq Nat
          BY <1>1
        <5>2. 0 \in Chain /\ 0 < first
          BY <1>7, SyncChainAssumption
        <5>3. ASSUME NEW c \in before PROVE c <= first
          BY <1>1, <1>7
        <5> QED BY <5>1, <5>2, <5>3
      <4> HIDE DEF before
      <4> QED BY <1>7, <4>1, GreatestNatural
    <3>5. \A c \in before : last >= c
      BY <1>1, <3>4
    <3>6. \A c \in before : Max(before) >= c
      <4> HIDE DEF before
      <4> QED BY <3>5, GreatestIsMax
    <3>7. s \in before /\ s \in Nat /\ Max(before) >= s /\ Max(before) \in Nat
      BY <1>1, <1>8, <3>3, <3>6
    <3> HIDE DEF before
    <3>8. s <= Max(before)
      BY <3>7
    <3> QED BY <3>3, <3>8 DEF InOrder
  <2> QED BY <2>1, <2>2
<1> QED BY <1>5, <1>8

\* After a segment was processed the chain is imported in order, and if the
\* batch validates those before it, it is imported up to its first slot.
LEMMA SegmentKeepsOrder ==
  ASSUME imported \subseteq Chain, InOrder(imported), NEW epoch \in Nat,
         NEW blocks, blocks \subseteq [slot : Chain, valid : BOOLEAN],
         \A b \in blocks : b.slot \in SlotsOf(epoch),
         NEW r \in SegmentResults(blocks)
  PROVE  /\ imported \cup r.imported \subseteq Chain
         /\ InOrder(imported \cup r.imported)
         /\ (r.error = "none" /\ blocks # {}) \/ r.imported # {} =>
              \A c \in Chain : c <= StartSlot(epoch) => c \in imported \cup r.imported
<1> DEFINE slots == SlotsIn(blocks)
           now == imported \cup r.imported
<1>1. Chain \subseteq Nat /\ \A b \in blocks : b.slot \in Nat /\ b.slot \in Chain
  BY SyncChainAssumption
<1>2. slots \subseteq Chain /\ slots \subseteq Nat
  BY <1>1 DEF SlotsIn
<1>3. ASSUME NEW s \in slots PROVE StartSlot(epoch) < s /\ StartSlot(epoch) \in Nat
  <2>1. s \in SlotsOf(epoch)
    BY <1>3 DEF SlotsIn
  <2>2. StartSlot(epoch) \in Nat
    BY SyncChainAssumption DEF StartSlot
  <2> DEFINE start == StartSlot(epoch)
             end == StartSlot(epoch) + EPOCHS_PER_BATCH * SLOTS_PER_EPOCH
  <2>3. s \in start + 1 .. end
    BY <2>1 DEF SlotsOf
  <2> HIDE DEF start, end
  <2>4. start \in Nat
    BY <2>2 DEF start
  <2>5. start < s /\ start \in Nat
    BY <1>2, <1>3, <2>3, <2>4
  <2> QED BY <2>5 DEF start
<1>4. ASSUME InOrder(now), NEW s \in now, s \in slots
      PROVE  \A c \in Chain : c <= StartSlot(epoch) => c \in now
  <2> SUFFICES ASSUME NEW c \in Chain, c <= StartSlot(epoch) PROVE c \in now
    OBVIOUS
  <2>1. c <= s
    BY <1>1, <1>2, <1>3, <1>4
  <2> HIDE DEF now
  <2> QED BY <1>4, <2>1 DEF InOrder
<1>5. CASE r.imported = {} /\ r.error # "none"
  BY <1>5
<1>6. ASSUME NEW upTo, ImportsUpTo(blocks, upTo, r), r.imported = {}
      PROVE  /\ now \subseteq Chain /\ InOrder(now)
             /\ r.error = "none" /\ blocks # {} =>
                  \A c \in Chain : c <= StartSlot(epoch) => c \in now
  <2>1. now = imported
    BY <1>6
  <2>2. ASSUME r.error = "none", blocks # {}
        PROVE  \E s \in slots : s \in now
    <3>1. PICK s \in slots : TRUE
      BY <2>2 DEF SlotsIn
    <3>2. s < upTo
      BY <1>6, <2>2 DEF ImportsUpTo
    <3> QED BY <1>6, <3>2 DEF ImportsUpTo
  <2> HIDE DEF now
  <2> QED BY <1>4, <2>1, <2>2
<1>7. ASSUME NEW upTo, ImportsUpTo(blocks, upTo, r), r.imported # {}
      PROVE  /\ now \subseteq Chain /\ InOrder(now)
             /\ \A c \in Chain : c <= StartSlot(epoch) => c \in now
  <2>1. \A s : s \in r.imported <=> s \in slots /\ s \notin imported /\ s < upTo
    BY <1>7 DEF ImportsUpTo
  <2>2. now \subseteq Chain
    BY <1>2, <2>1
  <2>3. PICK first \in slots :
           /\ \A s \in slots : first <= s
           /\ \A s \in Chain : s < first => s \in imported
    BY <1>7, ParentsAreImported
  <2>4. upTo \in Nat /\ IsLinear(blocks)
    BY <1>7 DEF ImportsUpTo
  <2>5. InOrder(now)
    <3> SUFFICES ASSUME NEW s \in now, NEW c \in Chain, c <= s PROVE c \in now
      BY DEF InOrder
    <3>1. CASE s \in imported
      BY <3>1 DEF InOrder
    <3>2. CASE c < first
      BY <2>3, <3>2
    <3>3. CASE s \in r.imported /\ first <= c
      <4>1. s \in slots /\ s < upTo /\ s \in Nat /\ c \in Nat /\ first \in Nat
        BY <1>1, <1>2, <2>1, <3>3
      <4>2. c \in slots
        <5>1. CASE first < c /\ c < s
          <6> HIDE DEF now
          <6> QED BY <2>4, <4>1, <5>1 DEF IsLinear
        <5>2. CASE c = first \/ c = s
          BY <4>1, <5>2
        <5> QED BY <3>3, <4>1, <5>1, <5>2
      <4>3. c < upTo
        BY <2>4, <4>1
      <4> QED BY <2>1, <4>2, <4>3
    <3>4. first \in Nat /\ c \in Nat
      BY <1>1, <1>2
    <3>5. c < first \/ first <= c
      BY <3>4
    <3> QED BY <3>1, <3>2, <3>3, <3>5
  <2>6. PICK x \in r.imported : TRUE
    BY <1>7
  <2>7. x \in now /\ x \in slots
    BY <2>1
  <2> HIDE DEF now
  <2> QED BY <1>4, <2>2, <2>5, <2>7
<1>8. (r.imported = {} /\ r.error # "none") \/ \E upTo : ImportsUpTo(blocks, upTo, r)
  BY SegmentImports
<1>9. CASE r.imported = {} /\ r.error = "none"
  BY <1>6, <1>8, <1>9
<1>10. CASE r.imported # {}
  BY <1>7, <1>8, <1>10
<1> QED BY <1>5, <1>9, <1>10

\* A later epoch starts at a later slot.
LEMMA StartSlotGrows ==
  ASSUME NEW a \in Nat, NEW b \in Nat, a <= b
  PROVE  StartSlot(a) \in Nat /\ StartSlot(b) \in Nat /\ StartSlot(a) <= StartSlot(b)
<1>1. SLOTS_PER_EPOCH \in Nat
  BY SyncChainAssumption
<1>2. PICK d \in Nat : b = a + d
  <2>1. b - a \in Nat /\ b = a + (b - a)
    OBVIOUS
  <2> QED BY <2>1
<1>3. /\ a * SLOTS_PER_EPOCH \in Nat /\ d * SLOTS_PER_EPOCH \in Nat
      /\ b * SLOTS_PER_EPOCH = a * SLOTS_PER_EPOCH + d * SLOTS_PER_EPOCH
  BY <1>1, <1>2
<1> QED BY <1>3 DEF StartSlot

\* The start of the chain only moves to the epoch it is advanced to, forward.
LEMMA AdvancedStart ==
  ASSUME startEpoch \in Nat, NEW bs, NEW epoch \in Nat
  PROVE  /\ Advanced(bs, epoch).start \in {startEpoch, epoch}
         /\ startEpoch <= Advanced(bs, epoch).start
<1>1. Advanced(bs, epoch).start = IF epoch <= startEpoch THEN startEpoch ELSE epoch
  BY DEF Advanced
<1> QED BY <1>1

\* What is known of the batch whose segment was processed.
LEMMA SegmentOfBatch ==
  ASSUME SyncIInv, ImportedInOrder, loop = "processing", NEW i, i = BatchInProcess,
         NEW r \in SegmentResults(batches[i].blocks)
  PROVE  /\ startEpoch \in Nat /\ batches[i].startEpoch \in Nat
         /\ imported \cup r.imported \subseteq Chain
         /\ InOrder(imported \cup r.imported)
         /\ (r.error = "none" /\ batches[i].blocks # {}) \/ r.imported # {} =>
              \A c \in Chain : c <= StartSlot(batches[i].startEpoch) =>
                c \in imported \cup r.imported
<1>1. batches[i] \in Batch
  BY BatchInProcessIs
<1> DEFINE blocks == batches[i].blocks
           epoch == batches[i].startEpoch
<1>2. /\ epoch \in Nat /\ blocks \subseteq [slot : Chain, valid : BOOLEAN]
      /\ \A c \in blocks : c.slot \in SlotsOf(epoch)
  BY <1>1, BatchFields
<1>3. r \in SegmentResults(blocks) /\ imported \subseteq Chain /\ InOrder(imported)
  BY DEF ImportedInOrder
<1> HIDE DEF blocks, epoch
<1>4. /\ imported \cup r.imported \subseteq Chain
      /\ InOrder(imported \cup r.imported)
      /\ (r.error = "none" /\ blocks # {}) \/ r.imported # {} =>
           \A c \in Chain : c <= StartSlot(epoch) => c \in imported \cup r.imported
  BY <1>2, <1>3, SegmentKeepsOrder
<1>5. startEpoch \in Nat
  BY DEF SyncIInv
<1> QED BY <1>2, <1>4, <1>5 DEF blocks, epoch

\* The chain grows in order.
Grows ==
  /\ ImportedInOrder' /\ imported \subseteq imported'
  /\ startEpoch \in Nat /\ startEpoch' \in Nat /\ startEpoch <= startEpoch'

\* Imports in order keep the chain in order, and cover a new start if they reach it.
LEMMA AdvanceGrows ==
  ASSUME ImportedInOrder, startEpoch \in Nat, NEW more, imported' = imported \cup more,
         imported \cup more \subseteq Chain, InOrder(imported \cup more),
         NEW epoch \in Nat, startEpoch' \in {startEpoch, epoch}, startEpoch <= startEpoch',
         startEpoch' # startEpoch =>
           \A c \in Chain : c <= StartSlot(epoch) => c \in imported \cup more
  PROVE  Grows
<1>1. \A c \in Chain : c <= StartSlot(startEpoch) => c \in imported \cup more
  BY DEF ImportedInOrder
<1>2. \A c \in Chain : c <= StartSlot(startEpoch') => c \in imported'
  <2>1. CASE startEpoch' = startEpoch
    BY <1>1, <2>1
  <2>2. CASE startEpoch' # startEpoch
    <3>1. startEpoch' = epoch
      BY <2>2
    <3> QED BY <2>2, <3>1
  <2> QED BY <2>1, <2>2
<1> QED BY <1>2 DEF Grows, ImportedInOrder, InOrder

\* A chain whose loop has not ended is not synced by another iteration, and
\* one that is synced stays so.
NotFinished == status' = "Synced" <=> status = "Synced"

\* Only Finish makes a chain synced.
LEMMA LoopIsNotFinished ==
  ASSUME SyncIInv
  PROVE  /\ Trigger => NotFinished
         /\ UNCHANGED loopVars => NotFinished
         /\ \A error, present : End(error, present) => NotFinished
         /\ loop # "ended" => \A error : Throw(error) => NotFinished
         /\ loop # "ended" => \A flag : NextIteration(flag) => NotFinished
         /\ \A tgt : UpdateAfterJoin(tgt) => NotFinished
<1>1. status = "Synced" => loop = "ended"
  BY DEF SyncIInv, Runs
<1>2. ASSUME NEW error, NEW present, Leave(error, present), loop # "ended" PROVE NotFinished
  BY <1>1, <1>2 DEF Leave, NotFinished
<1>3. ASSUME NEW error, NEW present, End(error, present) PROVE NotFinished
  <2>1. CASE loop = "waiting"
    BY <1>2, <1>3, <2>1 DEF End
  <2>2. CASE loop # "waiting"
    BY <1>3, <2>2 DEF End, NotFinished
  <2> QED BY <2>1, <2>2
<1>4. ASSUME NEW flag, NextIteration(flag), loop # "ended" PROVE NotFinished
  <2>1. CASE iterError # "none"
    BY <1>2, <1>4, <2>1 DEF NextIteration, Throw
  <2>2. CASE ~(iterError # "none")
    BY <1>4, <2>2 DEF NextIteration, NotFinished
  <2> QED BY <2>1, <2>2
<1>5. ASSUME NEW tgt, UpdateAfterJoin(tgt) PROVE NotFinished
  <2>1. CASE IsKnown(tgt)
    BY <1>3, <1>5, <2>1 DEF UpdateAfterJoin
  <2>2. CASE ~IsKnown(tgt) /\ status = "Stopped"
    BY <1>5, <2>2 DEF UpdateAfterJoin, NotFinished
  <2>3. CASE ~IsKnown(tgt) /\ status # "Stopped"
    BY <1>5, <2>3 DEF UpdateAfterJoin, loopVars, NotFinished
  <2> QED BY <2>1, <2>2, <2>3
<1>6. Trigger \/ UNCHANGED loopVars => NotFinished
  BY DEF Trigger, loopVars, NotFinished
<1> QED BY <1>2, <1>3, <1>4, <1>5, <1>6 DEF Throw

\* A segment without an error: with blocks, they are in the fork choice.
LEMMA ProcessedGrows ==
  ASSUME SyncIInv, ImportedInOrder, Processed
  PROVE  Grows /\ status = "Syncing" /\ NotFinished
<1> DEFINE i == BatchInProcess
           done == [batches EXCEPT ![i] = ProcessingSuccess(@)]
           epoch == IF Validates(batches[i].blocks) THEN batches[i].startEpoch ELSE startEpoch
           next == Advanced(done, epoch)
<1>1. loop = "processing" /\ startEpoch' = next.start
  BY DEF Processed
<1>2. PICK r \in SegmentResults(batches[i].blocks) :
        r.error = "none" /\ imported' = imported \cup r.imported
  BY DEF Processed
<1>3. NextIteration(TRUE) \/ Throw("WrongStatus")
  BY DEF Processed
<1>4. status = "Syncing" /\ NotFinished
  BY <1>1, <1>3, BatchInProcessIs, LoopIsNotFinished
<1> HIDE DEF i, done
<1>5. i = BatchInProcess
  BY DEF i
<1>6. /\ startEpoch \in Nat /\ batches[i].startEpoch \in Nat
      /\ imported \cup r.imported \subseteq Chain
      /\ InOrder(imported \cup r.imported)
      /\ (r.error = "none" /\ batches[i].blocks # {}) \/ r.imported # {} =>
           \A c \in Chain : c <= StartSlot(batches[i].startEpoch) =>
             c \in imported \cup r.imported
  BY <1>1, <1>2, <1>5, SegmentOfBatch
<1>7. epoch \in Nat
  BY <1>6
<1>8. epoch # startEpoch => \A c \in Chain : c <= StartSlot(epoch) => c \in imported \cup r.imported
  BY <1>2, <1>6 DEF Validates
<1> HIDE DEF epoch
<1>9. startEpoch' \in {startEpoch, epoch} /\ startEpoch <= startEpoch'
  BY <1>1, <1>6, <1>7, AdvancedStart
<1> HIDE DEF next
<1>10. Grows
  BY <1>2, <1>6, <1>7, <1>8, <1>9, AdvanceGrows
<1> QED BY <1>4, <1>10

\* A segment with an error: the start only moves if a block was imported.
LEMMA ProcessingFailsGrows ==
  ASSUME SyncIInv, ImportedInOrder, ProcessingFails
  PROVE  Grows /\ status = "Syncing" /\ NotFinished
<1> DEFINE i == BatchInProcess
<1>1. loop = "processing"
  BY DEF ProcessingFails
<1>2. PICK r \in SegmentResults(batches[i].blocks) :
        LET failed == WithFailedAttempt(batches[i], r.error)
        IN  /\ r.error # "none" /\ imported' = imported \cup r.imported
            /\ ProcessingExhausted(r.error, failed) \/ ProcessingRetried(r, failed)
  BY DEF ProcessingFails
<1> DEFINE failed == WithFailedAttempt(batches[i], r.error)
           again == [batches EXCEPT ![i] = Again(failed)]
           epoch == IF r.counted = {} THEN startEpoch ELSE failed.startEpoch
<1>3. \/ \E error : Throw(error)
      \/ NextIteration(triggered)
  BY <1>2 DEF ProcessingExhausted, ProcessingRetried
<1>4. status = "Syncing" /\ NotFinished
  BY <1>1, <1>3, BatchInProcessIs, LoopIsNotFinished
<1>5. startEpoch' = startEpoch \/ startEpoch' = Advanced(again, epoch).start
  BY <1>2 DEF ProcessingExhausted, ProcessingRetried
<1> HIDE DEF i
<1>6. i = BatchInProcess
  BY DEF i
<1>7. /\ startEpoch \in Nat /\ batches[i].startEpoch \in Nat
      /\ imported \cup r.imported \subseteq Chain
      /\ InOrder(imported \cup r.imported)
      /\ (r.error = "none" /\ batches[i].blocks # {}) \/ r.imported # {} =>
           \A c \in Chain : c <= StartSlot(batches[i].startEpoch) =>
             c \in imported \cup r.imported
  BY <1>1, <1>2, <1>6, SegmentOfBatch
<1>8. failed.startEpoch = batches[i].startEpoch
  BY DEF WithFailedAttempt
<1>9. epoch \in Nat
  BY <1>7, <1>8
<1>10. epoch # startEpoch => \A c \in Chain : c <= StartSlot(epoch) => c \in imported \cup r.imported
  <2>1. r.counted \subseteq r.imported
    BY SegmentFields
  <2> QED BY <1>7, <1>8, <2>1
<1> HIDE DEF epoch, again
<1>11. startEpoch' \in {startEpoch, epoch} /\ startEpoch <= startEpoch'
  BY <1>5, <1>7, <1>9, AdvancedStart
<1>12. imported' = imported \cup r.imported
  BY <1>2
<1>13. Grows
  BY <1>7, <1>9, <1>10, <1>11, <1>12, AdvanceGrows
<1> QED BY <1>4, <1>13

\* What a step is to the order of the imports: it imports, or it finishes, or
\* it is nothing to it.
OrderStep ==
  \/ Grows /\ status # "Synced" /\ NotFinished
  \/ /\ imported' = imported /\ startEpoch' = startEpoch
     /\ NotFinished \/ (status # "Synced" /\ status' = "Synced")

\* Every step is one of three to the order of the imports.
LEMMA NextOrders ==
  ASSUME SyncIInv, ImportedInOrder, [Next]_vars
  PROVE  OrderStep
<1> DEFINE Kept == imported' = imported /\ startEpoch' = startEpoch /\ NotFinished
<1>1. CASE UNCHANGED vars
  BY <1>1 DEF vars, OrderStep, NotFinished
<1>2. ASSUME NEW p \in Peer, NEW t \in Targets, AddPeer(p, t) PROVE Kept
  BY <1>2, LoopIsNotFinished DEF AddPeer
<1>3. ASSUME NEW p \in Peer, RemovePeer(p) PROVE Kept
  BY <1>3, LoopIsNotFinished DEF RemovePeer
<1>4. ASSUME Update PROVE Kept
  BY <1>4, LoopIsNotFinished DEF Update
<1>5. ASSUME NEW r \in requests, NEW blocks, DownloadSucceeds(r, blocks) PROVE Kept
  BY <1>5, LoopIsNotFinished DEF DownloadSucceeds
<1>6. ASSUME NEW r \in requests, DownloadFails(r) PROVE Kept
  BY <1>6, LoopIsNotFinished DEF DownloadFails
<1>7. ASSUME Iterate PROVE OrderStep
  <2>1. loop = "woken" /\ imported' = imported /\ startEpoch' = startEpoch
    BY <1>7 DEF Iterate
  <2>2. \/ NextIteration(triggered) \/ Throw("BadOrder")
        \/ status = "Syncing" /\ Finish
        \/ \E i \in NextBatchToProcess(batches) : StartProcessing(i)
    BY <1>7 DEF Iterate
  <2>3. ASSUME NEW i, StartProcessing(i) PROVE NotFinished
    BY <2>3 DEF StartProcessing, NotFinished
  <2>4. ASSUME status = "Syncing", Finish PROVE status # "Synced" /\ status' = "Synced"
    BY <2>4 DEF Finish
  <2>5. NextIteration(triggered) \/ Throw("BadOrder") => NotFinished
    BY <2>1, LoopIsNotFinished
  <2> QED BY <2>1, <2>2, <2>3, <2>4, <2>5 DEF OrderStep
<1>8. CASE Processed
  BY <1>8, ProcessedGrows DEF OrderStep
<1>9. CASE ProcessingFails
  BY <1>9, ProcessingFailsGrows DEF OrderStep
<1>10. Kept => OrderStep
  BY DEF OrderStep
<1> HIDE DEF Kept
<1> QED BY <1>1, <1>2, <1>3, <1>4, <1>5, <1>6, <1>7, <1>8, <1>9, <1>10 DEF Next

\* They keep the imports in order.
LEMMA OrderStepKeeps ==
  ASSUME ImportedInOrder, OrderStep
  PROVE  ImportedInOrder'
<1>1. CASE Grows
  BY <1>1 DEF Grows
<1>2. CASE imported' = imported /\ startEpoch' = startEpoch
  BY <1>2 DEF ImportedInOrder, InOrder
<1> QED BY <1>1, <1>2 DEF OrderStep

\* A chain begins with the blocks up to its first epoch.
LEMMA InitInOrder == Init => ImportedInOrder
<1> SUFFICES ASSUME Init PROVE ImportedInOrder
  OBVIOUS
<1>1. /\ startEpoch = initialEpoch
      /\ imported = {s \in Chain : s <= StartSlot(initialEpoch)}
  BY DEF Init
<1>2. StartSlot(initialEpoch) \in Nat /\ Chain \subseteq Nat
  BY SyncChainAssumption, StartSlotGrows
<1> DEFINE start == StartSlot(initialEpoch)
<1>3. start \in Nat /\ imported = {s \in Chain : s <= start}
  BY <1>1, <1>2
<1> HIDE DEF start
<1>4. InOrder(imported) /\ \A c \in Chain : c <= start => c \in imported
  BY <1>2, <1>3 DEF InOrder
<1> QED BY <1>1, <1>3, <1>4 DEF ImportedInOrder, start

\* The imports are a prefix of the chain, up to the start of the SyncChain at least.
LEMMA ImportInvariance == Spec => []ImportedInOrder
<1>1. SyncIInv /\ ImportedInOrder /\ [Next]_vars => ImportedInOrder'
  BY NextOrders, OrderStepKeeps
<1> QED BY <1>1, InitInOrder, SyncInvariance, PTL DEF Spec

\* The initial states are initial states of InOrderImport.
LEMMA InitRefines == Init => Order!Init
<1> SUFFICES ASSUME Init PROVE Order!Init
  OBVIOUS
<1>1. /\ startEpoch = initialEpoch /\ status = "Stopped"
      /\ imported = {s \in Chain : s <= StartSlot(initialEpoch)}
  BY DEF Init
<1>2. StartSlot(initialEpoch) \in Nat
  BY SyncChainAssumption, StartSlotGrows
<1> QED BY <1>1, <1>2 DEF Order!Init, Order!UpTo

\* Every step is a step of InOrderImport or a stutter.
LEMMA StepRefines ==
  ASSUME SyncIInv, ImportedInOrder, [Next]_vars
  PROVE  [Order!Advance \/ Order!Finish]_<<imported, StartSlot(startEpoch), status = "Synced">>
<1>1. CASE Grows /\ status # "Synced" /\ NotFinished
  <2>1. /\ imported' \subseteq Chain /\ InOrder(imported')
        /\ \A c \in Chain : c <= StartSlot(startEpoch') => c \in imported'
    BY <1>1 DEF Grows, ImportedInOrder, InOrder
  <2>2. Order!IsPrefix(imported')
    BY <2>1 DEF Order!IsPrefix, Order!UpTo, InOrder
  <2>3. Order!UpTo(StartSlot(startEpoch')) \subseteq imported'
    BY <2>1 DEF Order!UpTo
  <2>4. StartSlot(startEpoch) <= StartSlot(startEpoch')
    BY <1>1, StartSlotGrows DEF Grows
  <2>5. ~(status = "Synced") /\ (status' = "Synced") = (status = "Synced")
    BY <1>1 DEF NotFinished
  <2>6. imported \subseteq imported'
    BY <1>1 DEF Grows
  <2>7. StartSlot(startEpoch)' = StartSlot(startEpoch')
    BY DEF StartSlot
  <2> QED BY <2>2, <2>3, <2>4, <2>5, <2>6, <2>7 DEF Order!Advance
<1>2. CASE /\ imported' = imported /\ startEpoch' = startEpoch
           /\ NotFinished \/ (status # "Synced" /\ status' = "Synced")
  <2>1. StartSlot(startEpoch)' = StartSlot(startEpoch)
    BY <1>2 DEF StartSlot
  <2>2. CASE NotFinished
    BY <1>2, <2>1, <2>2 DEF NotFinished
  <2>3. CASE status # "Synced" /\ status' = "Synced"
    BY <1>2, <2>1, <2>3 DEF Order!Finish
  <2> QED BY <1>2, <2>2, <2>3
<1> QED BY <1>1, <1>2, NextOrders DEF OrderStep

\* The chain implements InOrderImport: with answers in any order, spoiled and held
\* back blocks and segments that fail in the middle, processChainSegment gets the
\* blocks into the fork choice in order, and nothing after the chain is synced.
THEOREM ImportsAreInOrder == Spec => ImportsInOrder
<1>1. SyncIInv /\ ImportedInOrder /\ [Next]_vars
        => [Order!Advance \/ Order!Finish]_<<imported, StartSlot(startEpoch), status = "Synced">>
  BY StepRefines
<1> QED
  BY <1>1, InitRefines, SyncInvariance, ImportInvariance, PTL DEF Spec, ImportsInOrder, Order!Spec

\* A batch of the invariant has the types and limits of TypeOK.
LEMMA BatchTyped ==
  ASSUME NEW rs, NEW lp, NEW b \in Batch, BoundedBatch(b, rs, lp)
  PROVE  BatchTypeOK(b)
<1>1. /\ b.startEpoch \in Nat /\ b.status \in BatchStatus
      /\ b.peer \in Peer \union {NoPeer}
      /\ b.peer = NoPeer <=> b.status = "AwaitingDownload"
  BY BatchFields
<1>2. b.blocks \subseteq [slot : SlotsOf(b.startEpoch), valid : BOOLEAN]
  <2> DEFINE slots == SlotsOf(b.startEpoch)
  <2> SUFFICES ASSUME NEW c \in b.blocks PROVE c \in [slot : slots, valid : BOOLEAN]
    OBVIOUS
  <2>1. c \in [slot : Chain, valid : BOOLEAN] /\ c.slot \in slots
    BY BatchFields
  <2> HIDE DEF slots
  <2> QED BY <2>1
<1>3. /\ b.failedDownloadAttempts \in Seq(Peer)
      /\ b.failedProcessingAttempts \in Seq(Attempts)
      /\ b.executionErrorAttempts \in Nat
  BY BatchFields
<1>4. /\ ToSet(b.failedDownloadAttempts) \subseteq Peer
      /\ ToSet(b.failedProcessingAttempts) \subseteq Attempts
  <2> DEFINE fd == b.failedDownloadAttempts
             fp == b.failedProcessingAttempts
  <2>1. fd \in Seq(Peer) /\ fp \in Seq(Attempts)
    BY <1>3
  <2> HIDE DEF fd, fp
  <2>2. ToSet(fd) \subseteq Peer /\ ToSet(fp) \subseteq Attempts
    BY <2>1 DEF ToSet
  <2> QED BY <2>2 DEF fd, fp
<1>5. /\ Len(b.failedDownloadAttempts) <= MAX_BATCH_DOWNLOAD_ATTEMPTS + 1
      /\ Len(b.failedProcessingAttempts) <= MAX_BATCH_PROCESSING_ATTEMPTS + 1
      /\ b.executionErrorAttempts \in 0..MAX_BATCH_PROCESSING_ATTEMPTS + 1
  BY <1>3, SyncChainAssumption DEF BoundedBatch
<1> QED BY <1>1, <1>2, <1>4, <1>5 DEF BatchTypeOK

\* The invariants imply TypeOK.
LEMMA SyncTyped ==
  ASSUME SyncIInv, ImportedInOrder
  PROVE  TypeOK
<1>1. /\ status \in {"Stopped", "Syncing", "Synced", "Error"}
      /\ startEpoch \in Nat /\ target \in Nat
      /\ loop \in {"waiting", "woken", "processing", "ended"}
      /\ triggered \in BOOLEAN /\ inRangeSync \in BOOLEAN
      /\ imported \subseteq Chain
  BY DEF SyncIInv, Control, ImportedInOrder
<1>2. \A i \in DOMAIN peerset : peerset[i] \in [peer : Peer, target : Targets]
  <2>1. \A i \in DOMAIN peerset : peerset[i] \in PeerEntry
    BY DEF SyncIInv
  <2> QED BY <2>1 DEF PeerEntry
<1>3. \A i \in DOMAIN batches : batches[i] \in Batch
  BY DEF SyncIInv, Fits
<1>4. \A i \in DOMAIN batches : BatchTypeOK(batches[i])
  <2>1. \A i \in DOMAIN batches : BoundedBatch(batches[i], requests, loop)
    BY BoundedIs DEF SyncIInv
  <2> QED BY <1>3, <2>1, BatchTyped
<1>5. ASSUME NEW r \in requests PROVE r.startEpoch \in Nat /\ r.peer \in Peer
  <2>1. PICK i \in DOMAIN batches : batches[i].status = "Downloading" /\ r = RequestOf(batches[i])
    BY DEF SyncIInv, Match
  <2>2. batches[i].startEpoch \in Nat /\ batches[i].peer \in Peer
    BY <1>3, <2>1, BatchFields
  <2> QED BY <2>1, <2>2 DEF RequestOf
<1> QED BY <1>1, <1>2, <1>4, <1>5 DEF TypeOK

\* Types, and no batch is tried more often than MAX_BATCH_DOWNLOAD_ATTEMPTS and
\* MAX_BATCH_PROCESSING_ATTEMPTS allow.
THEOREM SyncChainTypes == Spec => []TypeOK
<1> QED BY SyncTyped, SyncInvariance, ImportInvariance, PTL

-----------------------------------------------------------------------------
(* Who held blocks back. *)

\* A slot after the start of a window and up to the end of its n-th batch is
\* one of these batches.
LEMMA SlotInWindow ==
  ASSUME NEW start \in Nat, NEW bs, Fits(bs, start), NEW n \in Nat, n <= Len(bs),
         NEW s \in Nat, StartSlot(start) < s, s <= StartSlot(start + n * EPOCHS_PER_BATCH)
  PROVE  \E i \in DOMAIN bs : i <= n /\ s \in SlotsOf(bs[i].startEpoch)
<1> DEFINE Reaching == {k \in Nat : s <= StartSlot(start + k * EPOCHS_PER_BATCH)}
<1>1. /\ EPOCHS_PER_BATCH \in Nat /\ SLOTS_PER_EPOCH \in Nat
      /\ DOMAIN bs = 1..Len(bs) /\ Len(bs) \in Nat
  BY SyncChainAssumption DEF Fits
<1>2. PICK m \in Reaching : \A k \in Reaching : m <= k
  <2>1. Reaching \subseteq Nat /\ n \in Reaching
    OBVIOUS
  <2> HIDE DEF Reaching
  <2> QED BY <2>1, LeastNatural
<1>3. m \in Nat /\ m <= n /\ m # 0
  <2>1. m \in Nat /\ n \in Reaching
    OBVIOUS
  <2>2. 0 \notin Reaching
    <3>1. start + 0 * EPOCHS_PER_BATCH = start /\ StartSlot(start) \in Nat
      BY <1>1 DEF StartSlot
    <3>2. ~(s <= StartSlot(start))
      BY <3>1
    <3> QED BY <3>1, <3>2
  <2>3. m <= n
    <3> HIDE DEF Reaching
    <3> QED BY <1>2, <2>1
  <2> QED BY <2>1, <2>2, <2>3
<1> DEFINE epoch == start + (m - 1) * EPOCHS_PER_BATCH
<1>4. m \in DOMAIN bs /\ bs[m].startEpoch = epoch
  <2>1. m \in DOMAIN bs
    BY <1>1, <1>3
  <2> QED BY <2>1 DEF Fits, Window
<1>5. /\ epoch \in Nat /\ start + m * EPOCHS_PER_BATCH = epoch + EPOCHS_PER_BATCH
  <2>1. (m - 1) * EPOCHS_PER_BATCH \in Nat
    BY <1>1, <1>3
  <2>2. m * EPOCHS_PER_BATCH = (m - 1) * EPOCHS_PER_BATCH + EPOCHS_PER_BATCH
    BY <1>1, <1>3
  <2> DEFINE before == (m - 1) * EPOCHS_PER_BATCH
             upTo == m * EPOCHS_PER_BATCH
  <2>3. before \in Nat /\ upTo = before + EPOCHS_PER_BATCH /\ epoch = start + before
    BY <2>1, <2>2
  <2> HIDE DEF before, upTo, epoch
  <2>4. epoch \in Nat /\ start + upTo = epoch + EPOCHS_PER_BATCH
    BY <1>1, <2>3
  <2> QED BY <2>4 DEF upTo
<1>6. ~(s <= StartSlot(epoch))
  <2>1. m - 1 \in Nat /\ ~(m <= m - 1)
    BY <1>3
  <2>2. m - 1 \notin Reaching
    <3> HIDE DEF Reaching
    <3> QED BY <1>2, <2>1
  <2> QED BY <2>1, <2>2
<1>7. s <= StartSlot(epoch + EPOCHS_PER_BATCH)
  BY <1>2, <1>5
<1> HIDE DEF epoch
<1>8. /\ StartSlot(epoch) \in Nat /\ EPOCHS_PER_BATCH * SLOTS_PER_EPOCH \in Nat
      /\ StartSlot(epoch + EPOCHS_PER_BATCH) = StartSlot(epoch) + EPOCHS_PER_BATCH * SLOTS_PER_EPOCH
  BY <1>1, <1>5 DEF StartSlot
<1>9. s \in SlotsOf(epoch)
  BY <1>6, <1>7, <1>8 DEF SlotsOf
<1> QED BY <1>3, <1>4, <1>9

\* The blocks of an honest peer only fail if a block before them is missing.
LEMMA HonestSegment ==
  ASSUME imported \subseteq Chain, NEW epoch \in Nat,
         NEW r \in SegmentResults(Blocks(epoch)), r.error = "Block"
  PROVE  /\ r.imported = {}
         /\ \E p \in Chain : p \notin imported /\ p <= StartSlot(epoch)
<1> DEFINE blocks == Blocks(epoch)
           stops == {b.slot : b \in Refused(blocks)} \cup {Infinity}
           stop == Min(stops)
<1>1. /\ Chain \subseteq Nat /\ StartSlot(epoch) \in Nat /\ SlotsOf(epoch) \subseteq Nat
      /\ \A c \in blocks : c.slot \in Chain /\ c.slot \in SlotsOf(epoch) /\ c.valid = TRUE
      /\ \A s \in Chain : s \in SlotsOf(epoch) => Block(s, TRUE) \in blocks
  <2>1. Chain \subseteq Nat /\ StartSlot(epoch) \in Nat
    BY SyncChainAssumption DEF StartSlot
  <2>2. SlotsOf(epoch) \subseteq Nat
    BY <2>1, SyncChainAssumption DEF SlotsOf
  <2>3. ASSUME NEW c \in blocks
        PROVE  c.slot \in Chain /\ c.slot \in SlotsOf(epoch) /\ c.valid = TRUE
    <3>1. PICK s \in Chain \cap SlotsOf(epoch) : c = Block(s, TRUE)
      BY DEF Blocks
    <3> QED BY <3>1 DEF Block
  <2>4. \A s \in Chain : s \in SlotsOf(epoch) => Block(s, TRUE) \in blocks
    BY DEF Blocks
  <2> HIDE DEF blocks
  <2> QED BY <2>1, <2>2, <2>3, <2>4
<1>2. IsLinear(blocks)
  <2> SUFFICES ASSUME NEW s \in SlotsIn(blocks), NEW t \in SlotsIn(blocks), NEW c \in Chain,
                      s < c, c < t
               PROVE  c \in SlotsIn(blocks)
    BY DEF IsLinear
  <2>1. s \in SlotsOf(epoch) /\ t \in SlotsOf(epoch)
    BY <1>1 DEF SlotsIn
  <2>2. c \in SlotsOf(epoch)
    <3>1. /\ EPOCHS_PER_BATCH * SLOTS_PER_EPOCH \in Nat /\ c \in Nat
      BY <1>1, SyncChainAssumption
    <3>2. s \in Nat /\ t \in Nat
      BY <1>1, <2>1
    <3> HIDE DEF blocks
    <3> QED BY <1>1, <2>1, <3>1, <3>2 DEF SlotsOf
  <2>3. Block(c, TRUE) \in blocks /\ Block(c, TRUE).slot = c
    BY <1>1, <2>2 DEF Block
  <2> HIDE DEF blocks
  <2> QED BY <2>3 DEF SlotsIn
<1>3. r = Segment(stop, blocks, IF stop = Infinity THEN "none" ELSE "Block")
  <2>1. SegmentCase(blocks, stop, r)
    BY SegmentCases
  <2> HIDE DEF stop, blocks
  <2>2. \A upTo, error : Segment(upTo, blocks, error).error = error
    BY DEF Segment
  <2>3. \A slot : ImportThrows(slot, blocks).error = "Local"
    BY DEF ImportThrows, Segment
  <2> QED BY <1>2, <2>1, <2>2, <2>3 DEF SegmentCase
<1>4. stop # Infinity
  <2> HIDE DEF stop, blocks
  <2> QED BY <1>3 DEF Segment
<1>5. PICK b \in Refused(blocks) : b.slot = stop
  <2>1. stop \in stops
    <3>1. stops \subseteq Nat
      BY <1>1, InfinityIsAbove DEF Refused, Unknown
    <3>2. stops # {}
      OBVIOUS
    <3> HIDE DEF stops
    <3> QED BY <3>1, <3>2, FirstIsMin
  <2> HIDE DEF stop
  <2> QED BY <1>4, <2>1
<1>6. /\ b \in blocks /\ b.slot \in Chain /\ b.slot \in SlotsOf(epoch)
      /\ \A c \in blocks : b.slot <= c.slot
      /\ ~ParentIsKnown(b.slot)
  BY <1>1, <1>5 DEF Refused, Unknown, IsOrphan
<1> DEFINE first == b.slot
           before == {s \in Chain : s < first}
<1>7. r.imported = {}
  <2>1. r.imported = {c.slot : c \in {d \in Unknown(blocks) : d.slot < first}}
    <3> HIDE DEF stop, blocks
    <3> QED BY <1>3, <1>5 DEF Segment, Below
  <2>2. \A d \in Unknown(blocks) : ~(d.slot < first)
    BY <1>1, <1>6 DEF Unknown
  <2> HIDE DEF first, blocks
  <2> QED BY <2>1, <2>2
<1> HIDE DEF stop, stops
<1>8. first \in Nat /\ first >= 1 /\ first \in SlotsOf(epoch) /\ first \in Chain
  BY <1>1, <1>6 DEF SlotsOf
<1>9. Max(before) \in Chain /\ Max(before) < first
  <2>1. before \subseteq Nat /\ 0 \in before /\ \A c \in before : c <= first
    <3>1. before \subseteq Nat /\ 0 \in Chain
      BY <1>1, SyncChainAssumption
    <3>2. 0 \in before
      <4> HIDE DEF first
      <4> QED BY <1>8, <3>1
    <3>3. \A c \in before : c <= first
      <4> HIDE DEF first
      <4> QED BY <1>1, <1>8
    <3> QED BY <3>1, <3>2, <3>3
  <2>2. PICK last \in before : \A c \in before : c <= last
    <3> HIDE DEF before
    <3> QED BY <1>8, <2>1, GreatestNatural
  <2>3. \A c \in before : last >= c
    BY <2>1, <2>2
  <2>4. Max(before) \in before
    <3> HIDE DEF before
    <3> QED BY <2>3, GreatestIsMax
  <2> QED BY <2>4
<1> DEFINE p == Max(before)
<1>10. p \notin imported
  BY <1>6 DEF ParentIsKnown
<1> HIDE DEF p
<1>11. p \in Chain /\ p < first
  BY <1>9 DEF p
<1>12. p \notin SlotsOf(epoch)
  <2> SUFFICES ASSUME p \in SlotsOf(epoch) PROVE FALSE
    OBVIOUS
  <2>1. Block(p, TRUE) \in blocks /\ Block(p, TRUE).slot = p
    BY <1>1, <1>11 DEF Block
  <2>2. b.slot <= p
    <3> DEFINE new == Block(p, TRUE)
    <3>1. new \in blocks /\ new.slot = p
      BY <2>1
    <3> HIDE DEF blocks, new
    <3>2. b.slot <= new.slot
      BY <1>6, <3>1
    <3> QED BY <3>1, <3>2
  <2> QED BY <1>1, <1>8, <1>11, <2>2
<1>13. p <= StartSlot(epoch)
  <2>1. EPOCHS_PER_BATCH * SLOTS_PER_EPOCH \in Nat /\ p \in Nat
    BY <1>1, <1>11, SyncChainAssumption
  <2> HIDE DEF first
  <2> QED BY <1>1, <1>8, <1>11, <1>12, <2>1 DEF SlotsOf
<1> QED BY <1>7, <1>10, <1>11, <1>13

\* An honest peer answers with all blocks of the batch; and if such a batch was
\* processed they are imported.
HonestBatch(b, slots) ==
  b.peer \in Honest =>
    /\ b.status \notin {"AwaitingDownload", "Downloading"} => b.blocks = Blocks(b.startEpoch)
    /\ b.status = "AwaitingValidation" =>
         \A s \in Chain : s \in SlotsOf(b.startEpoch) => s \in slots

HonestBatches(bs, slots) == \A i \in DOMAIN bs : HonestBatch(bs[i], slots)

\* Some batch shows a peer that is not honest.
Accused(bs) == \E i \in DOMAIN bs : HasFaultyAnswer(bs[i])

\* Or some batch was given up for a failure of this node.
Blamed(bs) == \E i \in DOMAIN bs : HasFaultyAnswer(bs[i]) \/ FailedHere(bs[i])

\* A chain that is synced lacks only what peers that are not honest held back.
Lacks(bs, slots, tgt) ==
  \A s \in Chain : s <= tgt /\ s \notin slots =>
    \E i \in DOMAIN bs :
      /\ s \in SlotsOf(bs[i].startEpoch)
      /\ bs[i].status = "AwaitingValidation"
      /\ bs[i].peer \notin Honest

\* Batches with an answer are kept, and only batches without one are new.
Carries(new, bs) ==
  /\ \A i \in DOMAIN new :
       \/ new[i].status \in {"AwaitingDownload", "Downloading"}
       \/ i \in DOMAIN bs /\ new[i] = bs[i]
  /\ \A i \in DOMAIN bs :
       /\ i \in DOMAIN new
       /\ new[i].failedProcessingAttempts = bs[i].failedProcessingAttempts
       /\ bs[i].status = "AwaitingValidation" => new[i] = bs[i]

\* What is carried keeps what is known of its batches.
LEMMA CarriesKeeps ==
  ASSUME NEW bs, NEW new, Carries(new, bs)
  PROVE  /\ \A slots : HonestBatches(bs, slots) => HonestBatches(new, slots)
         /\ Blamed(bs) => Blamed(new)
         /\ \A slots, tgt : Lacks(bs, slots, tgt) => Lacks(new, slots, tgt)
<1>1. ASSUME NEW slots, HonestBatches(bs, slots) PROVE HonestBatches(new, slots)
  <2> SUFFICES ASSUME NEW i \in DOMAIN new PROVE HonestBatch(new[i], slots)
    BY DEF HonestBatches
  <2>1. CASE new[i].status \in {"AwaitingDownload", "Downloading"}
    BY <2>1 DEF HonestBatch
  <2>2. CASE i \in DOMAIN bs /\ new[i] = bs[i]
    BY <1>1, <2>2 DEF HonestBatches
  <2> QED BY <2>1, <2>2 DEF Carries
<1>2. ASSUME NEW i \in DOMAIN bs, HasFaultyAnswer(bs[i]) \/ FailedHere(bs[i])
      PROVE  i \in DOMAIN new /\ (HasFaultyAnswer(new[i]) \/ FailedHere(new[i]))
  <2>1. new[i].failedProcessingAttempts = bs[i].failedProcessingAttempts /\ i \in DOMAIN new
    BY DEF Carries
  <2>2. FailedHere(bs[i]) => FailedHere(new[i])
    BY <2>1, Zenon DEF FailedHere
  <2>3. HasFaultyAnswer(bs[i]) => HasFaultyAnswer(new[i])
    BY DEF Carries, HasFaultyAnswer
  <2> QED BY <1>2, <2>1, <2>2, <2>3
<1>3. ASSUME NEW slots, NEW tgt, Lacks(bs, slots, tgt) PROVE Lacks(new, slots, tgt)
  BY <1>3 DEF Lacks, Carries
<1> QED BY <1>1, <1>2, <1>3 DEF Blamed

\* More imports leave the answers of honest peers as they are.
LEMMA HonestGrows ==
  ASSUME NEW bs, NEW slots, NEW more, slots \subseteq more, HonestBatches(bs, slots)
  PROVE  HonestBatches(bs, more)
BY DEF HonestBatches, HonestBatch

\* The downloader carries the batches.
LEMMA DownloaderCarries ==
  ASSUME NEW start \in Nat, NEW tgt, NEW bs, Fits(bs, start), NEW peers \in Seq(PeerEntry),
         NEW st, NEW rs, TriggerBatchDownloader(st, bs, start, tgt, peers, rs)
  PROVE  Carries(batches', bs)
<1>1. CASE st # "Syncing"
  BY <1>1 DEF TriggerBatchDownloader, Carries
<1>2. CASE st = "Syncing"
  <2>1. PICK order \in SetToSeqs(PeersOf(peers)) : batches' = Requested(bs, start, tgt, order)
    BY <1>2 DEF TriggerBatchDownloader
  <2>2. Fits(batches', start) /\ Extends(batches', bs)
    BY <2>1, OrdersOfPeers, RequestedFits
  <2> DEFINE new == batches'
  <2>3. Fits(new, start) /\ Extends(new, bs)
    BY <2>2
  <2> HIDE DEF new
  <2>4. /\ \A i \in DOMAIN new :
             \/ i \in DOMAIN bs /\ new[i] = bs[i]
             \/ /\ i \in DOMAIN bs /\ bs[i].status = "AwaitingDownload"
                /\ new[i].status = "Downloading" /\ SameAttempts(new[i], bs[i])
             \/ /\ i > Len(bs) /\ new[i].status = "Downloading"
        /\ \A i \in DOMAIN bs :
             i \in DOMAIN new /\ (bs[i].status # "AwaitingDownload" => new[i] = bs[i])
    BY <2>3, ExtendsFacts
  <2>5. \A i \in DOMAIN bs : ~(i > Len(bs))
    BY DEF Fits
  <2>6. Carries(new, bs)
    BY <2>4, <2>5 DEF Carries, SameAttempts
  <2> QED BY <2>6 DEF new
<1> QED BY <1>1, <1>2

\* The batches that are left of some are some of them.
LEMMA RestOfBatches ==
  ASSUME NEW bs \in Seq(Batch), NEW epoch
  PROVE  LET left == Advanced(bs, epoch).batches
         IN  \A i \in DOMAIN left : \E j \in DOMAIN bs : left[i] = bs[j]
<1> DEFINE left == Advanced(bs, epoch).batches
           kept == {i \in DOMAIN bs : bs[i].startEpoch >= epoch}
<1>1. CASE epoch <= startEpoch
  <2>1. left = bs
    BY <1>1 DEF Advanced
  <2> QED BY <2>1
<1>2. CASE ~(epoch <= startEpoch)
  <2>1. left = Selection(bs, kept)
    BY <1>2 DEF Advanced, From
  <2> HIDE DEF left, kept
  <2>2. left \in Seq(Batch) /\ IsSelection(left, bs, Len(bs), kept)
    BY <2>1, SelectionSelects
  <2>3. PICK at \in [1..Len(left) -> 1..Len(bs)] :
          \A j \in 1..Len(left) : left[j] = bs[at[j]]
    BY <2>2 DEF IsSelection
  <2>4. \A i \in DOMAIN left : at[i] \in DOMAIN bs /\ left[i] = bs[at[i]]
    BY <2>2, <2>3
  <2>5. \A i \in DOMAIN left : \E j \in DOMAIN bs : left[i] = bs[j]
    BY <2>4
  <2> QED BY <2>5 DEF left
<1> QED BY <1>1, <1>2

\* A batch that begins where the chain is advanced to is left.
LEMMA KeptByAdvance ==
  ASSUME NEW bs \in Seq(Batch), NEW i \in DOMAIN bs, NEW epoch \in Nat,
         epoch <= startEpoch \/ epoch <= bs[i].startEpoch
  PROVE  \E j \in DOMAIN Advanced(bs, epoch).batches :
           Advanced(bs, epoch).batches[j] = bs[i]
<1> DEFINE left == Advanced(bs, epoch).batches
           kept == {j \in DOMAIN bs : bs[j].startEpoch >= epoch}
<1>1. CASE epoch <= startEpoch
  <2>1. left = bs
    BY <1>1 DEF Advanced
  <2> QED BY <2>1
<1>2. CASE ~(epoch <= startEpoch)
  <2>1. left = Selection(bs, kept)
    BY <1>2 DEF Advanced, From
  <2>2. i \in kept /\ i \in 1..Len(bs)
    <3>1. bs[i].startEpoch \in Nat
      BY BatchFields
    <3> QED BY <1>2, <3>1
  <2> HIDE DEF left, kept
  <2>3. left \in Seq(Batch) /\ IsSelection(left, bs, Len(bs), kept)
    BY <2>1, SelectionSelects
  <2>4. PICK at \in [1..Len(left) -> 1..Len(bs)] :
          /\ \A j \in 1..Len(left) : left[j] = bs[at[j]]
          /\ \A k \in 1..Len(bs) : k \in kept => \E j \in 1..Len(left) : at[j] = k
    BY <2>3 DEF IsSelection
  <2>5. PICK j \in 1..Len(left) : at[j] = i
    BY <2>2, <2>4
  <2>6. j \in DOMAIN left /\ left[j] = bs[i]
    BY <2>3, <2>4, <2>5
  <2> QED BY <2>6 DEF left
<1> QED BY <1>1, <1>2

\* A failed attempt is one of the peer that answered, and changes nothing else.
LEMMA FailedIsRecorded ==
  ASSUME NEW b \in Batch, b.peer # NoPeer, NEW error, NEW f, f = WithFailedAttempt(b, error)
  PROVE  /\ f.peer = b.peer /\ f.blocks = b.blocks /\ f.startEpoch = b.startEpoch
         /\ f.status = b.status
         /\ \A a \in ToSet(b.failedProcessingAttempts) : a \in ToSet(f.failedProcessingAttempts)
         /\ error # "Engine" =>
              \E a \in ToSet(f.failedProcessingAttempts) : a.peer = b.peer
         /\ Again(f).status = "AwaitingDownload"
         /\ Again(f).failedProcessingAttempts = f.failedProcessingAttempts
<1>1. CASE error = "Engine"
  <2>1. f = [b EXCEPT !.executionErrorAttempts = @ + 1]
    BY <1>1 DEF WithFailedAttempt
  <2> QED BY <1>1, <2>1 DEF Batch, BatchRecord, Again
<1>2. CASE error # "Engine"
  <2> DEFINE old == b.failedProcessingAttempts
             attempt == Attempt(b, error)
             more == Append(old, attempt)
  <2>1. f = [b EXCEPT !.failedProcessingAttempts = more]
    BY <1>2 DEF WithFailedAttempt
  <2>2. old \in Seq(Attempts) /\ attempt.peer = b.peer /\ attempt \in Attempts
    BY BatchFields DEF Attempt, Attempts
  <2> HIDE DEF old, attempt
  <2>3. /\ \A a \in ToSet(old) : a \in ToSet(more)
        /\ attempt \in ToSet(more)
    <3>1. /\ Len(more) = Len(old) + 1 /\ Len(old) \in Nat /\ more[Len(old) + 1] = attempt
          /\ \A k \in 1..Len(old) : more[k] = old[k]
          /\ DOMAIN more = 1..(Len(old) + 1) /\ DOMAIN old = 1..Len(old)
      BY <2>2
    <3> HIDE DEF more
    <3> QED BY <3>1 DEF ToSet
  <2> HIDE DEF more
  <2>4. /\ f.peer = b.peer /\ f.blocks = b.blocks /\ f.startEpoch = b.startEpoch
        /\ f.status = b.status /\ f.failedProcessingAttempts = more
        /\ Again(f).status = "AwaitingDownload" /\ Again(f).failedProcessingAttempts = more
    BY <2>1 DEF Batch, BatchRecord, Again
  <2> QED BY <2>2, <2>3, <2>4 DEF old
<1> QED BY <1>1, <1>2

\* The batches of which some failed keep the answers of honest peers, and every
\* peer on record.
LEMMA FailedKeeps ==
  ASSUME NEW b \in Batch, b.peer # NoPeer, NEW error, NEW slots, HonestBatch(b, slots)
  PROVE  /\ HonestBatch(Failed(b, error), slots)
         /\ HasFaultyAnswer(b) /\ error # "Engine" => HasFaultyAnswer(Failed(b, error))
<1> DEFINE f == WithFailedAttempt(b, error)
<1>1. /\ f.peer = b.peer /\ f.blocks = b.blocks /\ f.startEpoch = b.startEpoch
      /\ f.status = b.status
      /\ \A a \in ToSet(b.failedProcessingAttempts) : a \in ToSet(f.failedProcessingAttempts)
      /\ error # "Engine" => \E a \in ToSet(f.failedProcessingAttempts) : a.peer = b.peer
      /\ Again(f).status = "AwaitingDownload"
      /\ Again(f).failedProcessingAttempts = f.failedProcessingAttempts
  BY FailedIsRecorded
<1>2. Failed(b, error) \in {f, Again(f)}
  BY DEF Failed
<1> HIDE DEF f
<1>3. HonestBatch(f, slots) /\ HonestBatch(Again(f), slots)
  BY <1>1 DEF HonestBatch
<1>4. HasFaultyAnswer(b) /\ error # "Engine" => HasFaultyAnswer(f) /\ HasFaultyAnswer(Again(f))
  BY <1>1 DEF HasFaultyAnswer
<1> QED BY <1>2, <1>3, <1>4

BlameInv ==
  /\ HonestBatches(batches, imported)
  /\ iterError = "MaxProcessingAttempts" => loop = "ended" /\ Blamed(batches)
  /\ status = "Synced" => Lacks(batches, imported, target)

\* A step that neither gives up a batch nor finishes the chain.
Quiet ==
  /\ iterError' = "MaxProcessingAttempts" => iterError = "MaxProcessingAttempts"
  /\ loop = "ended" => loop' = "ended"
  /\ NotFinished

\* What the loop and the downloads do is quiet, but for a batch that used up its
\* processing attempts.
LEMMA LoopIsQuiet ==
  ASSUME SyncIInv
  PROVE  /\ Trigger => Quiet
         /\ UNCHANGED loopVars => Quiet
         /\ \A error, present :
              error # "MaxProcessingAttempts" /\ End(error, present) => Quiet
         /\ loop # "ended" =>
              /\ \A error : error # "MaxProcessingAttempts" /\ Throw(error) => Quiet
              /\ \A flag : NextIteration(flag) => Quiet
              /\ \A tgt : UpdateAfterJoin(tgt) => Quiet
<1>1. Trigger \/ UNCHANGED loopVars => Quiet
  BY LoopIsNotFinished DEF Trigger, loopVars, Quiet
<1>2. ASSUME NEW error, error # "MaxProcessingAttempts", NEW present, End(error, present)
      PROVE  Quiet
  BY <1>2, LoopIsNotFinished DEF End, Leave, Quiet
<1>3. ASSUME loop # "ended", NEW error, error # "MaxProcessingAttempts", Throw(error)
      PROVE  Quiet
  BY <1>3, LoopIsNotFinished DEF Throw, Leave, Quiet
<1>4. ASSUME loop # "ended", NEW flag, NextIteration(flag) PROVE Quiet
  BY <1>4, LoopIsNotFinished DEF NextIteration, Throw, Leave, Quiet
<1>5. ASSUME loop # "ended", NEW tgt, UpdateAfterJoin(tgt) PROVE Quiet
  <2>1. CASE IsKnown(tgt)
    BY <1>2, <1>5, <2>1 DEF UpdateAfterJoin
  <2>2. CASE ~IsKnown(tgt) /\ status = "Stopped"
    BY <1>5, <2>2, LoopIsNotFinished DEF UpdateAfterJoin, Quiet
  <2>3. CASE ~IsKnown(tgt) /\ status # "Stopped"
    BY <1>1, <1>5, <2>3 DEF UpdateAfterJoin
  <2> QED BY <2>1, <2>2, <2>3
<1> QED BY <1>1, <1>2, <1>3, <1>4, <1>5

\* A quiet step that carries batches that are no worse.
LEMMA CarriedStep ==
  ASSUME BlameInv, Quiet, imported' = imported, status = "Synced" => target' = target,
         NEW bs, HonestBatches(bs, imported), Blamed(batches) => Blamed(bs),
         status = "Synced" /\ Lacks(batches, imported, target) => Lacks(bs, imported, target),
         Carries(batches', bs)
  PROVE  BlameInv'
<1>1. HonestBatches(batches', imported')
  BY CarriesKeeps
<1>2. ASSUME iterError' = "MaxProcessingAttempts" PROVE loop' = "ended" /\ Blamed(batches')
  BY <1>2, CarriesKeeps DEF Quiet, BlameInv
<1>3. ASSUME status' = "Synced" PROVE Lacks(batches', imported', target')
  <2>1. status = "Synced"
    BY <1>3 DEF Quiet, NotFinished
  <2>2. Lacks(bs, imported, target) /\ target' = target
    BY <2>1 DEF BlameInv
  <2> QED BY <2>2, CarriesKeeps
<1>4. HonestBatches(batches, imported)'
  BY <1>1 DEF HonestBatches, HonestBatch
<1>5. Blamed(batches') => Blamed(batches)'
  BY DEF Blamed, HasFaultyAnswer, FailedHere
<1>6. Lacks(batches', imported', target') => Lacks(batches, imported, target)'
  BY DEF Lacks
<1> QED BY <1>2, <1>3, <1>4, <1>5, <1>6 DEF BlameInv

\* Batches that are as they were.
LEMMA UnchangedCarries == \A bs : Carries(bs, bs)
BY DEF Carries

\* A chain that is one of RangeSync has a loop that runs.
LEMMA PresentRuns ==
  ASSUME SyncIInv, inRangeSync
  PROVE  loop # "ended" /\ status # "Synced"
BY DEF SyncIInv, Control, Runs

\* Peers change no answer.
LEMMA PeersBlame ==
  ASSUME SyncIInv, BlameInv
  PROVE  /\ \A p \in Peer, t \in Targets : AddPeer(p, t) => BlameInv'
         /\ \A p \in Peer : RemovePeer(p) => BlameInv'
         /\ Update => BlameInv'
<1>1. ASSUME NEW p \in Peer, NEW t \in Targets, AddPeer(p, t) PROVE BlameInv'
  <2>1. /\ inRangeSync /\ imported' = imported /\ UpdateAfterJoin(target')
        /\ peerset' = SetPeer(p, t)
        /\ TriggerBatchDownloader(IF inRangeSync' THEN status' ELSE status,
                                  batches, startEpoch, target', peerset', requests)
    BY <1>1 DEF AddPeer
  <2>2. peerset' \in Seq(PeerEntry)
    BY <2>1, SetPeerTyped DEF SyncIInv
  <2>3. startEpoch \in Nat /\ Fits(batches, startEpoch)
    BY DEF SyncIInv
  <2>4. Carries(batches', batches)
    BY <2>1, <2>2, <2>3, DownloaderCarries
  <2>5. Quiet /\ status # "Synced"
    BY <2>1, PresentRuns, LoopIsQuiet
  <2> QED BY <2>1, <2>4, <2>5, CarriedStep DEF BlameInv
<1>2. ASSUME NEW p \in Peer, RemovePeer(p) PROVE BlameInv'
  <2>1. inRangeSync /\ imported' = imported /\ batches' = batches /\ UNCHANGED loopVars
    BY <1>2 DEF RemovePeer
  <2>2. Quiet /\ status # "Synced"
    BY <2>1, PresentRuns, LoopIsQuiet
  <2>3. Carries(batches', batches)
    BY <2>1, UnchangedCarries
  <2> QED BY <2>1, <2>2, <2>3, CarriedStep DEF BlameInv
<1>3. ASSUME Update PROVE BlameInv'
  <2>1. inRangeSync /\ imported' = imported /\ batches' = batches /\ End("Aborted", FALSE)
    BY <1>3 DEF Update
  <2>2. Quiet /\ status # "Synced"
    BY <2>1, PresentRuns, LoopIsQuiet
  <2>3. Carries(batches', batches)
    BY <2>1, UnchangedCarries
  <2> QED BY <2>1, <2>2, <2>3, CarriedStep DEF BlameInv
<1> QED BY <1>1, <1>2, <1>3

\* A batch that awaited an answer and got one, or did not.
LEMMA AnsweredStep ==
  ASSUME SyncIInv, BlameInv, NEW i \in DOMAIN batches, batches[i].status = "Downloading",
         NEW b, HonestBatch(b, imported),
         b.failedProcessingAttempts = batches[i].failedProcessingAttempts,
         Quiet, imported' = imported, target' = target,
         Carries(batches', [batches EXCEPT ![i] = b])
  PROVE  BlameInv'
<1> DEFINE mid == [batches EXCEPT ![i] = b]
<1>1. /\ DOMAIN mid = DOMAIN batches /\ mid[i] = b
      /\ \A j \in DOMAIN batches : j # i => mid[j] = batches[j]
  BY DEF SyncIInv, Fits
<1> HIDE DEF mid
<1>2. HonestBatches(mid, imported)
  BY <1>1 DEF BlameInv, HonestBatches
<1>3. Blamed(batches) => Blamed(mid)
  <2> SUFFICES ASSUME NEW j \in DOMAIN batches
               PROVE  /\ HasFaultyAnswer(batches[j]) => HasFaultyAnswer(mid[j])
                      /\ FailedHere(batches[j]) => FailedHere(mid[j])
    BY <1>1 DEF Blamed
  <2>1. CASE j = i
    <3>1. FailedHere(batches[j]) => FailedHere(b)
      BY <2>1, Zenon DEF FailedHere
    <3> QED BY <1>1, <2>1, <3>1 DEF HasFaultyAnswer
  <2>2. CASE j # i
    BY <1>1, <2>2
  <2> QED BY <2>1, <2>2
<1>4. Lacks(batches, imported, target) => Lacks(mid, imported, target)
  <2>1. \A j \in DOMAIN batches : batches[j].status = "AwaitingValidation" => mid[j] = batches[j]
    BY <1>1
  <2> QED BY <1>1, <2>1 DEF Lacks
<1>5. Carries(batches', mid)
  BY DEF mid
<1> QED BY <1>2, <1>3, <1>4, <1>5, CarriedStep

\* What an honest peer answers is all there is.
LEMMA DownloadSucceedsBlame ==
  ASSUME SyncIInv, BlameInv, NEW r \in requests, NEW blocks \in Answers(r.peer, r.startEpoch),
         DownloadSucceeds(r, blocks)
  PROVE  BlameInv'
<1> DEFINE i == CHOOSE j \in BatchOf(r) : TRUE
           b == DownloadingSuccess(batches[i], blocks)
           mid == [batches EXCEPT ![i] = b]
           less == requests \ {r}
<1>1. /\ BatchOf(r) # {} /\ i \in DOMAIN batches /\ batches[i] \in Batch
      /\ batches[i].status = "Downloading" /\ r = RequestOf(batches[i])
  BY BatchOfRequest
<1>2. /\ Trigger /\ imported' = imported /\ target' = target
      /\ TriggerBatchDownloader(status, mid, startEpoch, target, peerset, less)
  BY <1>1 DEF DownloadSucceeds
<1> HIDE DEF i
<1>3. /\ b \in Batch /\ SameAttempts(b, batches[i]) /\ b.status = "AwaitingProcessing"
      /\ b.peer = batches[i].peer /\ b.blocks = blocks
      /\ r.peer = batches[i].peer /\ r.startEpoch = batches[i].startEpoch
  <2>1. r.peer = batches[i].peer /\ r.startEpoch = batches[i].startEpoch
    BY <1>1 DEF RequestOf
  <2>2. blocks \in Answers(r.peer, batches[i].startEpoch)
    BY <2>1
  <2>3. b \in Batch /\ SameAttempts(b, batches[i]) /\ b.status = "AwaitingProcessing"
    BY <1>1, <2>2, DownloadedBatch
  <2>4. b.peer = batches[i].peer /\ b.blocks = blocks
    BY <1>1 DEF DownloadingSuccess, Batch, BatchRecord
  <2> QED BY <2>1, <2>3, <2>4
<1> HIDE DEF b
<1>4. HonestBatch(b, imported)
  <2>1. ASSUME b.peer \in Honest PROVE b.blocks = Blocks(b.startEpoch)
    <3>1. blocks \in {Blocks(r.startEpoch)}
      BY <1>3, <2>1 DEF Answers
    <3> QED BY <1>3, <3>1 DEF SameAttempts
  <2> QED BY <1>3, <2>1 DEF HonestBatch
<1>5. Fits(mid, startEpoch)
  BY <1>1, <1>3, ReplacedFits DEF SyncIInv, SameAttempts
<1>6. Carries(batches', mid)
  <2>1. startEpoch \in Nat /\ peerset \in Seq(PeerEntry)
    BY DEF SyncIInv
  <2> HIDE DEF mid, less
  <2> QED BY <1>2, <1>5, <2>1, DownloaderCarries
<1>7. Quiet
  BY <1>2, LoopIsQuiet
<1> QED BY <1>1, <1>2, <1>3, <1>4, <1>6, <1>7, AnsweredStep DEF SameAttempts

\* A failed download is no answer.
LEMMA DownloadFailsBlame ==
  ASSUME SyncIInv, BlameInv, NEW r \in requests, DownloadFails(r)
  PROVE  BlameInv'
<1> DEFINE i == CHOOSE j \in BatchOf(r) : TRUE
           failed == WithFailedDownload(batches[i])
           exhausted == Len(failed.failedDownloadAttempts) > MAX_BATCH_DOWNLOAD_ATTEMPTS
           b == IF exhausted THEN failed ELSE Again(failed)
           mid == [batches EXCEPT ![i] = b]
           less == requests \ {r}
<1>1. /\ BatchOf(r) # {} /\ i \in DOMAIN batches /\ batches[i] \in Batch
      /\ batches[i].status = "Downloading" /\ r = RequestOf(batches[i])
  BY BatchOfRequest
<1>2. /\ End("MaxDownloadAttempts", inRangeSync) \/ UNCHANGED loopVars
      /\ imported' = imported /\ target' = target
      /\ TriggerBatchDownloader(status, mid, startEpoch, target, peerset, less)
  BY <1>1 DEF DownloadFails
<1> HIDE DEF i
<1>3. /\ failed \in Batch /\ failed.startEpoch = batches[i].startEpoch
      /\ failed.status = "Downloading"
      /\ failed.failedProcessingAttempts = batches[i].failedProcessingAttempts
  BY <1>1, FailedDownloadBatch
<1> HIDE DEF failed
<1>4. /\ b \in Batch /\ b.startEpoch = batches[i].startEpoch
      /\ b.status \in {"AwaitingDownload", "Downloading"}
      /\ b.failedProcessingAttempts = batches[i].failedProcessingAttempts
  BY <1>3, AgainBatch DEF SameAttempts
<1> HIDE DEF b
<1>5. HonestBatch(b, imported)
  BY <1>4 DEF HonestBatch
<1>6. Fits(mid, startEpoch)
  BY <1>1, <1>4, ReplacedFits DEF SyncIInv
<1>7. Carries(batches', mid)
  <2>1. startEpoch \in Nat /\ peerset \in Seq(PeerEntry)
    BY DEF SyncIInv
  <2> HIDE DEF mid, less
  <2> QED BY <1>2, <1>6, <2>1, DownloaderCarries
<1>8. Quiet
  BY <1>2, LoopIsQuiet
<1> QED BY <1>1, <1>2, <1>4, <1>5, <1>7, <1>8, AnsweredStep

\* When all batches up to the target were processed, a block that is missing
\* was held back by a peer that is not honest.
LEMMA DoneLacks ==
  ASSUME SyncIInv, ImportedInOrder, HonestBatches(batches, imported), ValidStatuses(batches),
         IsDone(batches, startEpoch, target)
  PROVE  Lacks(batches, imported, target)
<1> DEFINE validated == {i \in DOMAIN batches : batches[i].status \in {"AwaitingValidation"}}
           done == Selection(batches, validated)
<1>1. /\ startEpoch \in Nat /\ target \in Nat /\ Fits(batches, startEpoch)
      /\ Chain \subseteq Nat /\ batches \in Seq(Batch) /\ StartSlot(startEpoch) \in Nat
  BY SyncChainAssumption, StartSlotGrows DEF SyncIInv, Fits
<1>2. done \in Seq(Batch) /\ IsSelection(done, batches, Len(batches), validated)
  <2> HIDE DEF validated
  <2> QED BY <1>1, SelectionSelects
<1>3. ToBeProcessedStartEpoch(batches, startEpoch)
        = IF done = <<>> THEN startEpoch ELSE Last(done).startEpoch + EPOCHS_PER_BATCH
  BY DEF ToBeProcessedStartEpoch, WithStatus
<1> HIDE DEF done
<1> SUFFICES ASSUME NEW s \in Chain, s <= target, s \notin imported
             PROVE  \E i \in DOMAIN batches :
                      /\ s \in SlotsOf(batches[i].startEpoch)
                      /\ batches[i].status = "AwaitingValidation"
                      /\ batches[i].peer \notin Honest
  BY DEF Lacks
<1>4. s \in Nat /\ StartSlot(startEpoch) < s
  <2>1. ~(s <= StartSlot(startEpoch))
    BY DEF ImportedInOrder
  <2> QED BY <1>1, <2>1
<1>5. StartSlot(ToBeProcessedStartEpoch(batches, startEpoch)) >= target
  BY DEF IsDone
<1>6. done # <<>>
  BY <1>1, <1>3, <1>4, <1>5
<1>7. PICK k \in DOMAIN batches : k \in validated /\ Last(done) = batches[k]
  <2>1. Len(done) \in 1..Len(done)
    BY <1>2, <1>6
  <2>2. PICK at \in [1..Len(done) -> 1..Len(batches)] :
          \A j \in 1..Len(done) : at[j] \in validated /\ done[j] = batches[at[j]]
    BY <1>2 DEF IsSelection
  <2>3. at[Len(done)] \in validated /\ Last(done) = batches[at[Len(done)]]
    BY <2>1, <2>2 DEF Last
  <2> QED BY <2>3
<1>8. batches[k].status = "AwaitingValidation"
  BY <1>7
<1> HIDE DEF validated
<1>9. /\ k \in Nat /\ k <= Len(batches) /\ DOMAIN batches = 1..Len(batches)
      /\ Len(batches) \in Nat
  BY <1>1
<1>10. ToBeProcessedStartEpoch(batches, startEpoch) = startEpoch + k * EPOCHS_PER_BATCH
  <2>1. batches[k].startEpoch = startEpoch + (k - 1) * EPOCHS_PER_BATCH
    BY <1>1 DEF Fits, Window
  <2>2. /\ (k - 1) * EPOCHS_PER_BATCH \in Int /\ EPOCHS_PER_BATCH \in Nat
        /\ k * EPOCHS_PER_BATCH = (k - 1) * EPOCHS_PER_BATCH + EPOCHS_PER_BATCH
    BY <1>9, SyncChainAssumption
  <2> DEFINE before == (k - 1) * EPOCHS_PER_BATCH
             upTo == k * EPOCHS_PER_BATCH
  <2>3. /\ before \in Int /\ EPOCHS_PER_BATCH \in Nat /\ upTo = before + EPOCHS_PER_BATCH
        /\ batches[k].startEpoch = startEpoch + before
    BY <2>1, <2>2
  <2> HIDE DEF before, upTo
  <2>4. batches[k].startEpoch + EPOCHS_PER_BATCH = startEpoch + upTo
    BY <1>1, <2>3
  <2> QED BY <1>3, <1>6, <1>7, <2>4 DEF upTo
<1>11. s <= StartSlot(startEpoch + k * EPOCHS_PER_BATCH)
  <2> DEFINE end == startEpoch + k * EPOCHS_PER_BATCH
  <2>1. end \in Nat
    BY <1>1, <1>9, SyncChainAssumption
  <2>2. StartSlot(end) >= target
    BY <1>5, <1>10
  <2> HIDE DEF end
  <2>3. StartSlot(end) \in Nat
    BY <2>1, StartSlotGrows
  <2>4. s <= StartSlot(end)
    BY <1>1, <1>4, <2>2, <2>3
  <2> QED BY <2>4 DEF end
<1>12. PICK i \in DOMAIN batches : i <= k /\ s \in SlotsOf(batches[i].startEpoch)
  BY <1>1, <1>4, <1>9, <1>11, SlotInWindow
<1>13. batches[i].status = "AwaitingValidation"
  <2>1. CASE i = k
    BY <1>8, <2>1
  <2>2. CASE i # k
    <3>1. i < k
      BY <1>9, <1>12, <2>2
    <3>2. Stage(batches[i]) <= Stage(batches[k]) /\ Stage(batches[k]) = 1
      BY <1>8, <3>1, StageIs DEF ValidStatuses
    <3>3. batches[i].status = "Processing" => Stage(batches[i]) = 2
      BY StageIs
    <3>4. batches[i].status \notin {"AwaitingValidation", "Processing"} => Stage(batches[i]) = 3
      BY StageIs
    <3> QED BY <3>2, <3>3, <3>4
  <2> QED BY <2>1, <2>2
<1>14. batches[i].peer \notin Honest
  BY <1>12, <1>13 DEF HonestBatches, HonestBatch
<1> QED BY <1>12, <1>13, <1>14

\* An iteration finishes the chain, or changes no answer.
LEMMA IterateBlame ==
  ASSUME SyncIInv, ImportedInOrder, BlameInv, Iterate
  PROVE  BlameInv'
<1>1. loop = "woken" /\ imported' = imported /\ target' = target
  BY DEF Iterate
<1>2. status # "Synced" /\ iterError # "MaxProcessingAttempts"
  BY <1>1 DEF SyncIInv, Runs, BlameInv
<1>3. \/ NextIteration(triggered) /\ batches' = batches
      \/ Throw("BadOrder") /\ batches' = batches
      \/ /\ ValidStatuses(batches) /\ IsDone(batches, startEpoch, target) /\ Finish
      \/ \E i \in NextBatchToProcess(batches) : StartProcessing(i)
  BY DEF Iterate
<1>4. CASE (NextIteration(triggered) \/ Throw("BadOrder")) /\ batches' = batches
  <2>1. Quiet
    BY <1>1, <1>4, LoopIsQuiet
  <2>2. Carries(batches', batches)
    BY <1>4, UnchangedCarries
  <2> QED BY <1>1, <2>1, <2>2, CarriedStep DEF BlameInv
<1>5. CASE ValidStatuses(batches) /\ IsDone(batches, startEpoch, target) /\ Finish
  <2>1. Lacks(batches, imported, target)
    BY <1>5, DoneLacks DEF BlameInv
  <2>2. batches' = batches /\ iterError' = iterError
    BY <1>5 DEF Finish
  <2>3. HonestBatches(batches, imported)'
    BY <1>1, <2>2 DEF BlameInv, HonestBatches, HonestBatch
  <2>4. Lacks(batches, imported, target)'
    BY <1>1, <2>1, <2>2 DEF Lacks
  <2> QED BY <1>2, <2>2, <2>3, <2>4 DEF BlameInv
<1>6. ASSUME NEW i \in NextBatchToProcess(batches), StartProcessing(i) PROVE BlameInv'
  <2> DEFINE new == batches'
  <2>1. /\ i \in DOMAIN batches /\ batches[i].status = "AwaitingProcessing"
        /\ new = [batches EXCEPT ![i].status = "Processing"]
        /\ iterError' = iterError /\ status' = status /\ loop' = "processing"
    BY <1>6 DEF StartProcessing, NextBatchToProcess
  <2>2. batches[i] \in Batch
    BY <2>1 DEF SyncIInv, Fits
  <2> HIDE DEF new
  <2>3. /\ DOMAIN new = DOMAIN batches
        /\ \A j \in DOMAIN batches : j # i => new[j] = batches[j]
        /\ new[i].peer = batches[i].peer /\ new[i].blocks = batches[i].blocks
        /\ new[i].startEpoch = batches[i].startEpoch /\ new[i].status = "Processing"
    BY <2>1, <2>2 DEF SyncIInv, Fits, Batch, BatchRecord
  <2>4. HonestBatches(new, imported)
    <3> SUFFICES ASSUME NEW j \in DOMAIN batches PROVE HonestBatch(new[j], imported)
      BY <2>3 DEF HonestBatches
    <3>1. HonestBatch(batches[j], imported)
      BY DEF BlameInv, HonestBatches
    <3>2. CASE j = i
      BY <2>1, <2>3, <3>1, <3>2 DEF HonestBatch
    <3>3. CASE j # i
      BY <2>3, <3>1, <3>3
    <3> QED BY <3>2, <3>3
  <2>5. HonestBatches(batches, imported)'
    BY <1>1, <2>4 DEF HonestBatches, HonestBatch, new
  <2> QED BY <1>2, <2>1, <2>5 DEF BlameInv
<1> QED BY <1>3, <1>4, <1>5, <1>6

\* The blocks of a segment without an error are imported.
LEMMA ProcessedIsImported ==
  ASSUME NEW blocks, blocks \subseteq [slot : Chain, valid : BOOLEAN],
         NEW r \in SegmentResults(blocks), r.error = "none"
  PROVE  \A s \in SlotsIn(blocks) : s \in imported \cup r.imported
<1>1. PICK upTo : ImportsUpTo(blocks, upTo, r)
  BY SegmentImports
<1> QED BY <1>1 DEF ImportsUpTo

\* A batch that was processed without an error is imported.
LEMMA ProcessedBlame ==
  ASSUME SyncIInv, ImportedInOrder, BlameInv, Processed
  PROVE  BlameInv'
<1> DEFINE i == BatchInProcess
           b == ProcessingSuccess(batches[i])
           done == [batches EXCEPT ![i] = ProcessingSuccess(@)]
           epoch == IF Validates(batches[i].blocks) THEN batches[i].startEpoch ELSE startEpoch
           next == Advanced(done, epoch)
<1>1. /\ loop = "processing"
      /\ \/ NextIteration(TRUE)
            /\ TriggerBatchDownloader(status, next.batches, next.start,
                                      target, peerset, requests)
         \/ Throw("WrongStatus") /\ batches' = next.batches
  BY DEF Processed
<1>2. PICK r \in SegmentResults(batches[i].blocks) :
        r.error = "none" /\ imported' = imported \cup r.imported
  BY DEF Processed
<1>3. /\ i \in DOMAIN batches /\ i \in Nat /\ DOMAIN batches = 1..Len(batches)
      /\ batches[i].status = "Processing" /\ batches[i] \in Batch
      /\ \A j \in DOMAIN batches : j < i => batches[j].status = "AwaitingValidation"
  BY <1>1, BatchInProcessIs
<1> HIDE DEF i
<1>4. /\ b \in Batch /\ SameAttempts(b, batches[i]) /\ b.status = "AwaitingValidation"
      /\ b.peer = batches[i].peer /\ b.blocks = batches[i].blocks
  <2>1. b.peer = batches[i].peer /\ b.blocks = batches[i].blocks
    BY <1>3 DEF ProcessingSuccess, Batch, BatchRecord
  <2> QED BY <1>3, <2>1, ProcessedBatch
<1>5. done = [batches EXCEPT ![i] = b]
  BY <1>3
<1> HIDE DEF b, done
<1>6. /\ Fits(done, startEpoch) /\ DOMAIN done = DOMAIN batches /\ done[i] = b
      /\ \A j \in DOMAIN batches : j # i => done[j] = batches[j]
  BY <1>3, <1>4, <1>5, ReplacedFits DEF SyncIInv, SameAttempts
<1>7. HonestBatch(b, imported')
  <2> SUFFICES ASSUME b.peer \in Honest
               PROVE  /\ b.blocks = Blocks(b.startEpoch)
                      /\ \A s \in Chain : s \in SlotsOf(b.startEpoch) => s \in imported'
    BY DEF HonestBatch
  <2>1. b.blocks = Blocks(b.startEpoch) /\ b.startEpoch = batches[i].startEpoch
    BY <1>3, <1>4 DEF BlameInv, HonestBatches, HonestBatch, SameAttempts
  <2>2. ASSUME NEW s \in Chain, s \in SlotsOf(b.startEpoch) PROVE s \in imported'
    <3>1. Block(s, TRUE) \in Blocks(b.startEpoch) /\ Block(s, TRUE).slot = s
      BY <2>2 DEF Blocks, Block
    <3>2. s \in SlotsIn(b.blocks)
      <4> DEFINE c == Block(s, TRUE)
      <4>1. c \in b.blocks /\ c.slot = s
        BY <2>1, <3>1
      <4> HIDE DEF c
      <4> QED BY <4>1 DEF SlotsIn
    <3>3. b.blocks \subseteq [slot : Chain, valid : BOOLEAN]
      BY <1>4, BatchFields
    <3> QED BY <1>2, <1>4, <3>2, <3>3, ProcessedIsImported
  <2> QED BY <2>1, <2>2
<1>8. HonestBatches(done, imported')
  <2>1. HonestBatches(batches, imported')
    BY <1>2, HonestGrows DEF BlameInv
  <2> QED BY <1>6, <1>7, <2>1 DEF HonestBatches
<1>9. Fits(next.batches, next.start) /\ next.start \in Nat
  <2>1. startEpoch \in Nat
    BY DEF SyncIInv
  <2>2. \A j \in DOMAIN done : j < i => done[j].status = "AwaitingValidation"
    BY <1>3, <1>6
  <2>3. i \in DOMAIN done /\ done[i].startEpoch = batches[i].startEpoch
    BY <1>3, <1>4, <1>6 DEF SameAttempts
  <2>4. epoch \in {startEpoch, done[i].startEpoch}
    BY <2>3
  <2> HIDE DEF epoch
  <2> QED BY <1>6, <2>1, <2>2, <2>3, <2>4, AdvancedFits
<1> HIDE DEF epoch
<1>10. HonestBatches(next.batches, imported')
  <2>1. done \in Seq(Batch)
    BY <1>6 DEF Fits
  <2>2. \A k \in DOMAIN next.batches : \E j \in DOMAIN done : next.batches[k] = done[j]
    BY <2>1, RestOfBatches
  <2> HIDE DEF next
  <2> QED BY <1>8, <2>2 DEF HonestBatches
<1> HIDE DEF next
<1>11. Carries(batches', next.batches)
  <2>1. peerset \in Seq(PeerEntry)
    BY DEF SyncIInv
  <2> QED BY <1>1, <1>9, <2>1, DownloaderCarries, UnchangedCarries
<1>12. HonestBatches(batches, imported)'
  <2>1. HonestBatches(batches', imported')
    BY <1>10, <1>11, CarriesKeeps
  <2> QED BY <2>1 DEF HonestBatches, HonestBatch
<1>13. Quiet /\ status = "Syncing" /\ iterError # "MaxProcessingAttempts"
  <2>1. status = "Syncing"
    BY ProcessedGrows
  <2> QED BY <1>1, <2>1, LoopIsQuiet DEF BlameInv
<1> QED BY <1>12, <1>13 DEF BlameInv, Quiet, NotFinished

\* If the batch of an honest peer fails, one before it was held back.
LEMMA HonestBlamesEarlier ==
  ASSUME SyncIInv, ImportedInOrder, HonestBatches(batches, imported), loop = "processing",
         NEW i, i = BatchInProcess, batches[i].peer \in Honest,
         NEW r \in SegmentResults(batches[i].blocks), r.error = "Block"
  PROVE  /\ r.imported = {}
         /\ \E j \in DOMAIN batches : j < i /\ HasFaultyAnswer(batches[j])
<1>1. /\ i \in DOMAIN batches /\ i \in Nat /\ DOMAIN batches = 1..Len(batches)
      /\ Len(batches) \in Nat
      /\ batches[i].status = "Processing" /\ batches[i] \in Batch
      /\ \A j \in DOMAIN batches : j < i => batches[j].status = "AwaitingValidation"
  BY BatchInProcessIs
<1> DEFINE epoch == batches[i].startEpoch
<1>2. /\ batches[i].blocks = Blocks(epoch) /\ epoch \in Nat
      /\ epoch = startEpoch + (i - 1) * EPOCHS_PER_BATCH
      /\ Fits(batches, startEpoch) /\ startEpoch \in Nat
  BY <1>1, BatchFields DEF HonestBatches, HonestBatch, SyncIInv, Fits, Window
<1> HIDE DEF epoch
<1>3. /\ r.imported = {}
      /\ \E p \in Chain : p \notin imported /\ p <= StartSlot(epoch)
  BY <1>2, HonestSegment DEF ImportedInOrder
<1>4. PICK p \in Chain : p \notin imported /\ p <= StartSlot(epoch)
  BY <1>3
<1>5. p \in Nat /\ StartSlot(startEpoch) < p
  <2>1. p \in Nat /\ StartSlot(startEpoch) \in Nat
    BY <1>2, SyncChainAssumption, StartSlotGrows
  <2>2. ~(p <= StartSlot(startEpoch))
    BY <1>4 DEF ImportedInOrder
  <2> QED BY <2>1, <2>2
<1>6. PICK j \in DOMAIN batches : j <= i - 1 /\ p \in SlotsOf(batches[j].startEpoch)
  <2> DEFINE n == i - 1
  <2>1. n \in Nat /\ n <= Len(batches)
    BY <1>1
  <2>2. p <= StartSlot(startEpoch + n * EPOCHS_PER_BATCH)
    BY <1>2, <1>4
  <2> HIDE DEF n
  <2>3. \E j \in DOMAIN batches : j <= n /\ p \in SlotsOf(batches[j].startEpoch)
    BY <1>2, <1>5, <2>1, <2>2, SlotInWindow
  <2> QED BY <2>3 DEF n
<1>7. j < i /\ batches[j].status = "AwaitingValidation"
  BY <1>1, <1>6
<1>8. batches[j].peer \notin Honest
  BY <1>4, <1>6, <1>7 DEF HonestBatches, HonestBatch
<1>9. HasFaultyAnswer(batches[j])
  BY <1>7, <1>8 DEF HasFaultyAnswer
<1> QED BY <1>3, <1>7, <1>9

\* A chain that gives up a batch: the batch or one before it shows why.
LEMMA ExhaustedBlame ==
  ASSUME SyncIInv, ImportedInOrder, HonestBatches(batches, imported), loop = "processing",
         NEW i, i = BatchInProcess, NEW r \in SegmentResults(batches[i].blocks),
         r.error # "none",
         NEW failed, failed = WithFailedAttempt(batches[i], r.error),
         NEW new, new = [batches EXCEPT ![i] = failed]
  PROVE  /\ HonestBatches(new, imported)
         /\ r.error = "Block" => Accused(new)
<1>1. /\ i \in DOMAIN batches /\ batches[i] \in Batch /\ batches[i].peer # NoPeer
      /\ \A j \in DOMAIN batches : j < i => batches[j].status = "AwaitingValidation"
      /\ i \in Nat
  BY BatchInProcessIs
<1>2. /\ failed.peer = batches[i].peer /\ failed.blocks = batches[i].blocks
      /\ failed.startEpoch = batches[i].startEpoch /\ failed.status = batches[i].status
      /\ r.error = "Block" =>
           \E a \in ToSet(failed.failedProcessingAttempts) : a.peer = batches[i].peer
  BY <1>1, FailedIsRecorded
<1>3. /\ DOMAIN new = DOMAIN batches /\ new[i] = failed
      /\ \A j \in DOMAIN batches : j # i => new[j] = batches[j]
  BY <1>1 DEF SyncIInv, Fits
<1>4. HonestBatches(new, imported)
  <2>1. HonestBatch(failed, imported)
    BY <1>1, <1>2 DEF HonestBatches, HonestBatch
  <2> QED BY <1>3, <2>1 DEF HonestBatches
<1>5. ASSUME r.error = "Block" PROVE Accused(new)
  <2>1. CASE batches[i].peer \in Honest
    <3>1. PICK j \in DOMAIN batches : j < i /\ HasFaultyAnswer(batches[j])
      BY <1>5, <2>1, HonestBlamesEarlier
    <3>2. new[j] = batches[j] /\ j \in DOMAIN new
      BY <1>1, <1>3, <3>1
    <3> QED BY <3>1, <3>2 DEF Accused
  <2>2. CASE batches[i].peer \notin Honest
    <3>1. HasFaultyAnswer(failed)
      BY <1>2, <1>5, <2>2 DEF HasFaultyAnswer
    <3> QED BY <1>1, <1>3, <3>1 DEF Accused
  <2> QED BY <2>1, <2>2
<1> QED BY <1>4, <1>5

\* The batches if the one in process is to be requested again: those before it are as
\* they were, and its record shows a peer that is not honest.
FailsAgain(i, epoch, error, again) ==
  /\ again \in Seq(Batch) /\ DOMAIN again = DOMAIN batches
  /\ i \in DOMAIN again /\ epoch \in Nat /\ again[i].startEpoch = epoch
  /\ \A j \in DOMAIN again : j < i => again[j] = batches[j]
  /\ HonestBatches(again, imported)
  /\ \A j \in DOMAIN again :
       again[j].startEpoch < epoch => again[j] \in Batch /\ again[j].peer # NoPeer
  /\ error = "Block" /\ batches[i].peer \notin Honest => HasFaultyAnswer(again[i])

\* The batch in process fails, and is to be requested again.
LEMMA AgainBlame ==
  ASSUME SyncIInv, HonestBatches(batches, imported), loop = "processing",
         NEW i, i = BatchInProcess, NEW error,
         NEW failed, failed = WithFailedAttempt(batches[i], error),
         NEW b, b = Again(failed), NEW again, again = [batches EXCEPT ![i] = b]
  PROVE  FailsAgain(i, failed.startEpoch, error, again)
<1>1. /\ i \in DOMAIN batches /\ batches[i] \in Batch /\ batches[i].peer # NoPeer
      /\ \A j \in DOMAIN batches : j < i => batches[j].status = "AwaitingValidation"
      /\ i \in Nat /\ DOMAIN batches = 1..Len(batches) /\ Len(batches) \in Nat
      /\ batches \in Seq(Batch) /\ Fits(batches, startEpoch) /\ startEpoch \in Nat
  BY BatchInProcessIs DEF SyncIInv, Fits
<1>2. /\ failed.startEpoch = batches[i].startEpoch
      /\ error = "Block" =>
           \E a \in ToSet(failed.failedProcessingAttempts) : a.peer = batches[i].peer
      /\ b.status = "AwaitingDownload"
      /\ b.failedProcessingAttempts = failed.failedProcessingAttempts
  BY <1>1, FailedIsRecorded
<1>3. b \in Batch /\ b.startEpoch = failed.startEpoch
  <2>1. failed \in Batch
    BY <1>1, FailedAttemptBatch
  <2> QED BY <2>1, AgainBatch DEF SameAttempts
<1>4. batches[i].startEpoch \in Nat /\ \A j \in DOMAIN batches : batches[j] \in Batch
  BY <1>1, BatchFields
<1>5. /\ DOMAIN again = DOMAIN batches /\ again[i] = b /\ again \in Seq(Batch)
      /\ \A j \in DOMAIN batches : j # i => again[j] = batches[j]
  <2> HIDE DEF Batch
  <2> QED BY <1>1, <1>3
<1>6. HonestBatches(again, imported)
  <2>1. HonestBatch(b, imported)
    BY <1>2 DEF HonestBatch
  <2> QED BY <1>5, <2>1 DEF HonestBatches
<1>7. ASSUME NEW j \in DOMAIN batches, again[j].startEpoch < failed.startEpoch
      PROVE  again[j] \in Batch /\ again[j].peer # NoPeer
  <2>1. j # i
    BY <1>2, <1>3, <1>4, <1>5, <1>7
  <2>2. again[j] = batches[j] /\ batches[j] \in Batch
    BY <1>4, <1>5, <2>1
  <2>3. batches[j].startEpoch \in Nat
    BY <2>2, BatchFields
  <2>4. ~(batches[i].startEpoch <= batches[j].startEpoch)
    BY <1>2, <1>4, <1>7, <2>2, <2>3
  <2>5. ~(i <= j) /\ j \in Nat
    BY <1>1, <2>4, EpochsDiffer
  <2>6. batches[j].status = "AwaitingValidation"
    BY <1>1, <2>5
  <2> QED BY <2>2, <2>6, BatchFields
<1>8. error = "Block" /\ batches[i].peer \notin Honest => HasFaultyAnswer(b)
  BY <1>2 DEF HasFaultyAnswer
<1>9. \A j \in DOMAIN batches : j < i => again[j] = batches[j]
  BY <1>1, <1>5
<1>10. failed.startEpoch \in Nat /\ again[i].startEpoch = failed.startEpoch /\ i \in DOMAIN again
  BY <1>1, <1>2, <1>3, <1>4, <1>5
<1>11. \A j \in DOMAIN again :
         again[j].startEpoch < failed.startEpoch => again[j] \in Batch /\ again[j].peer # NoPeer
  BY <1>5, <1>7
<1>12. error = "Block" /\ batches[i].peer \notin Honest => HasFaultyAnswer(again[i])
  BY <1>5, <1>8
<1> QED BY <1>5, <1>6, <1>9, <1>10, <1>11, <1>12 DEF FailsAgain

\* The batches before the failed one fail with it: what they show stays.
LEMMA FailedUpToBlame ==
  ASSUME NEW bs, NEW slots, HonestBatches(bs, slots), NEW epoch, NEW error,
         \A k \in DOMAIN bs : bs[k].startEpoch < epoch => bs[k] \in Batch /\ bs[k].peer # NoPeer,
         NEW last, NEW new, new = FailedUpTo(bs, last, epoch, error)
  PROVE  /\ HonestBatches(new, slots)
         /\ Accused(bs) /\ error = "Block" => Accused(new)
<1>1. /\ DOMAIN new = DOMAIN bs
      /\ \A k \in DOMAIN bs :
           new[k] = IF k <= last /\ bs[k].startEpoch < epoch
                    THEN Failed(bs[k], error) ELSE bs[k]
  BY DEF FailedUpTo
<1>2. ASSUME NEW k \in DOMAIN bs
      PROVE  /\ HonestBatch(new[k], slots)
             /\ HasFaultyAnswer(bs[k]) /\ error = "Block" => HasFaultyAnswer(new[k])
  <2>1. HonestBatch(bs[k], slots)
    BY DEF HonestBatches
  <2>2. CASE k <= last /\ bs[k].startEpoch < epoch
    <3>1. bs[k] \in Batch /\ bs[k].peer # NoPeer /\ new[k] = Failed(bs[k], error)
      BY <1>1, <2>2
    <3> QED BY <2>1, <3>1, FailedKeeps
  <2>3. CASE ~(k <= last /\ bs[k].startEpoch < epoch)
    BY <1>1, <2>1, <2>3
  <2> QED BY <2>2, <2>3
<1>3. HonestBatches(new, slots)
  BY <1>1, <1>2 DEF HonestBatches
<1>4. Accused(bs) /\ error = "Block" => Accused(new)
  BY <1>1, <1>2 DEF Accused
<1> QED BY <1>3, <1>4

\* Advancing the chain to the failed batch, or not at all, drops no batch that shows
\* who is to blame for it.
LEMMA LeftBlame ==
  ASSUME SyncIInv, ImportedInOrder, HonestBatches(batches, imported), loop = "processing",
         NEW i, i = BatchInProcess, NEW r \in SegmentResults(batches[i].blocks),
         r.error = "Block",
         NEW again \in Seq(Batch), DOMAIN again = DOMAIN batches, i \in DOMAIN again,
         again[i].startEpoch \in Nat,
         \A j \in DOMAIN again : j < i => again[j] = batches[j],
         batches[i].peer \notin Honest => HasFaultyAnswer(again[i]),
         NEW to, to = (IF r.counted = {} THEN startEpoch ELSE again[i].startEpoch)
  PROVE  Accused(Advanced(again, to).batches)
<1>1. startEpoch \in Nat
  BY DEF SyncIInv
<1>2. CASE batches[i].peer \in Honest
  <2>1. r.counted \subseteq r.imported
    BY SegmentFields
  <2>2. r.counted = {} /\ \E j \in DOMAIN batches : j < i /\ HasFaultyAnswer(batches[j])
    BY <1>2, <2>1, HonestBlamesEarlier
  <2>3. PICK j \in DOMAIN batches : j < i /\ HasFaultyAnswer(batches[j])
    BY <2>2
  <2>4. again[j] = batches[j] /\ j \in DOMAIN again
    BY <2>3
  <2>5. to = startEpoch
    BY <2>2
  <2>6. Advanced(again, to).batches = again
    BY <1>1, <2>5 DEF Advanced
  <2> QED BY <2>3, <2>4, <2>6 DEF Accused
<1>3. CASE batches[i].peer \notin Honest
  <2>1. HasFaultyAnswer(again[i])
    BY <1>3
  <2>2. to \in Nat /\ (to <= startEpoch \/ to <= again[i].startEpoch)
    BY <1>1
  <2> DEFINE left == Advanced(again, to).batches
  <2>3. \E k \in DOMAIN left : left[k] = again[i]
    BY <2>2, KeptByAdvance
  <2> HIDE DEF left
  <2>4. Accused(left)
    BY <2>1, <2>3 DEF Accused
  <2> QED BY <2>4 DEF left
<1> QED BY <1>2, <1>3

\* A batch that is tried again takes those before it along: the one that shows why
\* is still there.
LEMMA RetriedBlame ==
  ASSUME SyncIInv, ImportedInOrder, HonestBatches(batches, imported), loop = "processing",
         NEW i, i = BatchInProcess, NEW r \in SegmentResults(batches[i].blocks),
         r.error # "none",
         NEW again, NEW epoch, FailsAgain(i, epoch, r.error, again),
         NEW to, to = (IF r.counted = {} THEN startEpoch ELSE epoch),
         NEW last
  PROVE  LET new == FailedUpTo(Advanced(again, to).batches, last, epoch, r.error)
         IN  /\ HonestBatches(new, imported)
             /\ r.error = "Block" => Accused(new)
<1> DEFINE left == Advanced(again, to).batches
           new == FailedUpTo(left, last, epoch, r.error)
<1>1. \A k \in DOMAIN left : \E j \in DOMAIN again : left[k] = again[j]
  BY RestOfBatches DEF FailsAgain
<1>2. r.error = "Block" => Accused(left)
  BY LeftBlame DEF FailsAgain
<1> HIDE DEF left
<1>3. HonestBatches(left, imported)
  BY <1>1 DEF HonestBatches, FailsAgain
<1>4. \A k \in DOMAIN left : left[k].startEpoch < epoch => left[k] \in Batch /\ left[k].peer # NoPeer
  BY <1>1 DEF FailsAgain
<1>5. /\ HonestBatches(new, imported)
      /\ Accused(left) /\ r.error = "Block" => Accused(new)
  BY <1>3, <1>4, FailedUpToBlame
<1>6. HonestBatches(new, imported) /\ (r.error = "Block" => Accused(new))
  BY <1>2, <1>5
<1> QED BY <1>6 DEF left

\* The batches before the failed one fit as they did.
LEMMA FailedUpToFits ==
  ASSUME NEW left, NEW start, Fits(left, start), NEW epoch, NEW error, NEW last,
         \A k \in DOMAIN left :
           left[k].startEpoch < epoch => left[k] \in Batch /\ left[k].peer # NoPeer,
         NEW new, new = FailedUpTo(left, last, epoch, error)
  PROVE  Fits(new, start)
<1>1. /\ DOMAIN new = DOMAIN left
      /\ \A k \in DOMAIN left :
           new[k] = IF k <= last /\ left[k].startEpoch < epoch
                    THEN Failed(left[k], error) ELSE left[k]
      /\ DOMAIN left = 1..Len(left) /\ Len(left) \in Nat /\ left \in Seq(Batch)
  BY DEF FailedUpTo, Fits
<1>2. ASSUME NEW k \in DOMAIN left
      PROVE  new[k] \in Batch /\ new[k].startEpoch = left[k].startEpoch
  <2>1. left[k] \in Batch
    BY <1>1
  <2>2. CASE k <= last /\ left[k].startEpoch < epoch
    <3> DEFINE f == WithFailedAttempt(left[k], error)
    <3>1. f \in Batch /\ f.startEpoch = left[k].startEpoch
      <4>1. left[k].peer # NoPeer
        BY <2>2
      <4> QED BY <2>1, <4>1, FailedAttemptBatch, FailedIsRecorded
    <3>2. Again(f) \in Batch /\ Again(f).startEpoch = f.startEpoch
      <4> HIDE DEF f
      <4> QED BY <3>1, AgainBatch DEF SameAttempts
    <3>3. new[k] = Failed(left[k], error)
      BY <1>1, <2>2
    <3>4. new[k] \in {f, Again(f)}
      BY <3>3 DEF Failed
    <3> HIDE DEF f
    <3> QED BY <3>1, <3>2, <3>4
  <2>3. CASE ~(k <= last /\ left[k].startEpoch < epoch)
    <3>1. new[k] = left[k]
      BY <1>1, <2>3
    <3> QED BY <2>1, <3>1
  <2> QED BY <2>2, <2>3
<1>3. new \in Seq(Batch)
  <2>1. new = [j \in 1..Len(left) |-> new[j]]
    <3>1. new = [j \in DOMAIN left |-> new[j]]
      BY DEF FailedUpTo
    <3> QED BY <1>1, <3>1
  <2>2. \A j \in 1..Len(left) : new[j] \in Batch
    BY <1>1, <1>2
  <2> QED BY <1>1, <2>1, <2>2
<1>4. Window(new, start)
  BY <1>1, <1>2 DEF Fits, Window
<1> QED BY <1>3, <1>4 DEF Fits

\* A batch that a failure of this node exhausts shows it.
LEMMA ExhaustedHere ==
  ASSUME NEW b \in Batch, b.peer # NoPeer, NEW f, f = WithFailedAttempt(b, "Local"),
         IsExhausted(f, "Local")
  PROVE  FailedHere(f)
<1> DEFINE old == b.failedProcessingAttempts
           attempt == Attempt(b, "Local")
           more == Append(old, attempt)
<1>1. f = [b EXCEPT !.failedProcessingAttempts = more]
  BY DEF WithFailedAttempt
<1>2. f.failedProcessingAttempts = more
  <2> HIDE DEF more
  <2> QED BY <1>1 DEF Batch, BatchRecord
<1>3. Len(f.failedProcessingAttempts) > MAX_BATCH_PROCESSING_ATTEMPTS
  BY DEF IsExhausted
<1>4. old \in Seq(Attempts) /\ attempt \in Attempts /\ attempt.here
  BY BatchFields DEF Attempt, Attempts
<1> HIDE DEF old, attempt
<1>5. Last(more) = attempt
  BY <1>4 DEF Last
<1> QED BY <1>2, <1>3, <1>4, <1>5 DEF FailedHere

\* A batch before the failed one that cannot be tried again shows it as well.
LEMMA ThrowingHere ==
  ASSUME NEW bs \in Seq(Batch), NEW epoch, NEW bad, bad = Throwing(bs, epoch, "Local"),
         NEW m \in bad, bs[m].status = "AwaitingValidation",
         NEW new, new = FailedUpTo(bs, m, epoch, "Local")
  PROVE  Blamed(new)
<1> DEFINE f == WithFailedAttempt(bs[m], "Local")
<1>1. m \in DOMAIN bs /\ m <= m /\ bs[m].startEpoch < epoch /\ IsExhausted(f, "Local")
  BY DEF Throwing
<1>2. bs[m] \in Batch /\ bs[m].peer # NoPeer
  BY <1>1, BatchFields
<1>3. new[m] = f /\ m \in DOMAIN new
  BY <1>1 DEF FailedUpTo, Failed
<1>4. FailedHere(f)
  BY <1>1, <1>2, ExhaustedHere
<1> QED BY <1>3, <1>4 DEF Blamed

\* Whatever segment fails: honest batches stay so, and a chain that gives up
\* its batch shows why.
LEMMA ProcessingFailsBlame ==
  ASSUME SyncIInv, ImportedInOrder, BlameInv, ProcessingFails
  PROVE  BlameInv'
<1> DEFINE i == BatchInProcess
<1>1. /\ loop = "processing" /\ target' = target /\ peerset' = peerset
      /\ status = "Syncing" /\ NotFinished
  BY ProcessingFailsGrows DEF ProcessingFails
<1>2. PICK r \in SegmentResults(batches[i].blocks) :
        LET failed == WithFailedAttempt(batches[i], r.error)
        IN  /\ r.error # "none" /\ imported' = imported \cup r.imported
            /\ ProcessingExhausted(r.error, failed) \/ ProcessingRetried(r, failed)
  BY DEF ProcessingFails
<1>3. /\ HonestBatches(batches, imported) /\ iterError # "MaxProcessingAttempts"
      /\ i = BatchInProcess
  BY <1>1 DEF BlameInv
<1> DEFINE failed == WithFailedAttempt(batches[i], r.error)
<1>4. MaxAttempts(r.error) = "MaxProcessingAttempts" => r.error = "Block" \/ r.error = "Local"
  BY <1>2, SegmentFields DEF MaxAttempts
<1>5. SUFFICES /\ HonestBatches(batches', imported)
               /\ iterError' = "MaxProcessingAttempts" => loop' = "ended" /\ Blamed(batches')
  <2> SUFFICES ASSUME HonestBatches(batches', imported),
                      iterError' = "MaxProcessingAttempts" => loop' = "ended" /\ Blamed(batches')
               PROVE  BlameInv'
    OBVIOUS
  <2>1. HonestBatches(batches', imported')
    BY <1>2, HonestGrows
  <2>2. HonestBatches(batches, imported)'
    BY <2>1 DEF HonestBatches, HonestBatch
  <2>3. iterError' = "MaxProcessingAttempts" => loop' = "ended" /\ Blamed(batches)'
    BY DEF Blamed, HasFaultyAnswer, FailedHere
  <2>4. status' # "Synced"
    BY <1>1 DEF NotFinished
  <2> QED BY <2>2, <2>3, <2>4 DEF BlameInv
<1> HIDE DEF i
<1>6. CASE ProcessingExhausted(r.error, failed)
  <2> DEFINE new == [batches EXCEPT ![i] = failed]
  <2>1. batches' = new /\ Throw(MaxAttempts(r.error))
    BY <1>6 DEF ProcessingExhausted, i
  <2>2. HonestBatches(new, imported) /\ (r.error = "Block" => Accused(new))
    <3> HIDE DEF failed
    <3>1. failed = WithFailedAttempt(batches[i], r.error) /\ r.error # "none"
      BY <1>2 DEF failed
    <3> QED BY <1>1, <1>3, <3>1, ExhaustedBlame
  <2>3. r.error = "Local" => Blamed(new)
    <3> SUFFICES ASSUME r.error = "Local" PROVE Blamed(new)
      OBVIOUS
    <3> HIDE DEF failed
    <3>1. failed = WithFailedAttempt(batches[i], "Local") /\ IsExhausted(failed, "Local")
      BY <1>6 DEF failed, ProcessingExhausted
    <3>2. i \in DOMAIN batches /\ batches[i] \in Batch /\ batches[i].peer # NoPeer
      BY <1>1, <1>3, BatchInProcessIs
    <3>3. FailedHere(failed)
      BY <3>1, <3>2, ExhaustedHere
    <3>4. new[i] = failed /\ i \in DOMAIN new
      BY <3>2
    <3> QED BY <3>3, <3>4 DEF Blamed
  <2>4. Accused(new) => Blamed(new)
    BY DEF Accused, Blamed
  <2>5. iterError' = MaxAttempts(r.error) /\ loop' = "ended"
    BY <2>1 DEF Throw, Leave
  <2> HIDE DEF new
  <2> QED BY <1>4, <2>1, <2>2, <2>3, <2>4, <2>5
<1>7. CASE ProcessingRetried(r, failed)
  <2> DEFINE epoch == failed.startEpoch
             again == [batches EXCEPT ![i] = Again(failed)]
             to == IF r.counted = {} THEN startEpoch ELSE epoch
             next == Advanced(again, to)
             bad == Throwing(next.batches, epoch, r.error)
             error == IF bad # {} /\ next.batches[Min(bad)].status = "AwaitingValidation"
                      THEN MaxAttempts(r.error) ELSE "WrongStatus"
             last == IF bad = {} THEN Len(next.batches) ELSE Min(bad)
             new == FailedUpTo(next.batches, last, epoch, r.error)
  <2>1. /\ ~IsExhausted(failed, r.error)
        /\ next.ok /\ bad = {} =>
             /\ NextIteration(triggered)
             /\ TriggerBatchDownloader(status, new, next.start, target, peerset, requests)
        /\ ~(next.ok /\ bad = {}) => Throw(error) /\ batches' = new
    BY <1>7 DEF ProcessingRetried, i
  <2>2. FailsAgain(i, epoch, r.error, again)
    <3> DEFINE b == Again(failed)
               e == r.error
    <3>1. failed = WithFailedAttempt(batches[i], e) /\ b = Again(failed)
      OBVIOUS
    <3>2. again = [batches EXCEPT ![i] = b]
      OBVIOUS
    <3> HIDE DEF failed, b, again, e
    <3>3. FailsAgain(i, failed.startEpoch, e, again)
      BY <1>1, <1>3, <3>1, <3>2, AgainBlame
    <3> QED BY <3>3 DEF e
  <2>3. Fits(again, startEpoch) /\ \A j \in DOMAIN again : j < i => again[j].status = "AwaitingValidation"
    <3> DEFINE e == r.error
    <3>1. failed = WithFailedAttempt(batches[i], e) /\ ~IsExhausted(failed, e)
      BY <2>1
    <3>2. again = [batches EXCEPT ![i] = Again(failed)]
      OBVIOUS
    <3> HIDE DEF failed, e, again
    <3>3. WaitsAgain(i, failed, again)
      BY <1>1, <1>3, <3>1, <3>2, AgainKeeps, Zenon
    <3> QED BY <3>3 DEF WaitsAgain
  <2> HIDE DEF again, epoch
  <2>4. HonestBatches(new, imported) /\ (r.error = "Block" => Accused(new))
    <3>1. to = IF r.counted = {} THEN startEpoch ELSE epoch
      OBVIOUS
    <3>2. r.error # "none" /\ new = FailedUpTo(Advanced(again, to).batches, last, epoch, r.error)
      BY <1>2
    <3> HIDE DEF to, last, new, next, error, bad
    <3> QED BY <1>1, <1>3, <2>2, <3>1, <3>2, RetriedBlame
  <2>5. ASSUME ~(next.ok /\ bad = {})
        PROVE  /\ HonestBatches(batches', imported)
               /\ iterError' = "MaxProcessingAttempts" => loop' = "ended" /\ Blamed(batches')
    <3>1. Throw(error) /\ batches' = new
      BY <2>1, <2>5
    <3>2. iterError' = error /\ loop' = "ended"
      BY <3>1 DEF Throw, Leave
    <3>3. error \in {MaxAttempts(r.error), "WrongStatus"}
      BY DEF error
    <3>4. Accused(new) => Blamed(new)
      BY DEF Accused, Blamed
    <3>5. r.error = "Local" /\ error = "MaxProcessingAttempts" => Blamed(new)
      <4> SUFFICES ASSUME r.error = "Local", error = "MaxProcessingAttempts" PROVE Blamed(new)
        OBVIOUS
      <4>1. bad # {} /\ next.batches[Min(bad)].status = "AwaitingValidation"
        BY DEF error
      <4>2. last = Min(bad)
        BY <4>1 DEF last
      <4>3. next.batches \in Seq(Batch)
        <5>1. to \in {startEpoch, again[i].startEpoch} /\ startEpoch \in Nat
          BY <2>2 DEF to, SyncIInv, FailsAgain
        <5> HIDE DEF to
        <5> QED BY <2>2, <2>3, <5>1, AdvancedFits DEF FailsAgain, Fits
      <4> DEFINE left == next.batches
      <4>4. /\ bad = Throwing(left, epoch, "Local") /\ new = FailedUpTo(left, last, epoch, "Local")
            /\ left \in Seq(Batch) /\ left[Min(bad)].status = "AwaitingValidation"
        BY <4>1, <4>3 DEF bad, new
      <4> HIDE DEF next, to, left
      <4>5. Min(bad) \in bad
        <5>1. bad \subseteq Nat
          BY <4>4 DEF Throwing
        <5> QED BY <4>1, <5>1, FirstIsMin
      <4> QED BY <4>2, <4>4, <4>5, ThrowingHere
    <3> QED BY <1>4, <2>4, <3>1, <3>2, <3>3, <3>4, <3>5
  <2> HIDE DEF bad, error, last, new
  <2>6. CASE next.ok /\ bad = {}
    <3>1. Fits(next.batches, next.start) /\ next.start \in Nat
      <4>1. to \in {startEpoch, again[i].startEpoch} /\ startEpoch \in Nat
        BY <2>2 DEF to, SyncIInv, FailsAgain
      <4> HIDE DEF to
      <4> QED BY <2>2, <2>3, <4>1, AdvancedFits DEF FailsAgain
    <3> HIDE DEF next, to
    <3>2. Fits(new, next.start)
      <4>1. \A k \in DOMAIN next.batches :
              next.batches[k].startEpoch < epoch =>
                next.batches[k] \in Batch /\ next.batches[k].peer # NoPeer
        <5>1. \A k \in DOMAIN next.batches : \E j \in DOMAIN again : next.batches[k] = again[j]
          BY <2>2, RestOfBatches DEF next, FailsAgain
        <5> QED BY <2>2, <5>1 DEF FailsAgain
      <4> DEFINE left == next.batches
                 start == next.start
                 e == r.error
      <4>2. /\ Fits(left, start) /\ new = FailedUpTo(left, last, epoch, e)
            /\ \A k \in DOMAIN left : left[k].startEpoch < epoch => left[k] \in Batch /\ left[k].peer # NoPeer
        BY <3>1, <4>1 DEF new
      <4> HIDE DEF left, start, e
      <4>3. Fits(new, start)
        BY <4>2, FailedUpToFits
      <4> QED BY <4>3 DEF start
    <3>3. /\ NextIteration(triggered)
          /\ TriggerBatchDownloader(status, new, next.start, target, peerset, requests)
      BY <2>1, <2>6
    <3>4. Carries(batches', new)
      <4>1. peerset \in Seq(PeerEntry)
        BY DEF SyncIInv
      <4> QED BY <3>1, <3>2, <3>3, <4>1, DownloaderCarries
    <3>5. HonestBatches(batches', imported)
      BY <2>4, <3>4, CarriesKeeps
    <3>6. iterError' # "MaxProcessingAttempts"
      <4>1. Quiet
        BY <1>1, <3>3, LoopIsQuiet
      <4> QED BY <1>3, <4>1 DEF Quiet
    <3> QED BY <3>5, <3>6
  <2> QED BY <2>5, <2>6
<1> QED BY <1>2, <1>6, <1>7

\* A chain begins without batches, and is not synced.
LEMMA InitBlame == Init => BlameInv
BY DEF Init, BlameInv, HonestBatches

\* Every step keeps the answers of honest peers, and who is to blame.
LEMMA NextBlame ==
  ASSUME SyncIInv, ImportedInOrder, BlameInv, [Next]_vars
  PROVE  BlameInv'
<1>1. CASE UNCHANGED vars
  BY <1>1 DEF vars, BlameInv, HonestBatches, HonestBatch, Blamed, HasFaultyAnswer, FailedHere, Lacks
<1>2. ASSUME NEW p \in Peer, NEW t \in Targets, AddPeer(p, t) PROVE BlameInv'
  BY <1>2, PeersBlame
<1>3. ASSUME NEW p \in Peer, RemovePeer(p) PROVE BlameInv'
  BY <1>3, PeersBlame
<1>4. CASE Update
  BY <1>4, PeersBlame
<1>5. ASSUME NEW r \in requests, NEW blocks \in Answers(r.peer, r.startEpoch),
             DownloadSucceeds(r, blocks)
      PROVE  BlameInv'
  BY <1>5, DownloadSucceedsBlame
<1>6. ASSUME NEW r \in requests, DownloadFails(r) PROVE BlameInv'
  BY <1>6, DownloadFailsBlame
<1>7. CASE Iterate
  BY <1>7, IterateBlame
<1>8. CASE Processed
  BY <1>8, ProcessedBlame
<1>9. CASE ProcessingFails
  BY <1>9, ProcessingFailsBlame
<1> QED BY <1>1, <1>2, <1>3, <1>4, <1>5, <1>6, <1>7, <1>8, <1>9 DEF Next

\* In every state: honest answers are complete and, once processed, imported; and
\* a chain that gave up a batch shows a peer that is not honest.
LEMMA BlameInvariance == Spec => []BlameInv
<1>1. SyncIInv /\ ImportedInOrder /\ BlameInv /\ [Next]_vars => BlameInv'
  BY NextBlame
<1> QED BY <1>1, InitBlame, SyncInvariance, ImportInvariance, PTL DEF Spec

\* A chain that says it is synced has imported every block up to its target, but
\* those that a peer held back that is not honest: this is what SyncChain.sync
\* promises when it returns, and what RangeSync removes the chain on.
THEOREM SyncedIsComplete == Spec => []SyncedIsImported
<1>1. BlameInv => SyncedIsImported
  BY DEF BlameInv, Lacks, SyncedIsImported
<1> QED BY <1>1, BlameInvariance, PTL

\* MaxProcessingAttempts, on which SyncChain reports every peer it has, is due to a
\* failure of this node, or a batch shows a peer that is not honest: processBatch
\* fails on a good batch as well, but only after a batch that lacks blocks, which is
\* still among the batches.
THEOREM FaultyPeersAreOnRecord == Spec => []FaultyPeerOnRecord
<1>1. BlameInv => FaultyPeerOnRecord
  BY DEF BlameInv, Blamed, FaultyPeerOnRecord
<1> QED BY <1>1, BlameInvariance, PTL

\* What a pool of honest peers is promised: a chain is given up for failed
\* processing only when this node failed the last attempt of a batch, and one
\* that says it is synced has every block up to its target.
HonestPoolSyncs ==
  /\ iterError = "MaxProcessingAttempts" => \E i \in DOMAIN batches : FailedHere(batches[i])
  /\ status = "Synced" => \A s \in Chain : s <= target => s \in imported

\* Honest peers alone bring a chain to its target or leave it to be retried, however
\* their answers and the failures interleave; what gives it up is this node.
THEOREM HonestPeersSync == ASSUME Peer \subseteq Honest PROVE Spec => []HonestPoolSyncs
<1>1. ASSUME SyncIInv, NEW i \in DOMAIN batches PROVE ~HasFaultyAnswer(batches[i])
  <2>1. batches[i] \in Batch
    BY <1>1 DEF SyncIInv, Fits
  <2>2. \A a \in ToSet(batches[i].failedProcessingAttempts) : a.peer \in Honest
    <3> DEFINE attempts == batches[i].failedProcessingAttempts
    <3>1. attempts \in Seq(Attempts)
      BY <2>1, BatchFields
    <3> HIDE DEF attempts
    <3>2. \A a \in ToSet(attempts) : a \in Attempts
      BY <3>1 DEF ToSet
    <3>3. \A a \in ToSet(attempts) : a.peer \in Honest
      BY <3>2 DEF Attempts
    <3> QED BY <3>3 DEF attempts
  <2>3. batches[i].status = "AwaitingValidation" => batches[i].peer \in Honest
    BY <2>1, BatchFields
  <2> QED BY <2>2, <2>3 DEF HasFaultyAnswer
<1>2. SyncIInv /\ BlameInv => HonestPoolSyncs
  <2> SUFFICES ASSUME SyncIInv, BlameInv PROVE HonestPoolSyncs
    OBVIOUS
  <2>1. iterError = "MaxProcessingAttempts" => \E i \in DOMAIN batches : FailedHere(batches[i])
    BY <1>1 DEF BlameInv, Blamed
  <2>2. ASSUME status = "Synced", NEW s \in Chain, s <= target PROVE s \in imported
    BY <1>1, <2>2 DEF BlameInv, Lacks, HasFaultyAnswer
  <2> QED BY <2>1, <2>2 DEF HonestPoolSyncs
<1> QED BY <1>2, BlameInvariance, SyncInvariance, PTL

-----------------------------------------------------------------------------
(* No lost wake-up. *)

\* Every batch is one that the chain wants, or wanted for another target.
Wanted(bs) == \A i \in DOMAIN bs : \E t \in Targets : StartSlot(bs[i].startEpoch) < t

\* Every batch that downloads awaits its answer.
Asked(bs, rs) ==
  \A i \in DOMAIN bs : bs[i].status = "Downloading" => RequestOf(bs[i]) \in rs

IsDownloading(bs) == \E i \in DOMAIN bs : bs[i].status = "Downloading"

IsAtLimit(bs, start, tgt) == BufferIsFull(bs) \/ BeyondTarget(bs, start, tgt)

AllRequested(bs) == \A i \in DOMAIN bs : bs[i].status # "AwaitingDownload"

\* Something is requested already, or requestBatches would do nothing for a target.
IsServed(bs, start) ==
  \/ IsDownloading(bs)
  \/ AllRequested(bs) /\ \E t \in Targets : IsAtLimit(bs, start, t)

\* An iteration would find nothing to do with a target.
IsIdle(bs, start) ==
  NextBatchToProcess(bs) = {} /\ \E t \in Targets : ~IsDone(bs, start, t)

\* Batches with the same answers, processed or not.
SameAnswers(new, bs) ==
  \A st \in {"AwaitingProcessing", "AwaitingValidation"} : \A i \in Nat :
    (i \in DOMAIN new /\ new[i].status = st) <=> (i \in DOMAIN bs /\ bs[i].status = st)

\* In a window the next batch is no duplicate: only the buffer and the target
\* hold it back.
LEMMA IncludeNextBatchServes ==
  ASSUME NEW start \in Nat, NEW tgt \in Nat, tgt \in Targets, NEW bs, Fits(bs, start),
         NEW p \in Peer
  PROVE  LET new == IncludeNextBatch(start, tgt, bs, p)
         IN  /\ IsAtLimit(bs, start, tgt) => new = bs
             /\ IsDownloading(bs) \/ ~IsAtLimit(bs, start, tgt) => IsDownloading(new)
             /\ AllRequested(bs) => AllRequested(new)
             /\ Wanted(bs) => Wanted(new)
<1> DEFINE new == IncludeNextBatch(start, tgt, bs, p)
           epoch == ToBeDownloadedStartEpoch(bs, start)
           b == StartDownloading(NewBatch(epoch), p)
<1>0. Len(bs) \in Nat /\ DOMAIN bs = 1..Len(bs) /\ bs \in Seq(Batch)
  BY DEF Fits
<1>1. epoch \in Nat /\ epoch = start + Len(bs) * EPOCHS_PER_BATCH
  BY NextEpoch
<1>2. b \in Batch /\ b.startEpoch = epoch /\ b.status = "Downloading"
  BY <1>1, NewBatchIsBatch, StartDownloadingBatch DEF SameAttempts
<1>3. /\ IsAtLimit(bs, start, tgt) => new = bs
      /\ ~IsAtLimit(bs, start, tgt) /\ ~IsDuplicate(bs, epoch) => new = Append(bs, b)
      /\ new = bs \/ (new = Append(bs, b) /\ ~BeyondTarget(bs, start, tgt))
  BY DEF IncludeNextBatch, IsAtLimit
<1>4. ~IsDuplicate(bs, epoch)
  <2> SUFFICES ASSUME NEW i \in DOMAIN bs, bs[i].startEpoch = epoch PROVE FALSE
    BY DEF IsDuplicate
  <2>1. bs[i].startEpoch = start + (i - 1) * EPOCHS_PER_BATCH
    BY DEF Fits, Window
  <2>2. /\ i - 1 \in Nat /\ Len(bs) \in Nat /\ ~(Len(bs) <= i - 1)
    BY <1>0
  <2>3. ~(Len(bs) * EPOCHS_PER_BATCH <= (i - 1) * EPOCHS_PER_BATCH)
    BY <2>2, ProductGrows
  <2>4. /\ Len(bs) * EPOCHS_PER_BATCH \in Nat /\ (i - 1) * EPOCHS_PER_BATCH \in Nat
    BY <2>2, SyncChainAssumption
  <2> DEFINE l == Len(bs) * EPOCHS_PER_BATCH
             k == (i - 1) * EPOCHS_PER_BATCH
  <2>5. l \in Nat /\ k \in Nat /\ ~(l <= k) /\ start + k = start + l
    BY <1>1, <2>1, <2>3, <2>4
  <2> HIDE DEF l, k
  <2> QED BY <2>5
<1>5. BeyondTarget(bs, start, tgt) <=> StartSlot(epoch) + 1 > tgt
  BY DEF BeyondTarget
<1> HIDE DEF new, epoch, b
<1>6. CASE new = bs
  BY <1>3, <1>4, <1>6 DEF IsAtLimit, new
<1>7. CASE new = Append(bs, b) /\ ~BeyondTarget(bs, start, tgt) /\ new # bs
  <2>1. /\ DOMAIN new = 1..(Len(bs) + 1) /\ new[Len(bs) + 1] = b
        /\ \A i \in 1..Len(bs) : new[i] = bs[i]
    <3>1. new = Append(bs, b) /\ b \in Batch
      BY <1>2, <1>7
    <3> QED BY <1>0, <3>1
  <2>2. \A i \in DOMAIN new : (i \in DOMAIN bs /\ new[i] = bs[i]) \/ new[i] = b
    BY <1>0, <2>1
  <2>3. Len(bs) + 1 \in DOMAIN new
    BY <1>0, <2>1
  <2>4. IsDownloading(new)
    BY <1>2, <2>1, <2>3 DEF IsDownloading
  <2>5. AllRequested(bs) => AllRequested(new)
    BY <1>2, <2>2 DEF AllRequested
  <2>6. StartSlot(epoch) < tgt
    <3>1. StartSlot(epoch) \in Nat
      BY <1>1, StartSlotGrows
    <3> QED BY <1>5, <1>7, <3>1
  <2>7. Wanted(bs) => Wanted(new)
    BY <1>2, <2>2, <2>6 DEF Wanted
  <2> QED BY <1>3, <1>7, <2>4, <2>5, <2>7 DEF new
<1> QED BY <1>3, <1>6, <1>7

\* With a peer, requestBatches leaves no batch that could be requested, and
\* requests a new one unless enough are on their way.
LEMMA RequestedServes ==
  ASSUME NEW start \in Nat, NEW tgt \in Nat, tgt \in Targets, NEW bs, Fits(bs, start),
         NEW order \in Seq(Peer)
  PROVE  /\ Wanted(bs) => Wanted(Requested(bs, start, tgt, order))
         /\ order # <<>> => IsServed(Requested(bs, start, tgt, order), start)
<1> DEFINE included == Included(bs, start, tgt, order, Retried(bs, order))
           Good == {n \in 0..Len(order) :
                      /\ Fits(included[n], start)
                      /\ Wanted(bs) => Wanted(included[n])
                      /\ order # <<>> =>
                           /\ AllRequested(included[n])
                           /\ \/ IsDownloading(included[n])
                              \/ /\ ~IsDownloading(bs)
                                 /\ n = 0 \/ IsAtLimit(included[n], start, tgt)}
<1>1. /\ Len(bs) \in Nat /\ DOMAIN bs = 1..Len(bs) /\ Len(order) \in Nat
      /\ \A i \in DOMAIN bs : bs[i] \in Batch
      /\ \A n \in 1..Len(order) : order[n] \in Peer
  BY DEF Fits
<1>2. /\ Requested(bs, start, tgt, order) = included[Len(order)]
      /\ included[0] = Retried(bs, order)
      /\ \A n \in 1..Len(order) :
           included[n] = IF ActiveRequests(bs, order[n]) > 0 THEN included[n - 1]
                         ELSE IncludeNextBatch(start, tgt, included[n - 1], order[n])
  BY <1>1, RequestedSteps
<1> HIDE DEF included
<1>3. 0 \in Good
  <2> DEFINE new == Retried(bs, order)
  <2>1. /\ Fits(new, start) /\ Extends(new, bs) /\ Len(new) = Len(bs)
        /\ DOMAIN new = DOMAIN bs
    BY RetriedFits DEF Retried
  <2>2. ASSUME NEW i \in DOMAIN bs
        PROVE  /\ new[i].startEpoch = bs[i].startEpoch
               /\ order # <<>> => new[i].status # "AwaitingDownload"
               /\ bs[i].status = "Downloading" => new[i].status = "Downloading"
    <3>1. CASE bs[i].status = "AwaitingDownload" /\ order # <<>>
      <4>1. BestPeerToRetryBatch(bs, bs[i], order) \in Peer
        BY <3>1, BestPeerIsPeer DEF Fits
      <4>2. new[i] = StartDownloading(bs[i], BestPeerToRetryBatch(bs, bs[i], order))
        BY <3>1 DEF Retried
      <4> HIDE DEF new
      <4> QED BY <1>1, <3>1, <4>1, <4>2, StartDownloadingBatch DEF SameAttempts
    <3>2. CASE ~(bs[i].status = "AwaitingDownload" /\ order # <<>>)
      <4>1. new[i] = bs[i]
        BY <3>2 DEF Retried
      <4> QED BY <3>2, <4>1
    <3> QED BY <3>1, <3>2
  <2> HIDE DEF new
  <2>3. Wanted(bs) => Wanted(new)
    BY <2>1, <2>2 DEF Wanted
  <2>4. order # <<>> => AllRequested(new)
    BY <2>1, <2>2 DEF AllRequested
  <2>5. IsDownloading(bs) => IsDownloading(new)
    BY <2>1, <2>2 DEF IsDownloading
  <2>6. included[0] = new /\ 0 \in 0..Len(order)
    BY <1>1, <1>2 DEF new
  <2> QED BY <2>1, <2>3, <2>4, <2>5, <2>6
<1>4. ASSUME NEW n \in 0..(Len(order) - 1), n \in Good
      PROVE  n + 1 \in Good
  <2> DEFINE old == included[n]
             new == included[n + 1]
             p == order[n + 1]
  <2>1. /\ n + 1 \in 1..Len(order) /\ (n + 1) - 1 = n /\ n + 1 \in 0..Len(order)
        /\ n + 1 # 0 /\ p \in Peer
    BY <1>1
  <2>2. new = IF ActiveRequests(bs, p) > 0 THEN old ELSE IncludeNextBatch(start, tgt, old, p)
    BY <1>2, <2>1
  <2>3. /\ Fits(old, start)
        /\ Wanted(bs) => Wanted(old)
        /\ order # <<>> =>
             /\ AllRequested(old)
             /\ IsDownloading(old) \/ ~IsDownloading(bs)
    BY <1>4
  <2>4. IsDownloading(bs) \/ ActiveRequests(bs, p) = 0
    <3> DEFINE D == {i \in DOMAIN bs : bs[i].status = "Downloading" /\ bs[i].peer = p}
    <3>1. ~IsDownloading(bs) => D = {}
      BY DEF IsDownloading
    <3>2. ActiveRequests(bs, p) = Cardinality(D)
      BY DEF ActiveRequests
    <3> HIDE DEF D
    <3> QED BY <3>1, <3>2, FS_EmptySet
  <2> HIDE DEF old, new, p
  <2>5. CASE ActiveRequests(bs, p) > 0
    <3>1. new = old
      BY <2>2, <2>5
    <3>2. IsDownloading(bs)
      BY <2>4, <2>5
    <3>3. new = included[n + 1]
      BY DEF new
    <3> QED BY <2>1, <2>3, <3>1, <3>2, <3>3
  <2>6. CASE ~(ActiveRequests(bs, p) > 0)
    <3>1. new = IncludeNextBatch(start, tgt, old, p)
      BY <2>2, <2>6
    <3>2. /\ Fits(new, start)
          /\ IsAtLimit(old, start, tgt) => new = old
          /\ IsDownloading(old) \/ ~IsAtLimit(old, start, tgt) => IsDownloading(new)
          /\ AllRequested(old) => AllRequested(new)
          /\ Wanted(old) => Wanted(new)
      BY <2>1, <2>3, <3>1, IncludeNextBatchFits, IncludeNextBatchServes
    <3>3. IsDownloading(new) \/ IsAtLimit(new, start, tgt)
      BY <3>2
    <3>4. new = included[n + 1]
      BY DEF new
    <3> QED BY <2>1, <2>3, <3>2, <3>3, <3>4
  <2> QED BY <2>5, <2>6
<1>5. Len(order) \in Good
  <2> HIDE DEF Good
  <2>1. 0..Len(order) \subseteq Good
    BY <1>1, <1>3, <1>4, Induction
  <2> QED BY <1>1, <2>1
<1>6. order # <<>> => Len(order) # 0
  OBVIOUS
<1> QED BY <1>2, <1>5, <1>6 DEF IsServed

\* The processing goes on after the last batch that was processed.
LEMMA ProcessedUpTo ==
  ASSUME NEW start, NEW bs, Fits(bs, start)
  PROVE  \/ /\ \A i \in DOMAIN bs : bs[i].status # "AwaitingValidation"
            /\ ToBeProcessedStartEpoch(bs, start) = start
         \/ \E k \in DOMAIN bs :
              /\ bs[k].status = "AwaitingValidation"
              /\ \A j \in DOMAIN bs : bs[j].status = "AwaitingValidation" => j <= k
              /\ ToBeProcessedStartEpoch(bs, start) = bs[k].startEpoch + EPOCHS_PER_BATCH
<1> DEFINE validated == {i \in DOMAIN bs : bs[i].status \in {"AwaitingValidation"}}
           done == Selection(bs, validated)
<1>1. bs \in Seq(Batch) /\ DOMAIN bs = 1..Len(bs) /\ Len(bs) \in Nat
  BY DEF Fits
<1>2. \A i : i \in validated <=> i \in DOMAIN bs /\ bs[i].status = "AwaitingValidation"
  OBVIOUS
<1>3. ToBeProcessedStartEpoch(bs, start)
        = IF done = <<>> THEN start ELSE Last(done).startEpoch + EPOCHS_PER_BATCH
  BY DEF ToBeProcessedStartEpoch, WithStatus
<1> HIDE DEF validated
<1>4. done \in Seq(Batch) /\ IsSelection(done, bs, Len(bs), validated)
  BY <1>1, SelectionSelects
<1> HIDE DEF done
<1>5. PICK at \in [1..Len(done) -> 1..Len(bs)] :
        /\ \A j \in 1..Len(done) : at[j] \in validated /\ done[j] = bs[at[j]]
        /\ \A j, k \in 1..Len(done) : j < k => at[j] < at[k]
        /\ \A i \in 1..Len(bs) : i \in validated => \E j \in 1..Len(done) : at[j] = i
  BY <1>4 DEF IsSelection
<1>6. CASE done = <<>>
  <2>1. 1..Len(done) = {}
    BY <1>6
  <2>2. \A i \in DOMAIN bs : bs[i].status # "AwaitingValidation"
    BY <1>1, <1>2, <1>5, <2>1
  <2> QED BY <1>3, <1>6, <2>2
<1>7. CASE done # <<>>
  <2> DEFINE n == Len(done)
             k == at[n]
  <2>1. n \in 1..Len(done) /\ n \in Nat /\ Last(done) = done[n]
    BY <1>4, <1>7 DEF Last
  <2>2. k \in validated /\ done[n] = bs[k] /\ k \in 1..Len(bs)
    BY <1>5, <2>1
  <2>3. ASSUME NEW j \in DOMAIN bs, bs[j].status = "AwaitingValidation" PROVE j <= k
    <3>1. PICK m \in 1..Len(done) : at[m] = j
      BY <1>1, <1>2, <1>5, <2>3
    <3>2. m = n \/ m < n
      BY <2>1
    <3>3. j = k \/ j < k
      BY <1>5, <2>1, <3>1, <3>2
    <3> QED BY <1>1, <2>2, <3>3
  <2>4. ToBeProcessedStartEpoch(bs, start) = bs[k].startEpoch + EPOCHS_PER_BATCH
    BY <1>3, <1>7, <2>1, <2>2
  <2>5. k \in DOMAIN bs /\ bs[k].status = "AwaitingValidation"
    BY <1>2, <2>2
  <2> HIDE DEF k, n
  <2> QED BY <2>3, <2>4, <2>5
<1> QED BY <1>6, <1>7

\* With the same answers there is the same to do.
LEMMA SameAnswersIdle ==
  ASSUME NEW start, NEW bs, NEW new, Fits(bs, start), Fits(new, start), SameAnswers(new, bs),
         IsIdle(bs, start)
  PROVE  IsIdle(new, start)
<1>1. /\ DOMAIN bs = 1..Len(bs) /\ Len(bs) \in Nat
      /\ DOMAIN new = 1..Len(new) /\ Len(new) \in Nat
  BY DEF Fits
<1>2. /\ \A i \in DOMAIN new : new[i].status = "AwaitingValidation" =>
           i \in DOMAIN bs /\ bs[i].status = "AwaitingValidation"
      /\ \A i \in DOMAIN bs : bs[i].status = "AwaitingValidation" =>
           i \in DOMAIN new /\ new[i].status = "AwaitingValidation"
      /\ \A i \in DOMAIN new : new[i].status = "AwaitingProcessing" =>
           i \in DOMAIN bs /\ bs[i].status = "AwaitingProcessing"
  BY <1>1 DEF SameAnswers
<1>3. NextBatchToProcess(new) = {}
  <2> SUFFICES ASSUME NEW i \in DOMAIN new, new[i].status = "AwaitingProcessing",
                      \A j \in 1..(i - 1) : new[j].status = "AwaitingValidation"
               PROVE  FALSE
    BY DEF NextBatchToProcess
  <2>1. i \in DOMAIN bs /\ bs[i].status = "AwaitingProcessing"
    BY <1>2
  <2>2. \A j \in 1..(i - 1) : j \in DOMAIN new
    BY <1>1
  <2>3. \A j \in 1..(i - 1) : bs[j].status = "AwaitingValidation"
    BY <1>2, <2>2
  <2>4. i \in NextBatchToProcess(bs)
    BY <2>1, <2>3 DEF NextBatchToProcess
  <2> QED BY <2>4 DEF IsIdle
<1>4. ToBeProcessedStartEpoch(new, start) = ToBeProcessedStartEpoch(bs, start)
  <2>1. CASE \A i \in DOMAIN bs : bs[i].status # "AwaitingValidation"
    <3>1. \A i \in DOMAIN new : new[i].status # "AwaitingValidation"
      BY <1>2, <2>1
    <3> QED BY <2>1, <3>1, ProcessedUpTo
  <2>2. CASE ~ \A i \in DOMAIN bs : bs[i].status # "AwaitingValidation"
    <3>1. PICK k \in DOMAIN bs :
            /\ bs[k].status = "AwaitingValidation"
            /\ \A j \in DOMAIN bs : bs[j].status = "AwaitingValidation" => j <= k
            /\ ToBeProcessedStartEpoch(bs, start) = bs[k].startEpoch + EPOCHS_PER_BATCH
      BY <2>2, ProcessedUpTo
    <3>2. k \in DOMAIN new /\ new[k].status = "AwaitingValidation"
      BY <1>2, <3>1
    <3>3. PICK m \in DOMAIN new :
            /\ new[m].status = "AwaitingValidation"
            /\ \A j \in DOMAIN new : new[j].status = "AwaitingValidation" => j <= m
            /\ ToBeProcessedStartEpoch(new, start) = new[m].startEpoch + EPOCHS_PER_BATCH
      BY <3>2, ProcessedUpTo
    <3>4. m <= k /\ k <= m /\ m \in Nat /\ k \in Nat
      BY <1>1, <1>2, <3>1, <3>2, <3>3
    <3>5. m = k
      BY <3>4
    <3>6. new[m].startEpoch = bs[k].startEpoch
      BY <3>1, <3>2, <3>5 DEF Fits, Window
    <3> QED BY <3>1, <3>3, <3>6
  <2> QED BY <2>1, <2>2
<1> QED BY <1>3, <1>4 DEF IsIdle, IsDone

\* What the downloader makes of the batches and the downloads.
LEMMA DownloaderServes ==
  ASSUME NEW start \in Nat, NEW tgt \in Nat, tgt \in Targets, NEW bs, Fits(bs, start),
         NEW peers \in Seq(PeerEntry),
         NEW st, NEW rs, TriggerBatchDownloader(st, bs, start, tgt, peers, rs)
  PROVE  /\ Fits(batches', start) /\ SameAnswers(batches', bs)
         /\ Wanted(bs) => Wanted(batches')
         /\ Asked(bs, rs) => Asked(batches', requests')
         /\ st = "Syncing" /\ peers # <<>> => IsServed(batches', start)
<1>1. CASE st # "Syncing"
  BY <1>1 DEF TriggerBatchDownloader, SameAnswers
<1>2. CASE st = "Syncing"
  <2>1. PICK order \in SetToSeqs(PeersOf(peers)) :
          /\ batches' = Requested(bs, start, tgt, order)
          /\ requests' = rs \union NewRequests(bs, Requested(bs, start, tgt, order))
    BY <1>2 DEF TriggerBatchDownloader
  <2>2. order \in Seq(Peer)
    BY OrdersOfPeers
  <2> DEFINE new == Requested(bs, start, tgt, order)
  <2>3. /\ Fits(new, start) /\ Extends(new, bs)
        /\ Wanted(bs) => Wanted(new)
        /\ order # <<>> => IsServed(new, start)
    BY <2>2, RequestedFits, RequestedServes
  <2> HIDE DEF new
  <2>4. /\ DOMAIN bs = 1..Len(bs) /\ Len(bs) \in Nat
        /\ \A i \in DOMAIN new :
             \/ i \in DOMAIN bs /\ new[i] = bs[i]
             \/ /\ i \in DOMAIN bs /\ bs[i].status = "AwaitingDownload"
                /\ new[i].status = "Downloading" /\ SameAttempts(new[i], bs[i])
             \/ i > Len(bs) /\ new[i].status = "Downloading"
        /\ \A i \in DOMAIN bs :
             i \in DOMAIN new /\ (bs[i].status # "AwaitingDownload" => new[i] = bs[i])
    BY <2>3, ExtendsFacts
  <2>5. SameAnswers(new, bs)
    BY <2>4 DEF SameAnswers
  <2>6. ASSUME Asked(bs, rs), NEW i \in DOMAIN new, new[i].status = "Downloading"
        PROVE  RequestOf(new[i]) \in rs \union NewRequests(bs, new)
    <3>1. CASE i \in DOMAIN bs /\ new[i] = bs[i]
      BY <2>6, <3>1 DEF Asked
    <3>2. CASE ~(i \in DOMAIN bs /\ new[i] = bs[i])
      <4>1. ~(i \in DOMAIN bs /\ bs[i].status = "Downloading")
        BY <2>4, <3>2
      <4>2. ASSUME NEW j \in DOMAIN bs, bs[j].startEpoch = new[i].startEpoch,
                   bs[j].status = "Downloading"
            PROVE  FALSE
        <5>1. j \in DOMAIN new /\ new[j] = bs[j]
          BY <2>4, <4>2
        <5>2. /\ new[j].startEpoch <= new[i].startEpoch
              /\ new[i].startEpoch <= new[j].startEpoch
          <6>1. new[j].startEpoch \in Nat /\ new[j].startEpoch = new[i].startEpoch
            BY <2>3, <4>2, <5>1, BatchFields DEF Fits
          <6> QED BY <6>1
        <5>3. i <= j /\ j <= i
          BY <2>3, <5>1, <5>2, EpochsDiffer
        <5>5. i \in Nat /\ j \in Nat
          BY <2>3, <5>1 DEF Fits
        <5>4. i = j
          BY <5>3, <5>5
        <5> QED BY <4>1, <4>2, <5>4
      <4>3. new[i] \in ToSet(new)
        BY DEF ToSet
      <4> QED BY <2>6, <4>2, <4>3 DEF NewRequests
    <3> QED BY <3>1, <3>2
  <2>7. Asked(bs, rs) => Asked(new, rs \union NewRequests(bs, new))
    BY <2>6 DEF Asked
  <2>8. peers # <<>> => order # <<>>
    <3> SUFFICES ASSUME peers # <<>> PROVE order # <<>>
      OBVIOUS
    <3> DEFINE S == PeersOf(peers)
    <3>1. S # {} /\ S \subseteq Peer
      <4>1. 1 \in DOMAIN peers /\ \A i \in DOMAIN peers : peers[i] \in PeerEntry
        OBVIOUS
      <4>2. \A i \in DOMAIN peers : peers[i].peer \in Peer
        BY <4>1 DEF PeerEntry
      <4> QED BY <4>1, <4>2 DEF PeersOf, ToSet
    <3>2. IsFiniteSet(S)
      BY <3>1, SyncChainAssumption, FS_Subset
    <3>3. Cardinality(S) \in Nat /\ Cardinality(S) # 0
      BY <3>1, <3>2, FS_CardinalityType, FS_EmptySet
    <3>4. order \in [1..Cardinality(S) -> S]
      BY DEF SetToSeqs
    <3> HIDE DEF S
    <3>5. 1 \in DOMAIN order
      BY <3>3, <3>4
    <3> QED BY <3>5
  <2>9. batches' = new /\ requests' = rs \union NewRequests(bs, new)
    BY <2>1 DEF new
  <2> QED BY <2>3, <2>5, <2>7, <2>8, <2>9
<1> QED BY <1>1, <1>2

\* While the loop waits nothing is to be processed, and whatever can be requested
\* was.
AwakeInv ==
  /\ target \in Targets
  /\ Wanted(batches)
  /\ iterError = "none" => Asked(batches, requests)
  /\ loop = "waiting" => iterError = "none"
  /\ loop = "waiting" /\ status = "Syncing" => IsIdle(batches, startEpoch)
  /\ status = "Syncing" /\ peerset # <<>> /\ loop \in {"waiting", "woken"} =>
       IsServed(batches, startEpoch)

\* A chain whose loop waits without a download has nothing left to do.
LEMMA AwakeIsNeverStuck == SyncIInv /\ AwakeInv => NeverStuck
<1> SUFFICES ASSUME SyncIInv, AwakeInv, status = "Syncing", loop = "waiting", peerset # <<>>,
                    requests = {}
             PROVE  \E t, u \in Targets : /\ IsDone(batches, startEpoch, t)
                                           /\ ~IsDone(batches, startEpoch, u)
  BY DEF NeverStuck
<1>1. /\ DOMAIN batches = 1..Len(batches) /\ Len(batches) \in Nat
      /\ \A i \in DOMAIN batches : batches[i] \in Batch
      /\ Fits(batches, startEpoch) /\ startEpoch \in Nat /\ Targets \subseteq Nat
      /\ ValidStatuses(batches)
  BY SyncChainAssumption DEF SyncIInv, Fits, Runs
<1>2. \A i \in DOMAIN batches : batches[i].status # "Downloading"
  BY DEF AwakeInv, Asked
<1>3. \A i \in DOMAIN batches : batches[i].status # "Processing"
  BY DEF SyncIInv, Runs
<1>4. AllRequested(batches) /\ \E t \in Targets : IsAtLimit(batches, startEpoch, t)
  BY <1>2 DEF AwakeInv, IsServed, IsDownloading
<1>5. \A i \in DOMAIN batches : batches[i].status \in {"AwaitingProcessing", "AwaitingValidation"}
  <2> TAKE i \in DOMAIN batches
  <2>1. batches[i].status \in BatchStatus
    BY <1>1, BatchFields
  <2> QED BY <1>2, <1>3, <1>4, <2>1 DEF BatchStatus, AllRequested
<1>6. NextBatchToProcess(batches) = {} /\ \E u \in Targets : ~IsDone(batches, startEpoch, u)
  BY DEF AwakeInv, IsIdle
<1>7. \A i \in DOMAIN batches : batches[i].status = "AwaitingValidation"
  <2> DEFINE Left == {i \in DOMAIN batches : batches[i].status = "AwaitingProcessing"}
  <2>1. Left = {}
    <3> SUFFICES ASSUME Left # {} PROVE FALSE
      OBVIOUS
    <3>1. Left \in SUBSET Nat
      BY <1>1
    <3> HIDE DEF Left
    <3>2. PICK m \in Left : \A k \in Left : m <= k
      BY <3>1, LeastNatural
    <3>3. m \in DOMAIN batches /\ batches[m].status = "AwaitingProcessing"
      BY <3>2 DEF Left
    <3>4. \A j \in 1..(m - 1) : j \in DOMAIN batches /\ ~(m <= j)
      BY <1>1, <3>3
    <3>5. \A j \in 1..(m - 1) : batches[j].status = "AwaitingValidation"
      BY <1>5, <3>2, <3>4 DEF Left
    <3>6. m \in NextBatchToProcess(batches)
      BY <3>3, <3>5 DEF NextBatchToProcess
    <3> QED BY <1>6, <3>6
  <2> QED BY <1>5, <2>1
<1>8. ~BufferIsFull(batches)
  <2> DEFINE S == {i \in DOMAIN batches : batches[i].status \in {"Downloading", "AwaitingProcessing"}}
             some == Selection(batches, S)
  <2>1. S = {}
    BY <1>7
  <2>2. BufferIsFull(batches) <=> Len(some) > BATCH_BUFFER_SIZE
    BY DEF BufferIsFull, WithStatus
  <2> HIDE DEF S
  <2>3. some \in Seq(Batch) /\ IsSelection(some, batches, Len(batches), S)
    BY <1>1, SelectionSelects DEF Fits
  <2> HIDE DEF some
  <2>4. Len(some) = 0
    <3>1. \A j \in 1..Len(some) : FALSE
      BY <2>1, <2>3 DEF IsSelection
    <3>2. Len(some) \in Nat
      BY <2>3
    <3> QED BY <3>1, <3>2
  <2> QED BY <2>2, <2>4, SyncChainAssumption
<1>9. PICK t \in Targets : BeyondTarget(batches, startEpoch, t)
  BY <1>4, <1>8 DEF IsAtLimit
<1>10. ToBeProcessedStartEpoch(batches, startEpoch) = ToBeDownloadedStartEpoch(batches, startEpoch)
  <2>1. CASE batches = <<>>
    <3>1. \A i \in DOMAIN batches : FALSE
      BY <2>1
    <3> QED BY <1>1, <2>1, <3>1, ProcessedUpTo DEF ToBeDownloadedStartEpoch
  <2>2. CASE batches # <<>>
    <3> DEFINE n == Len(batches)
    <3>1. n \in DOMAIN batches /\ \A i \in DOMAIN batches : i <= n
      BY <1>1, <2>2 DEF Fits
    <3>2. PICK k \in DOMAIN batches :
            /\ \A j \in DOMAIN batches : batches[j].status = "AwaitingValidation" => j <= k
            /\ ToBeProcessedStartEpoch(batches, startEpoch) = batches[k].startEpoch + EPOCHS_PER_BATCH
      BY <1>1, <1>7, <3>1, ProcessedUpTo
    <3>3. n <= k /\ k <= n
      BY <1>7, <3>1, <3>2
    <3>4. k = n
      BY <1>1, <3>3
    <3> QED BY <2>2, <3>2, <3>4 DEF ToBeDownloadedStartEpoch, Last
  <2> QED BY <2>1, <2>2
<1>11. IsDone(batches, startEpoch, t)
  <2> DEFINE epoch == ToBeDownloadedStartEpoch(batches, startEpoch)
  <2>1. StartSlot(epoch) + 1 > t
    BY <1>9 DEF BeyondTarget
  <2>2. StartSlot(epoch) \in Nat
    BY <1>1, NextEpoch, StartSlotGrows
  <2>3. StartSlot(epoch) >= t
    BY <1>1, <1>9, <2>1, <2>2
  <2> QED BY <1>10, <2>3 DEF IsDone
<1> QED BY <1>6, <1>11

-----------------------------------------------------------------------------
(* The steps of the loop. *)

\* The target is one that a peer announced, or stays.
LEMMA TargetIsAnnounced ==
  ASSUME target \in Targets, NEW peers \in Seq(PeerEntry)
  PROVE  ComputeTarget(peers) \in Targets
<1>1. CASE peers = <<>>
  BY <1>1 DEF ComputeTarget
<1>2. CASE peers # <<>>
  BY <1>2, MostCommonTargetIsTarget DEF ComputeTarget
<1> QED BY <1>1, <1>2

\* A handler that ends with the downloader, on batches bs.
LEMMA AwakeStep ==
  ASSUME target' \in Targets, peerset' \in Seq(PeerEntry),
         startEpoch' \in Nat,
         NEW bs, Fits(bs, startEpoch'), Wanted(bs),
         NEW rs, iterError' = "none" => Asked(bs, rs),
         loop' = "waiting" => iterError' = "none",
         loop' = "waiting" /\ status' = "Syncing" => IsIdle(bs, startEpoch'),
         NEW st, status' = "Syncing" /\ loop' \in {"waiting", "woken"} => st = "Syncing",
         TriggerBatchDownloader(st, bs, startEpoch', target', peerset', rs)
  PROVE  AwakeInv'
<1> DEFINE start == startEpoch'
           peers == peerset'
           tgt == target'
<1>1. tgt \in Nat /\ tgt \in Targets
  BY SyncChainAssumption
<1>2. /\ start \in Nat /\ Fits(bs, start) /\ peers \in Seq(PeerEntry)
      /\ TriggerBatchDownloader(st, bs, start, tgt, peers, rs)
  OBVIOUS
<1> HIDE DEF start, peers, tgt
<1>3. /\ Fits(batches', start) /\ SameAnswers(batches', bs)
      /\ Wanted(bs) => Wanted(batches')
      /\ Asked(bs, rs) => Asked(batches', requests')
      /\ st = "Syncing" /\ peers # <<>> => IsServed(batches', start)
  BY <1>1, <1>2, DownloaderServes
<1> DEFINE new == batches'
<1>4. IsIdle(bs, start) => IsIdle(new, start)
  <2>1. Fits(new, start) /\ SameAnswers(new, bs)
    BY <1>3
  <2> HIDE DEF new
  <2> QED BY <1>2, <2>1, SameAnswersIdle
<1>5. loop' = "waiting" /\ status' = "Syncing" => IsIdle(batches', startEpoch')
  BY <1>4 DEF start
<1>6. status' = "Syncing" /\ peerset' # <<>> /\ loop' \in {"waiting", "woken"} =>
        IsServed(batches', startEpoch')
  BY <1>3 DEF start, peers
<1>7. Wanted(batches') /\ (iterError' = "none" => Asked(batches', requests'))
  BY <1>3
<1>8. IsIdle(batches', startEpoch') => IsIdle(batches, startEpoch)'
  BY DEF IsIdle, NextBatchToProcess, IsDone, ToBeProcessedStartEpoch, WithStatus, Selection,
         StartSlot
<1>9. IsServed(batches', startEpoch') => IsServed(batches, startEpoch)'
  BY DEF IsServed, IsDownloading, AllRequested, IsAtLimit, BufferIsFull, BeyondTarget,
         WithStatus, Selection, ToBeDownloadedStartEpoch, StartSlot
<1>10. /\ Wanted(batches') => Wanted(batches)'
       /\ Asked(batches', requests') => Asked(batches, requests)'
  BY DEF Wanted, Asked, StartSlot, RequestOf
<1> QED BY <1>5, <1>6, <1>7, <1>8, <1>9, <1>10 DEF AwakeInv

\* A step that leaves the batches and the downloads.
LEMMA AwakeStays ==
  ASSUME AwakeInv, target' \in Targets, startEpoch' = startEpoch, batches' = batches,
         requests' = requests, iterError' = "none" => iterError = "none",
         loop' = "waiting" => iterError' = "none",
         loop' = "waiting" /\ status' = "Syncing" => IsIdle(batches, startEpoch),
         status' = "Syncing" /\ peerset' # <<>> /\ loop' \in {"waiting", "woken"} =>
           status = "Syncing" /\ peerset # <<>> /\ loop \in {"waiting", "woken"}
  PROVE  AwakeInv'
<1>1. Wanted(batches)'
  BY DEF AwakeInv, Wanted, StartSlot
<1>2. (iterError = "none")' => Asked(batches, requests)'
  BY DEF AwakeInv, Asked, RequestOf
<1>3. IsIdle(batches, startEpoch) => IsIdle(batches, startEpoch)'
  BY DEF IsIdle, NextBatchToProcess, IsDone, ToBeProcessedStartEpoch, WithStatus, Selection,
         StartSlot
<1>4. IsServed(batches, startEpoch) => IsServed(batches, startEpoch)'
  BY DEF IsServed, IsDownloading, AllRequested, IsAtLimit, BufferIsFull, BeyondTarget,
         WithStatus, Selection, ToBeDownloadedStartEpoch, StartSlot
<1> QED BY <1>1, <1>2, <1>3, <1>4 DEF AwakeInv

\* A step after which the loop neither waits nor is about to run.
LEMMA AwakeAway ==
  ASSUME target' \in Targets, loop' \notin {"waiting", "woken"},
         Wanted(batches'), iterError' = "none" => Asked(batches', requests')
  PROVE  AwakeInv'
<1>1. Wanted(batches)'
  BY DEF Wanted, StartSlot
<1>2. (iterError = "none")' => Asked(batches, requests)'
  BY DEF Asked, RequestOf
<1> QED BY <1>1, <1>2 DEF AwakeInv

\* A chain that did not start yet wants nothing.
LEMMA InitAwake == Init => AwakeInv
BY DEF Init, AwakeInv, Wanted, Asked

\* A peer that joins starts the chain, ends it or is given batches.
LEMMA AddPeerAwake ==
  ASSUME SyncIInv, AwakeInv, NEW p \in Peer, NEW t \in Targets, AddPeer(p, t)
  PROVE  AwakeInv'
<1> DEFINE st == IF inRangeSync' THEN status' ELSE status
<1>1. /\ inRangeSync /\ UpdateAfterJoin(target') /\ startEpoch' = startEpoch
      /\ peerset' = SetPeer(p, t) /\ target' = ComputeTarget(peerset')
      /\ TriggerBatchDownloader(st, batches, startEpoch, target', peerset', requests)
  BY DEF AddPeer
<1>2. peerset' \in Seq(PeerEntry)
  BY <1>1, SetPeerTyped DEF SyncIInv
<1>3. target' \in Targets
  BY <1>1, <1>2, TargetIsAnnounced DEF AwakeInv
<1>4. /\ loop' = "waiting" => iterError' = "none"
      /\ loop' = "waiting" /\ status' = "Syncing" => loop = "waiting" /\ status = "Syncing"
      /\ iterError' = "none" => iterError = "none"
      /\ status' = "Syncing" => st = "Syncing"
  <2>1. CASE IsKnown(target')
    <3>1. End("Aborted", FALSE)
      BY <1>1, <2>1 DEF UpdateAfterJoin
    <3> QED BY <3>1 DEF End, Leave
  <2>2. CASE ~IsKnown(target') /\ status = "Stopped"
    BY <1>1, <2>2 DEF UpdateAfterJoin
  <2>3. CASE ~IsKnown(target') /\ status # "Stopped"
    BY <1>1, <2>3 DEF UpdateAfterJoin, loopVars, AwakeInv
  <2> QED BY <2>1, <2>2, <2>3
<1> HIDE DEF st
<1>5. /\ startEpoch' \in Nat /\ Fits(batches, startEpoch') /\ Wanted(batches)
      /\ iterError' = "none" => Asked(batches, requests)
      /\ loop' = "waiting" /\ status' = "Syncing" => IsIdle(batches, startEpoch')
      /\ TriggerBatchDownloader(st, batches, startEpoch', target', peerset', requests)
  BY <1>1, <1>3, <1>4 DEF SyncIInv, AwakeInv
<1> QED BY <1>2, <1>3, <1>4, <1>5, AwakeStep

\* A peer that leaves takes nothing away that is requested.
LEMMA RemovePeerAwake ==
  ASSUME SyncIInv, AwakeInv, NEW p \in Peer, RemovePeer(p)
  PROVE  AwakeInv'
<1>1. peerset' \in Seq(PeerEntry)
  BY SelectionSelects DEF SyncIInv, RemovePeer
<1>2. target' \in Targets
  BY <1>1, TargetIsAnnounced DEF AwakeInv, RemovePeer
<1>3. peerset # <<>>
  BY DEF RemovePeer, PeersOf, ToSet
<1>4. /\ startEpoch' = startEpoch /\ batches' = batches /\ requests' = requests
      /\ loop' = loop /\ iterError' = iterError /\ status' = status
  BY DEF RemovePeer, loopVars
<1>5. /\ loop = "waiting" => iterError = "none"
      /\ loop = "waiting" /\ status = "Syncing" => IsIdle(batches, startEpoch)
  BY DEF AwakeInv
<1> QED BY <1>2, <1>3, <1>4, <1>5, AwakeStays

\* A loop that waits is left when RangeSync removes the chain.
LEMMA UpdateAwake ==
  ASSUME SyncIInv, AwakeInv, Update
  PROVE  AwakeInv'
<1>1. /\ target' \in Targets /\ startEpoch' = startEpoch /\ batches' = batches
      /\ requests' = requests /\ peerset' = peerset /\ End("Aborted", FALSE)
  BY DEF Update, AwakeInv
<1>2. CASE loop = "waiting"
  <2>1. loop' = "ended" /\ iterError' = "Aborted"
    BY <1>1, <1>2 DEF End, Leave
  <2> QED BY <1>1, <2>1, AwakeAway DEF AwakeInv
<1>3. CASE loop # "waiting"
  <2>1. loop' = loop /\ iterError' = "Aborted" /\ status' = status
    BY <1>1, <1>3 DEF End
  <2> QED BY <1>1, <1>3, <2>1, AwakeStays
<1> QED BY <1>2, <1>3

\* The batch that was answered, or failed, is out of the requests; the others
\* still await theirs.
LEMMA AnsweredIsWanted ==
  ASSUME SyncIInv, AwakeInv, NEW i \in DOMAIN batches, batches[i].status = "Downloading",
         NEW b \in Batch, b.startEpoch = batches[i].startEpoch
  PROVE  LET mid == [batches EXCEPT ![i] = b]
         IN  /\ Fits(mid, startEpoch) /\ Wanted(mid)
             /\ b.status # "Downloading" /\ iterError = "none" =>
                  Asked(mid, requests \ {RequestOf(batches[i])})
<1> DEFINE mid == [batches EXCEPT ![i] = b]
<1>1. /\ Fits(mid, startEpoch) /\ DOMAIN mid = DOMAIN batches /\ mid[i] = b
      /\ \A j \in DOMAIN batches : j # i => mid[j] = batches[j]
  BY ReplacedFits DEF SyncIInv
<1> HIDE DEF mid
<1>2. \A j \in DOMAIN mid : mid[j].startEpoch = batches[j].startEpoch
  BY <1>1
<1>3. Wanted(mid)
  BY <1>1, <1>2 DEF AwakeInv, Wanted
<1>4. ASSUME b.status # "Downloading", iterError = "none",
             NEW j \in DOMAIN mid, mid[j].status = "Downloading"
      PROVE  RequestOf(mid[j]) \in requests \ {RequestOf(batches[i])}
  <2>1. j # i /\ j \in DOMAIN batches /\ mid[j] = batches[j]
    BY <1>1, <1>4
  <2>2. RequestOf(mid[j]) \in requests
    BY <1>4, <2>1 DEF AwakeInv, Asked
  <2>3. RequestOf(mid[j]) # RequestOf(batches[i])
    <3> SUFFICES ASSUME RequestOf(mid[j]) = RequestOf(batches[i]) PROVE FALSE
      OBVIOUS
    <3>1. batches[j].startEpoch = batches[i].startEpoch
      <4>1. RequestOf(batches[j]).startEpoch = RequestOf(batches[i]).startEpoch
        BY <2>1
      <4> QED BY <4>1 DEF RequestOf
    <3>2. /\ batches[i].startEpoch \in Nat /\ i \in Nat /\ j \in Nat
      BY <2>1, BatchFields DEF SyncIInv, Fits
    <3>3. /\ batches[j].startEpoch <= batches[i].startEpoch
          /\ batches[i].startEpoch <= batches[j].startEpoch
      BY <3>1, <3>2
    <3>4. i <= j /\ j <= i
      BY <2>1, <3>3, EpochsDiffer DEF SyncIInv
    <3> QED BY <2>1, <3>2, <3>4
  <2> QED BY <2>2, <2>3
<1>5. b.status # "Downloading" /\ iterError = "none" =>
        Asked(mid, requests \ {RequestOf(batches[i])})
  BY <1>4 DEF Asked
<1> QED BY <1>1, <1>3, <1>5 DEF mid

\* An answer wakes the loop, and asks for more.
LEMMA DownloadSucceedsAwake ==
  ASSUME SyncIInv, AwakeInv, NEW r \in requests, NEW blocks \in Answers(r.peer, r.startEpoch),
         DownloadSucceeds(r, blocks)
  PROVE  AwakeInv'
<1> DEFINE i == CHOOSE j \in BatchOf(r) : TRUE
           b == DownloadingSuccess(batches[i], blocks)
           mid == [batches EXCEPT ![i] = b]
           less == requests \ {r}
<1>1. /\ BatchOf(r) # {} /\ i \in DOMAIN batches /\ batches[i] \in Batch
      /\ batches[i].status = "Downloading" /\ r = RequestOf(batches[i])
  BY BatchOfRequest
<1>2. /\ Trigger
      /\ TriggerBatchDownloader(status, mid, startEpoch, target, peerset, less)
      /\ UNCHANGED <<startEpoch, target, peerset>>
  BY <1>1 DEF DownloadSucceeds
<1> HIDE DEF i
<1>3. b \in Batch /\ SameAttempts(b, batches[i]) /\ b.status = "AwaitingProcessing"
  <2>1. r.startEpoch = batches[i].startEpoch
    BY <1>1 DEF RequestOf
  <2>2. blocks \in Answers(r.peer, batches[i].startEpoch)
    BY <2>1
  <2> QED BY <1>1, <2>2, DownloadedBatch
<1> HIDE DEF b
<1>4. Fits(mid, startEpoch) /\ Wanted(mid) /\ (iterError = "none" => Asked(mid, less))
  BY <1>1, <1>3, AnsweredIsWanted DEF SameAttempts
<1> HIDE DEF mid, less
<1>5. loop' # "waiting" /\ iterError' = iterError /\ status' = status
  BY <1>2 DEF Trigger
<1>6. /\ startEpoch' \in Nat /\ Fits(mid, startEpoch') /\ target \in Targets
      /\ iterError' = "none" => Asked(mid, less)
      /\ peerset' \in Seq(PeerEntry)
      /\ TriggerBatchDownloader(status, mid, startEpoch', target, peerset', less)
  BY <1>2, <1>4, <1>5 DEF SyncIInv, AwakeInv
<1> QED BY <1>2, <1>4, <1>5, <1>6, AwakeStep

\* A failure does not wake it, but the batch is requested again, or the chain ends.
LEMMA DownloadFailsAwake ==
  ASSUME SyncIInv, AwakeInv, NEW r \in requests, DownloadFails(r)
  PROVE  AwakeInv'
<1> DEFINE i == CHOOSE j \in BatchOf(r) : TRUE
           failed == WithFailedDownload(batches[i])
           exhausted == Len(failed.failedDownloadAttempts) > MAX_BATCH_DOWNLOAD_ATTEMPTS
           b == IF exhausted THEN failed ELSE Again(failed)
           mid == [batches EXCEPT ![i] = b]
           less == requests \ {r}
<1>1. /\ BatchOf(r) # {} /\ i \in DOMAIN batches /\ batches[i] \in Batch
      /\ batches[i].status = "Downloading" /\ r = RequestOf(batches[i])
  BY BatchOfRequest
<1>2. /\ IF exhausted THEN End("MaxDownloadAttempts", inRangeSync) ELSE UNCHANGED loopVars
      /\ TriggerBatchDownloader(status, mid, startEpoch, target, peerset, less)
      /\ UNCHANGED <<startEpoch, target, peerset>>
  BY <1>1 DEF DownloadFails
<1> HIDE DEF i
<1>3. failed \in Batch /\ failed.startEpoch = batches[i].startEpoch
  BY <1>1, FailedDownloadBatch
<1> HIDE DEF failed
<1>4. b \in Batch /\ b.startEpoch = batches[i].startEpoch
      /\ (~exhausted => b.status = "AwaitingDownload")
  BY <1>3, AgainBatch DEF SameAttempts
<1> HIDE DEF b, exhausted
<1>5. /\ Fits(mid, startEpoch) /\ Wanted(mid)
      /\ b.status # "Downloading" /\ iterError = "none" => Asked(mid, less)
  BY <1>1, <1>4, AnsweredIsWanted
<1>6. /\ DOMAIN mid = DOMAIN batches /\ mid[i] = b
      /\ \A j \in DOMAIN batches : j # i => mid[j] = batches[j]
  BY <1>1, <1>4, ReplacedFits DEF SyncIInv
<1> HIDE DEF mid, less
<1>7. /\ startEpoch' \in Nat /\ Fits(mid, startEpoch') /\ target \in Targets
      /\ peerset' \in Seq(PeerEntry)
      /\ TriggerBatchDownloader(status, mid, startEpoch', target, peerset', less)
  BY <1>2, <1>5 DEF SyncIInv, AwakeInv
<1>8. CASE exhausted
  <2>1. loop' # "waiting" /\ iterError' # "none" /\ (status' = "Syncing" => status = "Syncing")
    BY <1>2, <1>8 DEF End, Leave
  <2> QED BY <1>2, <1>5, <1>7, <2>1, AwakeStep
<1>9. CASE ~exhausted
  <2>1. loop' = loop /\ iterError' = iterError /\ status' = status
    BY <1>2, <1>9 DEF loopVars
  <2>2. iterError' = "none" => Asked(mid, less)
    BY <1>4, <1>5, <1>9, <2>1
  <2>3. IsIdle(batches, startEpoch) => IsIdle(mid, startEpoch)
    <3>1. SameAnswers(mid, batches)
      <4> SUFFICES ASSUME NEW st \in {"AwaitingProcessing", "AwaitingValidation"}, NEW j \in Nat
                   PROVE  (j \in DOMAIN mid /\ mid[j].status = st)
                            <=> (j \in DOMAIN batches /\ batches[j].status = st)
        BY DEF SameAnswers
      <4> QED BY <1>1, <1>4, <1>6, <1>9
    <3>2. Fits(batches, startEpoch)
      BY DEF SyncIInv
    <3> QED BY <1>5, <3>1, <3>2, SameAnswersIdle
  <2>4. loop' = "waiting" => iterError' = "none"
    BY <2>1 DEF AwakeInv
  <2>5. loop' = "waiting" /\ status' = "Syncing" => IsIdle(mid, startEpoch')
    BY <1>2, <2>1, <2>3 DEF AwakeInv
  <2> QED BY <1>2, <1>5, <1>7, <2>1, <2>2, <2>4, <2>5, AwakeStep
<1> QED BY <1>8, <1>9

\* Batches that keep the requests are wanted, and asked for, as they were.
LEMMA KeptIsWanted ==
  ASSUME NEW bs, NEW new, KeepsRequests(new, bs)
  PROVE  /\ Wanted(bs) => Wanted(new)
         /\ \A rs : Asked(bs, rs) => Asked(new, rs)
<1>1. ASSUME Wanted(bs), NEW j \in DOMAIN new
      PROVE  \E t \in Targets : StartSlot(new[j].startEpoch) < t
  <2>1. PICK k \in DOMAIN bs : new[j].startEpoch = bs[k].startEpoch
    BY DEF KeepsRequests
  <2> QED BY <1>1, <2>1 DEF Wanted
<1>2. ASSUME NEW rs, Asked(bs, rs), NEW j \in DOMAIN new, new[j].status = "Downloading"
      PROVE  RequestOf(new[j]) \in rs
  <2>1. PICK k \in DOMAIN bs : new[j] = bs[k]
    BY <1>2 DEF KeepsRequests
  <2> QED BY <1>2, <2>1 DEF Asked
<1> QED BY <1>1, <1>2 DEF Wanted, Asked

\* An iteration waits only if it found nothing to do.
LEMMA IterateAwake ==
  ASSUME SyncIInv, AwakeInv, Iterate
  PROVE  AwakeInv'
<1>1. /\ loop = "woken" /\ target' = target /\ startEpoch' = startEpoch /\ peerset' = peerset
      /\ requests' = requests /\ target \in Targets
  BY DEF Iterate, AwakeInv
<1>2. ASSUME NextIteration(triggered), batches' = batches,
             status = "Syncing" => IsIdle(batches, startEpoch)
      PROVE  AwakeInv'
  <2>1. CASE iterError # "none"
    <3>1. loop' = "ended" /\ iterError' # "none"
      BY <1>2, <2>1 DEF NextIteration, Throw, Leave
    <3>2. Wanted(batches')
      BY <1>2 DEF AwakeInv
    <3> QED BY <1>1, <3>1, <3>2, AwakeAway
  <2>2. CASE iterError = "none"
    <3>1. iterError' = iterError /\ status' = status
      BY <1>2, <2>2 DEF NextIteration
    <3> QED BY <1>1, <1>2, <2>2, <3>1, AwakeStays
  <2> QED BY <2>1, <2>2
<1>3. CASE status # "Syncing"
  BY <1>2, <1>3 DEF Iterate
<1>4. CASE status = "Syncing"
  <2>1. ValidStatuses(batches)
    BY <1>4 DEF SyncIInv, Runs
  <2>2. CASE Finish
    <3>1. loop' = "ended" /\ batches' = batches /\ iterError' = iterError
      BY <2>2 DEF Finish
    <3>2. Wanted(batches') /\ (iterError' = "none" => Asked(batches', requests'))
      BY <1>1, <3>1 DEF AwakeInv
    <3> QED BY <1>1, <3>1, <3>2, AwakeAway
  <2>3. ASSUME NEW i \in NextBatchToProcess(batches), StartProcessing(i) PROVE AwakeInv'
    <3> DEFINE b == [batches[i] EXCEPT !.status = "Processing"]
               mid == [batches EXCEPT ![i] = b]
    <3>1. /\ i \in DOMAIN batches /\ batches[i].status = "AwaitingProcessing"
          /\ batches[i] \in Batch
      BY DEF NextBatchToProcess, SyncIInv, Fits
    <3>2. batches' = mid /\ loop' = "processing" /\ iterError' = iterError
      BY <2>3 DEF StartProcessing
    <3>3. b \in Batch /\ SameAttempts(b, batches[i]) /\ b.status = "Processing"
      BY <3>1, ProcessedBatch
    <3> HIDE DEF b
    <3>4. /\ DOMAIN mid = DOMAIN batches /\ mid[i] = b
          /\ \A j \in DOMAIN batches : j # i => mid[j] = batches[j]
      BY <3>1, <3>3, ReplacedFits DEF SyncIInv, SameAttempts
    <3> HIDE DEF mid
    <3>5. KeepsRequests(mid, batches)
      BY <3>1, <3>3, <3>4 DEF KeepsRequests, SameAttempts
    <3>6. Wanted(mid) /\ (iterError = "none" => Asked(mid, requests))
      BY <3>5, KeptIsWanted DEF AwakeInv
    <3> QED BY <1>1, <3>2, <3>6, AwakeAway
  <2>4. ASSUME ~IsDone(batches, startEpoch, target), NextBatchToProcess(batches) = {},
               NextIteration(triggered), batches' = batches
        PROVE  AwakeInv'
    <3>1. IsIdle(batches, startEpoch)
      BY <1>1, <2>4 DEF IsIdle
    <3> QED BY <1>2, <2>4, <3>1
  <2> QED BY <1>4, <2>1, <2>2, <2>3, <2>4 DEF Iterate
<1> QED BY <1>3, <1>4

\* A batch that was processed leads to another iteration.
LEMMA ProcessedAwake ==
  ASSUME SyncIInv, AwakeInv, Processed
  PROVE  AwakeInv'
<1> DEFINE i == BatchInProcess
           b == ProcessingSuccess(batches[i])
           done == [batches EXCEPT ![i] = ProcessingSuccess(@)]
           epoch == IF Validates(batches[i].blocks) THEN batches[i].startEpoch ELSE startEpoch
           next == Advanced(done, epoch)
<1>1. /\ loop = "processing" /\ target' = target /\ peerset' = peerset
      /\ startEpoch' = next.start
      /\ next.ok => /\ NextIteration(TRUE)
                    /\ TriggerBatchDownloader(status, next.batches, next.start,
                                              target, peerset, requests)
  BY DEF Processed
<1>2. /\ i \in DOMAIN batches /\ batches[i].status = "Processing" /\ batches[i] \in Batch
      /\ \A j \in DOMAIN batches : j < i => batches[j].status = "AwaitingValidation"
  BY <1>1, BatchInProcessIs
<1> HIDE DEF i
<1>3. b \in Batch /\ SameAttempts(b, batches[i]) /\ b.status = "AwaitingValidation"
  BY <1>2, ProcessedBatch
<1>4. done = [batches EXCEPT ![i] = b]
  BY <1>2
<1> HIDE DEF b, done
<1>5. /\ Fits(done, startEpoch) /\ DOMAIN done = DOMAIN batches /\ done[i] = b
      /\ \A j \in DOMAIN batches : j # i => done[j] = batches[j]
  BY <1>2, <1>3, <1>4, ReplacedFits DEF SyncIInv, SameAttempts
<1>6. KeepsRequests(done, batches)
  BY <1>2, <1>3, <1>5 DEF KeepsRequests, SameAttempts
<1>7. next.ok /\ next.start \in Nat /\ Fits(next.batches, next.start)
  <2>1. startEpoch \in Nat
    BY DEF SyncIInv
  <2>2. \A j \in DOMAIN done : j < i => done[j].status = "AwaitingValidation"
    <3> SUFFICES ASSUME NEW j \in DOMAIN done, j < i
                 PROVE  done[j].status = "AwaitingValidation"
      OBVIOUS
    <3>1. j # i \/ j = i
      OBVIOUS
    <3> QED BY <1>2, <1>3, <1>5, <3>1
  <2>3. i \in DOMAIN done /\ done[i].startEpoch = batches[i].startEpoch
    BY <1>2, <1>3, <1>5 DEF SameAttempts
  <2>4. epoch \in {startEpoch, done[i].startEpoch}
    BY <2>3
  <2> HIDE DEF epoch
  <2> QED BY <1>5, <2>1, <2>2, <2>3, <2>4, AdvancedFits
<1>8. KeepsRequests(next.batches, done)
  <2>1. done \in Seq(Batch)
    BY <1>5 DEF Fits
  <2> HIDE DEF epoch
  <2>2. \A k \in DOMAIN next.batches : \E j \in DOMAIN done : next.batches[k] = done[j]
    BY <2>1, RestOfBatches
  <2> HIDE DEF next
  <2> QED BY <2>2 DEF KeepsRequests
<1> HIDE DEF epoch, next
<1> DEFINE bs == next.batches
<1> HIDE DEF bs
<1>9. /\ startEpoch' \in Nat /\ Fits(bs, startEpoch') /\ KeepsRequests(bs, done)
      /\ NextIteration(TRUE)
      /\ TriggerBatchDownloader(status, bs, startEpoch', target, peerset', requests)
  BY <1>1, <1>7, <1>8 DEF bs
<1>10. Wanted(bs) /\ (iterError = "none" => Asked(bs, requests))
  <2>1. KeepsRequests(bs, batches)
    BY <1>6, <1>9, RequestsStayKept
  <2> QED BY <2>1, KeptIsWanted DEF AwakeInv
<1>11. /\ loop' # "waiting" /\ (iterError' = "none" => iterError = "none")
       /\ status' = "Syncing" => status = "Syncing"
  BY <1>9 DEF NextIteration, Throw, Leave
<1>12. target \in Targets /\ peerset' \in Seq(PeerEntry)
  BY <1>1 DEF AwakeInv, SyncIInv
<1> QED BY <1>1, <1>9, <1>10, <1>11, <1>12, AwakeStep

\* With a batch to request at the front there is nothing to process, and the
\* target is ahead.
LEMMA FirstIsAwaited ==
  ASSUME NEW start \in Nat, NEW bs, Fits(bs, start), Wanted(bs),
         1 \in DOMAIN bs, bs[1].status = "AwaitingDownload",
         \A j \in DOMAIN bs : Stage(bs[j]) = 3
  PROVE  IsIdle(bs, start)
<1>1. NextBatchToProcess(bs) = {}
  <2> SUFFICES ASSUME NEW i \in DOMAIN bs, bs[i].status = "AwaitingProcessing",
                      \A j \in 1..(i - 1) : bs[j].status = "AwaitingValidation"
               PROVE  FALSE
    BY DEF NextBatchToProcess
  <2>1. i \in Nat /\ i # 0 /\ i # 1
    BY DEF Fits
  <2>2. 1 \in 1..(i - 1)
    BY <2>1
  <2> QED BY <2>2
<1>2. ToBeProcessedStartEpoch(bs, start) = start
  <2>1. \A j \in DOMAIN bs : bs[j].status # "AwaitingValidation"
    BY StageIs
  <2> QED BY <2>1, ProcessedUpTo
<1>3. bs[1].startEpoch = start
  <2>1. bs[1].startEpoch = start + (1 - 1) * EPOCHS_PER_BATCH
    BY DEF Fits, Window
  <2>2. (1 - 1) * EPOCHS_PER_BATCH = 0
    BY SyncChainAssumption
  <2> QED BY <2>1, <2>2
<1>4. \E t \in Targets : ~(StartSlot(start) >= t)
  <2>1. PICK t \in Targets : StartSlot(start) < t
    BY <1>3 DEF Wanted
  <2>2. StartSlot(start) \in Nat /\ t \in Nat
    BY StartSlotGrows, SyncChainAssumption
  <2> QED BY <2>1, <2>2
<1> QED BY <1>1, <1>2, <1>4 DEF IsIdle, IsDone

\* A segment that fails leaves batches to request, or ends the loop.
LEMMA ProcessingFailsAwake ==
  ASSUME SyncIInv, AwakeInv, ProcessingFails
  PROVE  AwakeInv'
<1>1. /\ loop = "processing" /\ target' = target /\ peerset' = peerset
      /\ target \in Targets /\ target \in Nat
  BY DEF ProcessingFails, AwakeInv, SyncIInv
<1> DEFINE i == BatchInProcess
<1>2. PICK r \in SegmentResults(batches[i].blocks) :
        LET failed == WithFailedAttempt(batches[i], r.error)
        IN  ProcessingExhausted(r.error, failed) \/ ProcessingRetried(r, failed)
  BY DEF ProcessingFails
<1> DEFINE failed == WithFailedAttempt(batches[i], r.error)
<1>3. MaxAttempts(r.error) # "none"
  BY DEF MaxAttempts
<1>4. CASE ProcessingExhausted(r.error, failed)
  <2>1. /\ batches' = [batches EXCEPT ![i] = failed]
        /\ Throw(MaxAttempts(r.error))
    BY <1>4 DEF ProcessingExhausted
  <2>2. loop' = "ended" /\ iterError' # "none"
    BY <1>3, <2>1 DEF Throw, Leave
  <2>3. i \in DOMAIN batches /\ batches[i] \in Batch /\ batches[i].peer # NoPeer
    BY <1>1, BatchInProcessIs
  <2> DEFINE e == r.error
  <2> HIDE DEF i, e
  <2>4. failed = WithFailedAttempt(batches[i], e)
    BY DEF e
  <2> HIDE DEF failed
  <2>5. failed \in Batch /\ failed.startEpoch = batches[i].startEpoch
    BY <2>3, <2>4, FailedAttemptBatch
  <2>6. /\ DOMAIN batches' = DOMAIN batches
        /\ \A j \in DOMAIN batches : batches'[j].startEpoch = batches[j].startEpoch
    <3> DEFINE new == [batches EXCEPT ![i] = failed]
    <3>1. /\ DOMAIN new = DOMAIN batches /\ new[i] = failed
          /\ \A j \in DOMAIN batches : j # i => new[j] = batches[j]
      BY <2>3, <2>5, ReplacedFits DEF SyncIInv
    <3>2. batches' = new
      BY <2>1
    <3> HIDE DEF new
    <3> QED BY <2>5, <3>1, <3>2
  <2>7. Wanted(batches')
    BY <2>6 DEF AwakeInv, Wanted
  <2> QED BY <1>1, <2>2, <2>7, AwakeAway
<1>5. CASE ProcessingRetried(r, failed)
  <2>1. PICK bs :
          /\ startEpoch' \in Nat /\ Fits(bs, startEpoch') /\ KeepsRequests(bs, batches)
          /\ \/ /\ NextIteration(triggered)
                /\ TriggerBatchDownloader(status, bs, startEpoch', target, peerset, requests)
                /\ \A j \in DOMAIN bs : Stage(bs[j]) = 3
                /\ 1 \in DOMAIN bs /\ bs[1].status = "AwaitingDownload"
             \/ Throw(MaxAttempts(r.error)) /\ batches' = bs
    BY <1>1, <1>5, RetriedLeaves
  <2>2. Wanted(bs) /\ (iterError = "none" => Asked(bs, requests))
    BY <2>1, KeptIsWanted DEF AwakeInv
  <2>3. CASE /\ NextIteration(triggered)
             /\ TriggerBatchDownloader(status, bs, startEpoch', target, peerset, requests)
             /\ \A j \in DOMAIN bs : Stage(bs[j]) = 3
             /\ 1 \in DOMAIN bs /\ bs[1].status = "AwaitingDownload"
    <3>1. IsIdle(bs, startEpoch')
      BY <1>1, <2>1, <2>2, <2>3, FirstIsAwaited
    <3>2. /\ loop' = "waiting" => iterError' = "none"
          /\ iterError' = "none" => iterError = "none"
          /\ status' = "Syncing" => status = "Syncing"
      BY <2>3 DEF NextIteration, Throw, Leave
    <3>3. /\ peerset' \in Seq(PeerEntry)
          /\ TriggerBatchDownloader(status, bs, startEpoch', target, peerset', requests)
      BY <1>1, <2>3 DEF SyncIInv
    <3> QED BY <1>1, <2>1, <2>2, <3>1, <3>2, <3>3, AwakeStep
  <2>4. CASE Throw(MaxAttempts(r.error)) /\ batches' = bs
    <3>1. loop' = "ended" /\ iterError' # "none"
      BY <1>3, <2>4 DEF Throw, Leave
    <3> QED BY <1>1, <2>2, <2>4, <3>1, AwakeAway
  <2> QED BY <2>1, <2>3, <2>4
<1> QED BY <1>2, <1>4, <1>5

\* No step of a chain forgets a batch to request or to process.
LEMMA NextAwake ==
  ASSUME SyncIInv, AwakeInv, [Next]_vars
  PROVE  AwakeInv'
<1>1. CASE UNCHANGED vars
  <2>1. /\ target' = target /\ startEpoch' = startEpoch /\ batches' = batches
        /\ requests' = requests /\ iterError' = iterError /\ loop' = loop
        /\ status' = status /\ peerset' = peerset
    BY <1>1 DEF vars
  <2>2. /\ target \in Targets
        /\ loop = "waiting" => iterError = "none"
        /\ loop = "waiting" /\ status = "Syncing" => IsIdle(batches, startEpoch)
    BY DEF AwakeInv
  <2> QED BY <2>1, <2>2, AwakeStays
<1>2. ASSUME NEW p \in Peer, NEW t \in Targets, AddPeer(p, t) PROVE AwakeInv'
  BY <1>2, AddPeerAwake
<1>3. ASSUME NEW p \in Peer, RemovePeer(p) PROVE AwakeInv'
  BY <1>3, RemovePeerAwake
<1>4. CASE Update
  BY <1>4, UpdateAwake
<1>5. ASSUME NEW r \in requests, NEW blocks \in Answers(r.peer, r.startEpoch),
             DownloadSucceeds(r, blocks)
      PROVE  AwakeInv'
  BY <1>5, DownloadSucceedsAwake
<1>6. ASSUME NEW r \in requests, DownloadFails(r) PROVE AwakeInv'
  BY <1>6, DownloadFailsAwake
<1>7. CASE Iterate
  BY <1>7, IterateAwake
<1>8. CASE Processed
  BY <1>8, ProcessedAwake
<1>9. CASE ProcessingFails
  BY <1>9, ProcessingFailsAwake
<1> QED BY <1>1, <1>2, <1>3, <1>4, <1>5, <1>6, <1>7, <1>8, <1>9 DEF Next

\* No wakeup is lost and no batch is forgotten: as long as the chain syncs and has a
\* peer, a download is awaited, a batch is in process or the loop is about to run
\* (SyncChain.sync, ItTrigger and triggerBatchDownloader, whose calls the code puts
\* at the end of each handler), but for a chain that has all up to one of the
\* targets and not all up to another: no handler wakes the loop when
\* computeTarget changes the target.
THEOREM ChainStaysAwake == Spec => []NeverStuck
<1>1. Init => AwakeInv
  BY InitAwake
<1>2. SyncIInv /\ AwakeInv /\ [Next]_vars => AwakeInv'
  BY NextAwake
<1>3. SyncIInv /\ AwakeInv => NeverStuck
  BY AwakeIsNeverStuck
<1> QED BY <1>1, <1>2, <1>3, SyncInvariance, PTL DEF Spec

=============================================================================
