------------------------------ MODULE BlsPool -------------------------------
(***************************************************************************)
(* BlsMultiThreadWorkerPool: requests to verify signature sets are split   *)
(* into jobs, the batchable ones are buffered for a moment, and idle       *)
(* workers get packages of jobs.  The jobs of a package that are batchable *)
(* are verified at once and one by one when that fails, so a request is in *)
(* company that decides how it is verified but must not decide its answer. *)
(*                                                                         *)
(* A signature set is good, wrong (it does not verify) or malformed (its   *)
(* signature cannot be deserialized, which throws).                        *)
(***************************************************************************)
EXTENDS Integers, SequencesExt, Selection

CONSTANTS
  Request, setsOf,  \* [Request -> Seq(SignatureSet)]
  optsOf,           \* the VerifySignatureOpts that a request may come with
  Workers,          \* how many
  MAX_SIGNATURE_SETS_PER_JOB, MAX_BUFFERED_SIGS, BATCHABLE_MIN_PER_CHUNK,
  MaxWorkerErrors   \* bound: packages whose worker fails

SignatureSet == {"good", "wrong", "malformed"}

Opts == {"batchable", "plain", "verifyOnMainThread"}

ASSUME BlsAssumption ==
  /\ setsOf \in [Request -> Seq(SignatureSet)]
  /\ optsOf \in [Request -> SUBSET Opts]
  /\ Workers \in Nat /\ MaxWorkerErrors \in Nat
  /\ MAX_SIGNATURE_SETS_PER_JOB \in Nat \ {0}
  /\ MAX_BUFFERED_SIGS \in Nat /\ BATCHABLE_MIN_PER_CHUNK \in Nat \ {0}

VARIABLES
  blsJobs,         \* jobs
  bufferedJobs,    \* empty for null
  workerStatus,    \* [1..Workers -> WorkerStatusCode]
  package,         \* the jobs that a running worker got
  runJobTimers,    \* calls setTimeout(this.runJob, 0) that are due
  answers,         \* what verifySignatureSets returned or waits for
  blsAborted, workerErrors

blsVars == <<blsJobs, bufferedJobs, workerStatus, package, runJobTimers,
             answers, blsAborted, workerErrors>>

\* A job answers for one part of its request.
Job == [request : Request, part : Nat, batchable : BOOLEAN, sets : Seq(SignatureSet)]

-----------------------------------------------------------------------------
(* utils.ts, maybeBatch.ts, worker.ts *)

ChunkifyMaximizeChunkSize(arr, minPerChunk) ==
  LET chunkCount == Len(arr) \div minPerChunk
      perChunk == (Len(arr) + chunkCount - 1) \div chunkCount
  IN  IF chunkCount <= 1 THEN <<arr>>
      ELSE [i \in 1..((Len(arr) + perChunk - 1) \div perChunk) |->
              SubSeq(arr, (i - 1) * perChunk + 1,
                     IF i * perChunk < Len(arr) THEN i * perChunk ELSE Len(arr))]

\* The sets of each job of a request.
PartsOf(r) == ChunkifyMaximizeChunkSize(setsOf[r], MAX_SIGNATURE_SETS_PER_JOB)

\* verifySignatureSetsMaybeBatch of sets of some kinds; it throws for "error".
Verify(kinds) ==
  IF kinds = {} \/ "malformed" \in kinds THEN "error"
  ELSE IF "wrong" \in kinds THEN "invalid"
  ELSE "valid"

\* verifyManySignatureSets: the jobs of the package that a batch answers.
ValidBatches(jobs) ==
  LET chunks == ChunkifyMaximizeChunkSize(
                  Selection(jobs, {i \in DOMAIN jobs : jobs[i].batchable}),
                  BATCHABLE_MIN_PER_CHUNK)
  IN  {c \in ToSet(chunks) : Verify(UNION {ToSet(job.sets) : job \in ToSet(c)}) = "valid"}

\* Variation: a batch that fails answers for all of its jobs.
JobResultOfBatch(jobs, job) ==
  IF job.batchable
  THEN IF \E c \in ValidBatches(jobs) : job \in ToSet(c) THEN "valid" ELSE "invalid"
  ELSE Verify(ToSet(job.sets))

JobResult(jobs, job) ==
  IF job.batchable /\ \E c \in ValidBatches(jobs) : job \in ToSet(c) THEN "valid"
  ELSE Verify(ToSet(job.sets))

-----------------------------------------------------------------------------
(* The promise of a request: Promise.all of the promises of its jobs *)

Waiting(parts) == [left |-> parts, result |-> "valid"]

Settled(result) == [left |-> {}, result |-> result]

NotAsked == Settled("none")

\* After the jobs ended with the results, in whatever order: one error settles
\* the answer, and otherwise the last part does.
AfterJobs(jobs, results) ==
  [r \in Request |->
     LET ended == {i \in DOMAIN jobs : /\ jobs[i].request = r
                                      /\ jobs[i].part \in answers[r].left}
     IN  IF \E i \in ended : results[i] = "error" THEN Settled("error")
         ELSE [left |-> answers[r].left \ {jobs[i].part : i \in ended},
               result |-> IF \E i \in ended : results[i] = "invalid" THEN "invalid"
                          ELSE answers[r].result]]

\* Every job of the list ends with an error.
AllErrors(jobs) == [i \in DOMAIN jobs |-> "error"]

-----------------------------------------------------------------------------
(* What happens *)

BlsInit ==
  /\ blsJobs = <<>>
  /\ bufferedJobs = <<>>
  /\ workerStatus = [w \in 1..Workers |-> "initializing"]
  /\ package = [w \in 1..Workers |-> <<>>]
  /\ runJobTimers = 0
  /\ answers = [r \in Request |-> NotAsked]
  /\ blsAborted = FALSE
  /\ workerErrors = 0

SigCount(jobs) == FoldLeft(LAMBDA acc, job : acc + Len(job.sets), 0, jobs)

\* queueBlsWork for one job, on the queues.
QueueJob(queues, job) ==
  IF ~job.batchable
  THEN [jobs |-> Append(queues.jobs, job), buffered |-> queues.buffered,
        timers |-> queues.timers + 1]
  ELSE LET buffered == Append(queues.buffered, job)
       IN  IF SigCount(buffered) > MAX_BUFFERED_SIGS
           THEN [jobs |-> queues.jobs \o buffered, buffered |-> <<>>,
                 timers |-> queues.timers + 1]
           ELSE [jobs |-> queues.jobs, buffered |-> buffered, timers |-> queues.timers]

AllWorkersFailed ==
  Workers > 0 /\ \A w \in 1..Workers : workerStatus[w] = "initializationError"

\* queueBlsWork for all the jobs of a request.
QueueJobs(new) ==
  LET queued[n \in 0..Len(new)] ==
        IF n = 0
        THEN [jobs |-> blsJobs, buffered |-> bufferedJobs, timers |-> runJobTimers]
        ELSE QueueJob(queued[n - 1], new[n])
  IN  queued[Len(new)]

JobsOf(r, batchable) ==
  [i \in DOMAIN PartsOf(r) |->
     [request |-> r, part |-> i, batchable |-> batchable, sets |-> PartsOf(r)[i]]]

VerifySignatureSets(r, batchable) ==
  LET queues == QueueJobs(JobsOf(r, batchable))
  IN  /\ answers[r] = NotAsked
      /\ IF blsAborted \/ AllWorkersFailed
         THEN /\ answers' = [answers EXCEPT ![r] = Settled("error")]
              /\ UNCHANGED <<blsJobs, bufferedJobs, runJobTimers>>
         ELSE /\ answers' = [answers EXCEPT ![r] = Waiting(DOMAIN PartsOf(r))]
              /\ blsJobs' = queues.jobs
              /\ bufferedJobs' = queues.buffered
              /\ runJobTimers' = queues.timers
      /\ UNCHANGED <<workerStatus, package, blsAborted, workerErrors>>

VerifyOnMainThread(r) ==
  /\ answers[r] = NotAsked
  /\ answers' = [answers EXCEPT ![r] = Settled(Verify(ToSet(setsOf[r])))]
  /\ UNCHANGED <<blsJobs, bufferedJobs, workerStatus, package, runJobTimers,
                 blsAborted, workerErrors>>

\* runBufferedJobs; the timeout is cleared on abort.
RunBufferedJobs ==
  /\ bufferedJobs # <<>> /\ ~blsAborted
  /\ blsJobs' = blsJobs \o bufferedJobs
  /\ bufferedJobs' = <<>>
  /\ runJobTimers' = runJobTimers + 1
  /\ UNCHANGED <<workerStatus, package, answers, blsAborted, workerErrors>>

WorkerStarts(w) ==
  /\ workerStatus[w] = "initializing"
  /\ workerStatus' = [workerStatus EXCEPT ![w] = "idle"]
  /\ runJobTimers' = runJobTimers + 1
  /\ UNCHANGED <<blsJobs, bufferedJobs, package, answers, blsAborted, workerErrors>>

WorkerInitFails(w) ==
  /\ workerStatus[w] = "initializing"
  /\ workerStatus' = [workerStatus EXCEPT ![w] = "initializationError"]
  /\ UNCHANGED <<blsJobs, bufferedJobs, package, runJobTimers, answers,
                 blsAborted, workerErrors>>

\* prepareWork: how many jobs of the queue go into a package.
PackageSize ==
  LET full == {n \in 1..Len(blsJobs) :
                 SigCount(SubSeq(blsJobs, 1, n)) >= MAX_SIGNATURE_SETS_PER_JOB}
  IN  IF full = {} THEN Len(blsJobs) ELSE Min(full)

IsFirstIdle(w) ==
  workerStatus[w] = "idle" /\ \A v \in 1..(w - 1) : workerStatus[v] # "idle"

RunJob ==
  /\ runJobTimers > 0
  /\ runJobTimers' = runJobTimers - 1
  /\ \/ \E w \in 1..Workers :
          /\ ~blsAborted /\ IsFirstIdle(w) /\ blsJobs # <<>>
          /\ workerStatus' = [workerStatus EXCEPT ![w] = "running"]
          /\ package' = [package EXCEPT ![w] = SubSeq(blsJobs, 1, PackageSize)]
          /\ blsJobs' = SubSeq(blsJobs, PackageSize + 1, Len(blsJobs))
     \/ /\ \/ blsAborted
           \/ blsJobs = <<>>
           \/ \A w \in 1..Workers : workerStatus[w] # "idle"
        /\ UNCHANGED <<workerStatus, package, blsJobs>>
  /\ UNCHANGED <<bufferedJobs, answers, blsAborted, workerErrors>>

\* Variation: the worker is idle again and nothing runs the next job.
BackToIdleAsleep(w) ==
  /\ workerStatus' = [workerStatus EXCEPT ![w] = "idle"]
  /\ package' = [package EXCEPT ![w] = <<>>]
  /\ UNCHANGED runJobTimers

BackToIdle(w) ==
  /\ workerStatus' = [workerStatus EXCEPT ![w] = "idle"]
  /\ package' = [package EXCEPT ![w] = <<>>]
  /\ runJobTimers' = runJobTimers + 1

\* runJob, after the worker answered.
PackageDone(w) ==
  /\ workerStatus[w] = "running"
  /\ answers' = AfterJobs(package[w],
                           [i \in DOMAIN package[w] |->
                              JobResult(package[w], package[w][i])])
  /\ BackToIdle(w)
  /\ UNCHANGED <<blsJobs, bufferedJobs, blsAborted, workerErrors>>

\* runJob, "Worker communications should never reject".
PackageFails(w) ==
  /\ workerErrors < MaxWorkerErrors
  /\ workerStatus[w] = "running"
  /\ answers' = AfterJobs(package[w], AllErrors(package[w]))
  /\ BackToIdle(w)
  /\ workerErrors' = workerErrors + 1
  /\ UNCHANGED <<blsJobs, bufferedJobs, blsAborted>>

\* The jobs of the queue are rejected, the buffered ones are forgotten.
BlsAbort ==
  /\ ~blsAborted
  /\ blsAborted' = TRUE
  /\ answers' = AfterJobs(blsJobs, AllErrors(blsJobs))
  /\ blsJobs' = <<>>
  /\ UNCHANGED <<bufferedJobs, workerStatus, package, runJobTimers, workerErrors>>

PackageEnds(w) == PackageDone(w) \/ PackageFails(w)

WorkerInit(w) == WorkerStarts(w) \/ WorkerInitFails(w)

BlsNext ==
  \/ \E r \in Request :
       \/ "batchable" \in optsOf[r] /\ VerifySignatureSets(r, TRUE)
       \/ "plain" \in optsOf[r] /\ VerifySignatureSets(r, FALSE)
       \/ "verifyOnMainThread" \in optsOf[r] /\ VerifyOnMainThread(r)
  \/ RunBufferedJobs
  \/ RunJob
  \/ \E w \in 1..Workers : WorkerInit(w) \/ PackageEnds(w)
  \/ BlsAbort

-----------------------------------------------------------------------------
(* Properties *)

IsSettled(r) == answers[r] # NotAsked /\ answers[r].left = {}

\* An answer is the request's own, whatever other requests share its batch,
\* its package or its worker: valid only if every set is good, invalid only
\* if some set is wrong, an error only with a malformed set or none at all
\* unless a worker failed or the pool was aborted.
AnswersAreRight ==
  \A r \in Request : IsSettled(r) =>
    CASE answers[r].result = "valid" -> ToSet(setsOf[r]) \subseteq {"good"}
      [] answers[r].result = "invalid" -> "wrong" \in ToSet(setsOf[r])
      [] OTHER -> \/ "malformed" \in ToSet(setsOf[r]) \/ setsOf[r] = <<>>
                  \/ blsAborted \/ workerErrors > 0 \/ AllWorkersFailed

\* Every request is answered, however jobs are buffered, packed and spread
\* over workers, unless the pool is aborted or no worker ever starts.
AnswersArrive ==
  \A r \in Request :
    answers[r].left # {} ~> answers[r].left = {} \/ blsAborted \/ AllWorkersFailed

=============================================================================
