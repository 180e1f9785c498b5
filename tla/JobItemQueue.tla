---------------------------- MODULE JobItemQueue ----------------------------
(***************************************************************************)
(* JobItemQueue: jobs wait in a list until one of maxConcurrency slots is  *)
(* free.  Nobody polls: a job starts because a timer of push() or the end  *)
(* of another job calls runJob, and a call that is missed leaves jobs      *)
(* waiting for ever.                                                       *)
(***************************************************************************)
EXTENDS Integers, FiniteSets, SequencesExt

CONSTANTS
  Item,        \* what may be pushed, each at most once
  maxLength, maxConcurrency

ASSUME QueueAssumption == maxLength \in Nat /\ maxConcurrency \in Nat

VARIABLES
  queueType,       \* "FIFO" or "LIFO"
  jobs,            \* the list
  running,         \* the jobs that itemProcessor works on
  yielding,        \* slots whose job is settled and that await sleep(0)
  timers,          \* calls setTimeout(this.runJob, 0) that are due
  promises,        \* [Item -> what became of the promise]
  queueAborted

queueVars == <<queueType, jobs, running, yielding, timers, promises, queueAborted>>

QueueTypeOK ==
  /\ queueType \in {"FIFO", "LIFO"}
  /\ jobs \in Seq(Item)
  /\ running \in SUBSET Item
  /\ yielding \in Nat /\ timers \in Nat
  /\ promises \in [Item -> {"new", "waiting", "settled", "refused"}]
  /\ queueAborted \in BOOLEAN

-----------------------------------------------------------------------------

RunningJobs == Cardinality(running) + yielding

QueueInit ==
  /\ queueType \in {"FIFO", "LIFO"}
  /\ jobs = <<>>
  /\ running = {}
  /\ yielding = 0
  /\ timers = 0
  /\ promises = [job \in Item |-> "new"]
  /\ queueAborted = FALSE

\* Variation: a timer for a push into an empty list only.
StartsTimerWhenEmpty == jobs = <<>> /\ RunningJobs < maxConcurrency

StartsTimer == RunningJobs < maxConcurrency

IsFull == Len(jobs) + 1 > maxLength

\* What is left of the list when another job is to be pushed.  The promise of
\* the job that a LIFO queue drops is never settled.
MakeRoom == IF IsFull THEN SubSeq(jobs, 2, Len(jobs)) ELSE jobs

Push(job) ==
  /\ promises[job] = "new"
  /\ IF queueAborted \/ (queueType = "FIFO" /\ IsFull)
     THEN /\ promises' = [promises EXCEPT ![job] = "refused"]
          /\ UNCHANGED <<jobs, timers>>
     ELSE /\ promises' = [promises EXCEPT ![job] = "waiting"]
          /\ jobs' = Append(MakeRoom, job)
          /\ timers' = IF StartsTimer THEN timers + 1 ELSE timers
  /\ UNCHANGED <<queueType, running, yielding, queueAborted>>

\* runJob up to its await, when `others` still run and `slots` are yielding.
Start(others, slots) ==
  IF queueAborted \/ Cardinality(others) + slots >= maxConcurrency \/ jobs = <<>>
  THEN running' = others /\ UNCHANGED jobs
  ELSE IF queueType = "LIFO"
  THEN running' = others \union {Last(jobs)} /\ jobs' = Front(jobs)
  ELSE running' = others \union {Head(jobs)} /\ jobs' = Tail(jobs)

Timer ==
  /\ timers > 0
  /\ timers' = timers - 1
  /\ Start(running, yielding)
  /\ UNCHANGED <<queueType, yielding, promises, queueAborted>>

\* The job is settled and its slot free: the next job starts.
JobEnds(job) ==
  /\ job \in running
  /\ promises' = [promises EXCEPT ![job] = "settled"]
  /\ Start(running \ {job}, yielding)
  /\ UNCHANGED <<queueType, yielding, timers, queueAborted>>

\* The job is settled, its slot is kept until the macro queue was served.
JobEndsAndYields(job) ==
  /\ job \in running
  /\ promises' = [promises EXCEPT ![job] = "settled"]
  /\ running' = running \ {job}
  /\ yielding' = yielding + 1
  /\ UNCHANGED <<queueType, jobs, timers, queueAborted>>

Yielded ==
  /\ yielding > 0
  /\ yielding' = yielding - 1
  /\ Start(running, yielding - 1)
  /\ UNCHANGED <<queueType, timers, promises, queueAborted>>

\* abortAllJobs
Abort ==
  /\ ~queueAborted
  /\ queueAborted' = TRUE
  /\ promises' = [job \in Item |->
                    IF job \in ToSet(jobs) THEN "settled" ELSE promises[job]]
  /\ jobs' = <<>>
  /\ UNCHANGED <<queueType, running, yielding, timers>>

\* Nothing settles the promises of dropped jobs.
DropAllJobs ==
  /\ jobs' = <<>>
  /\ UNCHANGED <<queueType, running, yielding, timers, promises, queueAborted>>

QueueNext ==
  \/ \E job \in Item : Push(job) \/ JobEnds(job) \/ JobEndsAndYields(job)
  \/ Timer
  \/ Yielded
  \/ Abort
  \/ DropAllJobs

-----------------------------------------------------------------------------
(* Properties *)

\* No wake-up is lost: whenever jobs wait and slots are free, enough calls of
\* runJob are due to fill the slots, whatever ends, yields or is pushed in
\* between.
NoLostWakeup ==
  ~queueAborted =>
    \/ timers >= Len(jobs)
    \/ timers >= maxConcurrency - RunningJobs

=============================================================================
