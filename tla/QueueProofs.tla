----------------------------- MODULE QueueProofs -----------------------------
(***************************************************************************)
(* The two queues of jobs.                                                 *)
(*                                                                         *)
(* No wake-up of a JobItemQueue is lost, for every set of items, every     *)
(* maxLength and every maxConcurrency, in queues of both types.            *)
(* NoLostWakeup counts calls of runJob against free slots.  A call that    *)
(* starts a job fills one slot only if the job is not running already, so  *)
(* the inductive invariant also says that an item is in one place: once in *)
(* the list or running, and never pushed again.                            *)
(*                                                                         *)
(* The answers of the BLS pool are right.  A job knows the request and the *)
(* part of it that it answers for, wherever it waits, so a step only moves *)
(* jobs of that kind; a batch that verifies vouches for every job in it;   *)
(* and the parts of a request are all of its signature sets.               *)
(***************************************************************************)
EXTENDS JobItemQueue, BlsPool, RecursionProofs, FiniteSetTheorems, SequenceTheorems,
        TLAPS

-----------------------------------------------------------------------------
(* JobItemQueue *)

QueueSpec == QueueInit /\ [][QueueNext]_queueVars

\* An item is in the list once, or runs, or neither; it was pushed before.
OnePlace ==
  /\ \A i, k \in 1..Len(jobs) : jobs[i] = jobs[k] => i = k
  /\ \A i \in 1..Len(jobs) : jobs[i] \notin running /\ promises[jobs[i]] # "new"
  /\ \A job \in running : promises[job] # "new"

QueueIInv ==
  /\ QueueTypeOK
  /\ IsFiniteSet(running)
  /\ OnePlace
  /\ NoLostWakeup

-----------------------------------------------------------------------------
(* The list *)

\* A list without its first entry.
LEMMA TailFacts ==
  ASSUME NEW S, NEW s \in Seq(S), s # <<>>
  PROVE  /\ Tail(s) \in Seq(S) /\ Len(Tail(s)) = Len(s) - 1
         /\ Head(s) \in S /\ Head(s) = s[1]
         /\ \A i \in 1..(Len(s) - 1) : Tail(s)[i] = s[i + 1]
BY HeadTailProperties

\* A list without its last entry.
LEMMA FrontFacts ==
  ASSUME NEW S, NEW s \in Seq(S), s # <<>>
  PROVE  /\ Front(s) \in Seq(S) /\ Len(Front(s)) = Len(s) - 1
         /\ Last(s) \in S /\ Last(s) = s[Len(s)]
         /\ \A i \in 1..(Len(s) - 1) : Front(s)[i] = s[i]
<1>1. Len(s) \in Nat \ {0}
  BY EmptySeq
<1>2. \A i \in 1..Len(s) : s[i] \in S
  BY ElementOfSeq
<1>3. /\ SubSeq(s, 1, Len(s) - 1) \in Seq(S)
      /\ Len(SubSeq(s, 1, Len(s) - 1)) =
           IF 1 <= Len(s) - 1 THEN (Len(s) - 1) - 1 + 1 ELSE 0
      /\ \A i \in 1..((Len(s) - 1) - 1 + 1) :
           SubSeq(s, 1, Len(s) - 1)[i] = s[1 + i - 1]
  BY <1>1, <1>2, SubSeqProperties
<1>4. \A i \in 1..(Len(s) - 1) : SubSeq(s, 1, Len(s) - 1)[i] = s[i]
  BY <1>1, <1>3
<1>5. Len(SubSeq(s, 1, Len(s) - 1)) = Len(s) - 1
  <2> DEFINE n == Len(s)
             f == Len(SubSeq(s, 1, Len(s) - 1))
  <2>1. n \in Nat \ {0} /\ f = IF 1 <= n - 1 THEN (n - 1) - 1 + 1 ELSE 0
    BY <1>1, <1>3
  <2> HIDE DEF n, f
  <2>2. f = n - 1
    BY <2>1
  <2> QED BY <2>2 DEF n, f
<1>6. Last(s) = s[Len(s)] /\ Len(s) \in 1..Len(s)
  BY <1>1 DEF Last
<1>7. Last(s) \in S
  BY <1>2, <1>6
<1>8. Front(s) = SubSeq(s, 1, Len(s) - 1)
  BY DEF Front
<1> HIDE DEF Front, Last
<1>9. Front(s) \in Seq(S) /\ Len(Front(s)) = Len(s) - 1
  BY <1>3, <1>5, <1>8
<1>10. \A i \in 1..(Len(s) - 1) : Front(s)[i] = s[i]
  BY <1>4, <1>8
<1> QED BY <1>6, <1>7, <1>9, <1>10

\* The list that push() appends to: all of it, or all but the first entry.
LEMMA MakeRoomFacts ==
  ASSUME jobs \in Seq(Item)
  PROVE  /\ MakeRoom \in Seq(Item)
         /\ \/ MakeRoom = jobs
            \/ /\ Len(jobs) > 0 /\ Len(MakeRoom) = Len(jobs) - 1
               /\ \A i \in 1..(Len(jobs) - 1) : MakeRoom[i] = jobs[i + 1]
<1>1. CASE ~IsFull
  BY <1>1 DEF MakeRoom
<1>2. CASE IsFull /\ jobs = <<>>
  <2>1. SubSeq(jobs, 2, Len(jobs)) = <<>>
    BY <1>2, EmptySeq, SubSeqEmpty
  <2> QED BY <1>2, <2>1 DEF MakeRoom
<1>3. CASE IsFull /\ jobs # <<>>
  <2>1. MakeRoom = Tail(jobs)
    BY <1>3, TailIsSubSeq DEF MakeRoom
  <2>2. Len(jobs) > 0
    BY <1>3, EmptySeq
  <2> QED BY <1>3, <2>1, <2>2, TailFacts
<1> QED BY <1>1, <1>2, <1>3

-----------------------------------------------------------------------------
(* Starting a job *)

\* runJob takes one entry of a list whose items are in one place: the others
\* stay in one place, the item is new among those that run, and the list is
\* shorter by one.
LEMMA StartFacts ==
  ASSUME QueueTypeOK, OnePlace,
         NEW others \in SUBSET running, IsFiniteSet(others), NEW slots \in Nat,
         Start(others, slots)
  PROVE  /\ jobs' \in Seq(Item) /\ running' \in SUBSET Item /\ IsFiniteSet(running')
         /\ \A i, k \in 1..Len(jobs') : jobs'[i] = jobs'[k] => i = k
         /\ \A i \in 1..Len(jobs') : jobs'[i] \notin running' /\ promises[jobs'[i]] # "new"
         /\ \A job \in running' : job \in others \/ promises[job] # "new"
         /\ \/ /\ jobs' = jobs /\ running' = others
               /\ \/ queueAborted
                  \/ Cardinality(others) + slots >= maxConcurrency
                  \/ Len(jobs) = 0
            \/ /\ Len(jobs) > 0 /\ Len(jobs') = Len(jobs) - 1
               /\ Cardinality(running') = Cardinality(others) + 1
<1>t. jobs \in Seq(Item) /\ running \in SUBSET Item /\ Len(jobs) \in Nat
  BY LenProperties DEF QueueTypeOK
<1>1. CASE queueAborted \/ Cardinality(others) + slots >= maxConcurrency \/ jobs = <<>>
  <2>1. running' = others /\ jobs' = jobs
    BY <1>1 DEF Start
  <2>2. jobs = <<>> => Len(jobs) = 0
    BY EmptySeq
  <2> QED BY <1>t, <1>1, <2>1, <2>2 DEF OnePlace
<1>2. CASE ~(queueAborted \/ Cardinality(others) + slots >= maxConcurrency \/ jobs = <<>>)
  <2>0. Len(jobs) \in Nat \ {0}
    BY <1>t, <1>2, EmptySeq
  <2>1. CASE queueType = "LIFO"
    <3>1. running' = others \union {Last(jobs)} /\ jobs' = Front(jobs)
      BY <1>2, <2>1 DEF Start
    <3>2. /\ jobs' \in Seq(Item) /\ Len(jobs') = Len(jobs) - 1
          /\ Last(jobs) \in Item /\ Last(jobs) = jobs[Len(jobs)]
          /\ \A i \in 1..(Len(jobs) - 1) : jobs'[i] = jobs[i]
      BY <1>t, <1>2, <3>1, FrontFacts
    <3>3. Last(jobs) \notin others /\ promises[Last(jobs)] # "new"
      BY <2>0, <3>2 DEF OnePlace
    <3>4. IsFiniteSet(running') /\ Cardinality(running') = Cardinality(others) + 1
      BY <3>1, <3>3, FS_AddElement
    <3>5. \A i \in 1..Len(jobs') :
            /\ i \in 1..Len(jobs) /\ i # Len(jobs) /\ Len(jobs) \in 1..Len(jobs)
            /\ jobs'[i] = jobs[i]
      BY <2>0, <3>2
    <3>6. \A i \in 1..Len(jobs') : jobs'[i] \notin running' /\ promises[jobs'[i]] # "new"
      BY <3>1, <3>2, <3>5 DEF OnePlace
    <3>7. \A i, k \in 1..Len(jobs') : jobs'[i] = jobs'[k] => i = k
      BY <3>5 DEF OnePlace
    <3>8. running' \in SUBSET Item
      BY <1>t, <3>1, <3>2
    <3>9. \A job \in running' : job \in others \/ promises[job] # "new"
      BY <3>1, <3>3
    <3>10. Len(jobs) > 0
      BY <2>0
    <3> QED BY <3>2, <3>4, <3>6, <3>7, <3>8, <3>9, <3>10
  <2>2. CASE queueType # "LIFO"
    <3>1. running' = others \union {Head(jobs)} /\ jobs' = Tail(jobs)
      BY <1>2, <2>2 DEF Start
    <3>2. /\ jobs' \in Seq(Item) /\ Len(jobs') = Len(jobs) - 1
          /\ Head(jobs) \in Item /\ Head(jobs) = jobs[1]
          /\ \A i \in 1..(Len(jobs) - 1) : jobs'[i] = jobs[i + 1]
      BY <1>t, <1>2, <3>1, TailFacts
    <3>3. Head(jobs) \notin others /\ promises[Head(jobs)] # "new"
      BY <2>0, <3>2 DEF OnePlace
    <3>4. IsFiniteSet(running') /\ Cardinality(running') = Cardinality(others) + 1
      BY <3>1, <3>3, FS_AddElement
    <3>5. \A i \in 1..Len(jobs') :
            /\ i \in Nat /\ i + 1 \in 1..Len(jobs) /\ i + 1 # 1 /\ 1 \in 1..Len(jobs)
            /\ jobs'[i] = jobs[i + 1]
      BY <2>0, <3>2
    <3>6. \A i \in 1..Len(jobs') : jobs'[i] \notin running' /\ promises[jobs'[i]] # "new"
      BY <3>1, <3>2, <3>5 DEF OnePlace
    <3>7. \A i, k \in 1..Len(jobs') : jobs'[i] = jobs'[k] => i = k
      BY <3>5 DEF OnePlace
    <3>8. running' \in SUBSET Item
      BY <1>t, <3>1, <3>2
    <3>9. \A job \in running' : job \in others \/ promises[job] # "new"
      BY <3>1, <3>3
    <3>10. Len(jobs) > 0
      BY <2>0
    <3> QED BY <3>2, <3>4, <3>6, <3>7, <3>8, <3>9, <3>10
  <2> QED BY <2>1, <2>2
<1> QED BY <1>1, <1>2

-----------------------------------------------------------------------------
(* The inductive invariant *)

\* The empty queue satisfies it.
LEMMA InitQueueIInv ==
  ASSUME QueueInit
  PROVE  QueueIInv
<1>1. IsFiniteSet({}) /\ Cardinality({}) = 0
  BY FS_EmptySet
<1>2. <<>> \in Seq(Item) /\ Len(<<>>) = 0
  BY EmptySeq
<1>3. QueueTypeOK
  BY <1>2 DEF QueueInit, QueueTypeOK
<1>4. OnePlace
  BY <1>2 DEF QueueInit, OnePlace
<1>5. NoLostWakeup
  BY <1>2 DEF QueueInit, NoLostWakeup
<1> QED BY <1>1, <1>3, <1>4, <1>5 DEF QueueInit, QueueIInv

\* The facts on numbers that the steps below use.
LEMMA Numbers ==
  ASSUME QueueIInv
  PROVE  /\ jobs \in Seq(Item) /\ running \in SUBSET Item /\ IsFiniteSet(running)
         /\ Len(jobs) \in Nat /\ Cardinality(running) \in Nat
         /\ yielding \in Nat /\ timers \in Nat /\ maxConcurrency \in Nat
         /\ RunningJobs = Cardinality(running) + yielding
BY QueueAssumption, LenProperties, FS_CardinalityType
   DEF QueueIInv, QueueTypeOK, RunningJobs

\* push(): a job joins the list and a call of runJob is due if a slot is free.
LEMMA PushKeeps ==
  ASSUME QueueIInv, NEW job \in Item, Push(job)
  PROVE  QueueIInv'
<1>n. /\ jobs \in Seq(Item) /\ running \in SUBSET Item /\ IsFiniteSet(running)
      /\ Len(jobs) \in Nat /\ Cardinality(running) \in Nat
      /\ yielding \in Nat /\ timers \in Nat /\ maxConcurrency \in Nat
      /\ RunningJobs = Cardinality(running) + yielding
  BY Numbers
<1>u. /\ queueType' = queueType /\ running' = running /\ yielding' = yielding
      /\ queueAborted' = queueAborted /\ RunningJobs' = RunningJobs
      /\ promises[job] = "new"
  BY DEF Push, RunningJobs
<1>p. /\ promises \in [Item -> {"new", "waiting", "settled", "refused"}]
      /\ queueType \in {"FIFO", "LIFO"} /\ queueAborted \in BOOLEAN
      /\ OnePlace /\ NoLostWakeup
  BY DEF QueueIInv, QueueTypeOK
<1>1. CASE queueAborted \/ (queueType = "FIFO" /\ IsFull)
  <2>1. /\ promises' = [promises EXCEPT ![job] = "refused"]
        /\ jobs' = jobs /\ timers' = timers
    BY <1>1 DEF Push
  <2>2. QueueTypeOK'
    BY <1>n, <1>u, <1>p, <2>1 DEF QueueTypeOK
  <2>3. \A other \in Item : promises[other] # "new" => promises'[other] # "new"
    BY <1>p, <2>1
  <2>4. \A i \in 1..Len(jobs) : jobs[i] \in Item
    BY <1>n, ElementOfSeq
  <2>5. OnePlace'
    BY <1>n, <1>u, <1>p, <2>1, <2>3, <2>4 DEF OnePlace
  <2>6. NoLostWakeup'
    BY <1>u, <1>p, <2>1 DEF NoLostWakeup
  <2> QED BY <1>n, <1>u, <2>2, <2>5, <2>6 DEF QueueIInv
<1>2. CASE ~(queueAborted \/ (queueType = "FIFO" /\ IsFull))
  <2> DEFINE room == MakeRoom
  <2>1. /\ promises' = [promises EXCEPT ![job] = "waiting"]
        /\ jobs' = Append(room, job)
        /\ timers' = IF RunningJobs < maxConcurrency THEN timers + 1 ELSE timers
    BY <1>2 DEF Push, StartsTimer
  <2>2. /\ room \in Seq(Item)
        /\ \/ room = jobs
           \/ /\ Len(jobs) > 0 /\ Len(room) = Len(jobs) - 1
              /\ \A i \in 1..(Len(jobs) - 1) : room[i] = jobs[i + 1]
    BY <1>n, MakeRoomFacts
  <2> HIDE DEF room
  <2>3. Len(room) \in Nat /\ Len(room) <= Len(jobs)
    BY <1>n, <2>2, LenProperties
  <2>4. /\ jobs' \in Seq(Item) /\ Len(jobs') = Len(room) + 1
        /\ jobs'[Len(room) + 1] = job
        /\ \A i \in 1..Len(room) : jobs'[i] = room[i]
    BY <2>1, <2>2, AppendProperties
  <2>5. \A i \in 1..Len(room) : room[i] \in Item
    BY <2>2, ElementOfSeq
  <2>6. /\ \A i, k \in 1..Len(room) : room[i] = room[k] => i = k
        /\ \A i \in 1..Len(room) : room[i] \notin running /\ promises[room[i]] # "new"
    <3>1. CASE room = jobs
      BY <1>p, <3>1 DEF OnePlace
    <3>2. CASE room # jobs
      <4>1. \A i \in 1..Len(room) :
              i \in Nat /\ i + 1 \in 1..Len(jobs) /\ room[i] = jobs[i + 1]
        BY <1>n, <2>2, <3>2
      <4> QED BY <1>p, <4>1 DEF OnePlace
    <3> QED BY <3>1, <3>2
  <2>7. /\ \A other \in Item : promises[other] # "new" => promises'[other] # "new"
        /\ promises'[job] # "new" /\ job \notin running
    BY <1>u, <1>p, <2>1 DEF OnePlace
  <2>8. \A i \in 1..Len(jobs') : i \in 1..Len(room) \/ i = Len(room) + 1
    BY <2>3, <2>4
  <2>9. \A i \in 1..Len(room) : jobs'[i] # job /\ jobs'[i] = room[i]
    BY <1>u, <2>4, <2>6
  <2>10. \A i, k \in 1..Len(jobs') : jobs'[i] = jobs'[k] => i = k
    <3> SUFFICES ASSUME NEW i \in 1..Len(jobs'), NEW k \in 1..Len(jobs'),
                        jobs'[i] = jobs'[k]
                 PROVE  i = k
      OBVIOUS
    <3>1. CASE i \in 1..Len(room) /\ k \in 1..Len(room)
      BY <2>6, <2>9, <3>1
    <3>2. CASE i = Len(room) + 1 /\ k \in 1..Len(room)
      BY <2>4, <2>9, <3>2
    <3>3. CASE i \in 1..Len(room) /\ k = Len(room) + 1
      BY <2>4, <2>9, <3>3
    <3>4. CASE i = Len(room) + 1 /\ k = Len(room) + 1
      BY <3>4
    <3> QED BY <2>8, <3>1, <3>2, <3>3, <3>4
  <2>11. \A i \in 1..Len(jobs') : jobs'[i] \notin running' /\ promises'[jobs'[i]] # "new"
    BY <1>u, <2>4, <2>5, <2>6, <2>7, <2>8, <2>9
  <2>12. \A other \in running' : promises'[other] # "new"
    BY <1>n, <1>u, <1>p, <2>7 DEF OnePlace
  <2>13. OnePlace'
    BY <2>10, <2>11, <2>12 DEF OnePlace
  <2>14. timers' \in Nat
    BY <1>n, <2>1
  <2>15. QueueTypeOK'
    BY <1>n, <1>u, <1>p, <2>1, <2>4, <2>14 DEF QueueTypeOK
  <2>16. NoLostWakeup'
    <3> DEFINE l == Len(jobs)
               m == Len(jobs')
               r == RunningJobs
    <3>1. l \in Nat /\ m \in Nat /\ m <= l + 1 /\ r \in Nat
      BY <1>n, <2>3, <2>4
    <3>2. timers >= l \/ timers >= maxConcurrency - r
      BY <1>2, <1>p DEF NoLostWakeup
    <3>3. timers' = IF r < maxConcurrency THEN timers + 1 ELSE timers
      BY <2>1
    <3> HIDE DEF l, m, r
    <3>4. timers' >= m \/ timers' >= maxConcurrency - r
      BY <1>n, <3>1, <3>2, <3>3
    <3> QED BY <1>u, <3>4 DEF NoLostWakeup, l, m, r
  <2> QED BY <1>n, <1>u, <2>13, <2>15, <2>16 DEF QueueIInv
<1> QED BY <1>1, <1>2

\* A step that calls runJob: `slots` are kept, `others` run on, and what falls
\* due less than before is at most the call itself.
LEMMA StartKeeps ==
  ASSUME QueueIInv,
         NEW others \in SUBSET running, IsFiniteSet(others), NEW slots \in Nat,
         Start(others, slots),
         queueType' = queueType, queueAborted' = queueAborted,
         yielding' = slots, timers' \in Nat,
         promises' \in [Item -> {"new", "waiting", "settled", "refused"}],
         \A item \in Item : promises[item] # "new" => promises'[item] # "new",
         \/ timers' = timers /\ Cardinality(others) + slots + 1 = RunningJobs
         \/ timers' = timers - 1 /\ Cardinality(others) + slots = RunningJobs
  PROVE  QueueIInv'
<1>n. /\ jobs \in Seq(Item) /\ running \in SUBSET Item
      /\ Len(jobs) \in Nat /\ RunningJobs \in Nat /\ timers \in Nat /\ maxConcurrency \in Nat
  BY Numbers
<1>p. QueueTypeOK /\ OnePlace /\ NoLostWakeup /\ Cardinality(others) \in Nat
  BY FS_CardinalityType DEF QueueIInv
<1>s. /\ jobs' \in Seq(Item) /\ running' \in SUBSET Item /\ IsFiniteSet(running')
      /\ \A i, k \in 1..Len(jobs') : jobs'[i] = jobs'[k] => i = k
      /\ \A i \in 1..Len(jobs') : jobs'[i] \notin running' /\ promises[jobs'[i]] # "new"
      /\ \A job \in running' : job \in others \/ promises[job] # "new"
      /\ \/ /\ jobs' = jobs /\ running' = others
            /\ \/ queueAborted
               \/ Cardinality(others) + slots >= maxConcurrency
               \/ Len(jobs) = 0
         \/ /\ Len(jobs) > 0 /\ Len(jobs') = Len(jobs) - 1
            /\ Cardinality(running') = Cardinality(others) + 1
  BY <1>p, StartFacts
<1>1. QueueTypeOK'
  BY <1>p, <1>s DEF QueueTypeOK
<1>2. \A i \in 1..Len(jobs') : jobs'[i] \in Item
  BY <1>s, ElementOfSeq
<1>3. \A i \in 1..Len(jobs') : jobs'[i] \notin running' /\ promises'[jobs'[i]] # "new"
  BY <1>s, <1>2
<1>4. \A job \in running' : promises'[job] # "new"
  BY <1>p, <1>s DEF OnePlace
<1>5. OnePlace'
  BY <1>s, <1>3, <1>4 DEF OnePlace
<1>6. NoLostWakeup'
  <2> DEFINE l == Len(jobs)
             m == Len(jobs')
             r == RunningJobs
             o == Cardinality(others)
             c == Cardinality(running')
  <2>1. l \in Nat /\ r \in Nat /\ o \in Nat
    BY <1>n, <1>p
  <2>2. ~queueAborted => timers >= l \/ timers >= maxConcurrency - r
    BY <1>p DEF NoLostWakeup
  <2>3. \/ m = l /\ c = o /\ (queueAborted \/ o + slots >= maxConcurrency \/ l = 0)
        \/ l > 0 /\ m = l - 1 /\ c = o + 1
    BY <1>s
  <2>4. \/ timers' = timers /\ o + slots + 1 = r
        \/ timers' = timers - 1 /\ o + slots = r
    OBVIOUS
  <2> HIDE DEF l, m, r, o, c
  <2>5. ~queueAborted => timers' >= m \/ timers' >= maxConcurrency - (c + slots)
    BY <1>n, <2>1, <2>2, <2>3, <2>4
  <2>6. RunningJobs' = c + slots
    BY DEF RunningJobs, c
  <2> QED BY <2>5, <2>6 DEF NoLostWakeup, m
<1> QED BY <1>1, <1>5, <1>6, <1>s DEF QueueIInv

\* A job ends: its slot is free, or yields.
LEMMA JobEndKeeps ==
  ASSUME QueueIInv, NEW job \in Item, JobEnds(job) \/ JobEndsAndYields(job)
  PROVE  QueueIInv'
<1>n. /\ jobs \in Seq(Item) /\ running \in SUBSET Item /\ IsFiniteSet(running)
      /\ Cardinality(running) \in Nat /\ yielding \in Nat /\ timers \in Nat
      /\ RunningJobs = Cardinality(running) + yielding
  BY Numbers
<1>p. /\ QueueTypeOK /\ OnePlace /\ NoLostWakeup
      /\ promises \in [Item -> {"new", "waiting", "settled", "refused"}]
  BY DEF QueueIInv, QueueTypeOK
<1>1. /\ job \in running /\ promises' = [promises EXCEPT ![job] = "settled"]
      /\ queueType' = queueType /\ timers' = timers /\ queueAborted' = queueAborted
  BY DEF JobEnds, JobEndsAndYields
<1>2. /\ running \ {job} \in SUBSET running /\ IsFiniteSet(running \ {job})
      /\ Cardinality(running \ {job}) = Cardinality(running) - 1
  BY <1>n, <1>1, FS_RemoveElement
<1>3. /\ promises' \in [Item -> {"new", "waiting", "settled", "refused"}]
      /\ \A item \in Item : promises[item] # "new" => promises'[item] # "new"
  BY <1>p, <1>1
<1>4. Cardinality(running \ {job}) + yielding + 1 = RunningJobs
  BY <1>n, <1>2
<1>5. CASE JobEnds(job)
  <2>1. Start(running \ {job}, yielding) /\ yielding' = yielding
    BY <1>5 DEF JobEnds
  <2>2. timers' \in Nat
    BY <1>n, <1>1
  <2> QED BY <1>n, <1>1, <1>2, <1>3, <1>4, <2>1, <2>2, StartKeeps
<1>6. CASE JobEndsAndYields(job)
  <2>1. running' = running \ {job} /\ yielding' = yielding + 1 /\ jobs' = jobs
    BY <1>6 DEF JobEndsAndYields
  <2>2. yielding' \in Nat
    BY <1>n, <2>1
  <2>3. QueueTypeOK'
    BY <1>p, <1>1, <1>3, <2>1, <2>2 DEF QueueTypeOK
  <2>4. \A i \in 1..Len(jobs) : jobs[i] \in Item
    BY <1>n, ElementOfSeq
  <2>5. OnePlace'
    BY <1>n, <1>p, <1>3, <2>1, <2>4 DEF OnePlace
  <2>6. RunningJobs' = RunningJobs
    BY <1>n, <1>2, <2>1 DEF RunningJobs
  <2>7. NoLostWakeup'
    BY <1>p, <1>1, <2>1, <2>6 DEF NoLostWakeup
  <2> QED BY <1>2, <2>1, <2>3, <2>5, <2>7 DEF QueueIInv
<1> QED BY <1>5, <1>6

\* abortAllJobs and dropAllJobs: an empty list needs no wake-up.
LEMMA EmptyKeeps ==
  ASSUME QueueIInv, Abort \/ DropAllJobs
  PROVE  QueueIInv'
<1>n. /\ running \in SUBSET Item /\ IsFiniteSet(running) /\ timers \in Nat
  BY Numbers
<1>p. /\ QueueTypeOK /\ OnePlace
      /\ promises \in [Item -> {"new", "waiting", "settled", "refused"}]
  BY DEF QueueIInv, QueueTypeOK
<1>1. /\ jobs' = <<>> /\ queueType' = queueType /\ running' = running
      /\ yielding' = yielding /\ timers' = timers /\ queueAborted' \in BOOLEAN
  BY <1>p DEF Abort, DropAllJobs, QueueTypeOK
<1>2. jobs' \in Seq(Item) /\ Len(jobs') = 0
  BY <1>1, EmptySeq
<1>3. /\ promises' \in [Item -> {"new", "waiting", "settled", "refused"}]
      /\ \A item \in Item : promises[item] # "new" => promises'[item] # "new"
  <2> DEFINE P == ToSet(jobs)
  <2>1. \/ promises' = promises
        \/ promises' = [job \in Item |-> IF job \in P THEN "settled" ELSE promises[job]]
    BY DEF Abort, DropAllJobs
  <2> HIDE DEF P
  <2> QED BY <1>p, <2>1
<1>4. QueueTypeOK'
  BY <1>p, <1>1, <1>2, <1>3 DEF QueueTypeOK
<1>5. OnePlace'
  BY <1>n, <1>p, <1>1, <1>2, <1>3 DEF OnePlace
<1>6. NoLostWakeup'
  BY <1>n, <1>1, <1>2 DEF NoLostWakeup
<1> QED BY <1>n, <1>1, <1>4, <1>5, <1>6 DEF QueueIInv

\* Every step of a queue keeps the invariant.
LEMMA NextQueueIInv ==
  ASSUME QueueIInv, [QueueNext]_queueVars
  PROVE  QueueIInv'
<1>n. /\ running \in SUBSET Item /\ IsFiniteSet(running)
      /\ Cardinality(running) \in Nat /\ yielding \in Nat /\ timers \in Nat
      /\ RunningJobs = Cardinality(running) + yielding
  BY Numbers
<1>p. promises \in [Item -> {"new", "waiting", "settled", "refused"}]
  BY DEF QueueIInv, QueueTypeOK
<1>1. CASE \E job \in Item : Push(job)
  BY <1>1, PushKeeps
<1>2. CASE \E job \in Item : JobEnds(job) \/ JobEndsAndYields(job)
  BY <1>2, JobEndKeeps
<1>3. CASE Timer
  <2>1. /\ Start(running, yielding) /\ timers' = timers - 1 /\ timers' \in Nat
        /\ queueType' = queueType /\ yielding' = yielding /\ promises' = promises
        /\ queueAborted' = queueAborted
    BY <1>n, <1>3 DEF Timer
  <2> QED BY <1>n, <1>p, <2>1, StartKeeps
<1>4. CASE Yielded
  <2>1. /\ yielding - 1 \in Nat /\ yielding' = yielding - 1
        /\ Start(running, yielding - 1) /\ timers' = timers
        /\ queueType' = queueType /\ promises' = promises
        /\ queueAborted' = queueAborted
    BY <1>n, <1>4 DEF Yielded
  <2>2. Cardinality(running) + (yielding - 1) + 1 = RunningJobs
    BY <1>n
  <2> QED BY <1>n, <1>p, <2>1, <2>2, StartKeeps
<1>5. CASE Abort \/ DropAllJobs
  BY <1>5, EmptyKeeps
<1>6. CASE UNCHANGED queueVars
  BY <1>6 DEF queueVars, QueueIInv, QueueTypeOK, OnePlace, NoLostWakeup, RunningJobs
<1> QED BY <1>1, <1>2, <1>3, <1>4, <1>5, <1>6 DEF QueueNext

\* No wake-up of a JobItemQueue is lost: NoLostWakeup holds for every set of
\* items and every limit, whatever runJob, push() and the ends of jobs
\* interleave to.
THEOREM WakeupsAreKept == QueueSpec => []NoLostWakeup
<1>1. QueueInit => QueueIInv
  BY InitQueueIInv
<1>2. QueueIInv /\ [QueueNext]_queueVars => QueueIInv'
  BY NextQueueIInv
<1>3. QueueIInv => NoLostWakeup
  BY DEF QueueIInv
<1> QED BY <1>1, <1>2, <1>3, PTL DEF QueueSpec

-----------------------------------------------------------------------------
(* BlsPool *)

\* The quotient of natural numbers.
LEMMA Quotient ==
  ASSUME NEW a \in Nat, NEW b \in Nat \ {0}
  PROVE  /\ a \div b \in Nat
         /\ (a \div b) * b <= a
         /\ a < (a \div b) * b + b
OBVIOUS

\* Products of natural numbers grow with a factor.
LEMMA Product ==
  ASSUME NEW a \in Nat, NEW b \in Nat, NEW c \in Nat, a <= b
  PROVE  a * c \in Nat /\ a * c <= b * c
<1>1. PICK d \in Nat : b = a + d
  <2>1. b - a \in Nat /\ b = a + (b - a)
    OBVIOUS
  <2> QED BY <2>1
<1>2. b * c = a * c + d * c /\ d * c \in Nat /\ a * c \in Nat
  BY <1>1
<1> QED BY <1>2

\* What a part of a sequence holds.
LEMMA PartOfSequence ==
  ASSUME NEW S, NEW s \in Seq(S), NEW first \in 1..Len(s), NEW last \in 1..Len(s),
         first <= last
  PROVE  LET part == SubSeq(s, first, last)
         IN  /\ part \in Seq(S) /\ part # <<>>
             /\ ToSet(part) \subseteq ToSet(s)
             /\ \A i \in first..last : s[i] \in ToSet(part)
<1> DEFINE part == SubSeq(s, first, last)
<1>1. Len(s) \in Nat /\ DOMAIN s = 1..Len(s) /\ first \in Nat /\ last \in Nat
  OBVIOUS
<1>2. /\ part \in Seq(S)
      /\ Len(part) = last - first + 1
      /\ \A i \in 1..(last - first + 1) : part[i] = s[first + i - 1]
  BY <1>1, SubSeqProperties
<1>3. DOMAIN part = 1..(last - first + 1) /\ last - first + 1 \in Nat /\ part # <<>>
  BY <1>1, <1>2
<1> HIDE DEF part
<1>4. ToSet(part) \subseteq ToSet(s)
  <2> SUFFICES ASSUME NEW i \in DOMAIN part PROVE part[i] \in ToSet(s)
    BY DEF ToSet
  <2>1. part[i] = s[first + i - 1] /\ first + i - 1 \in 1..Len(s)
    BY <1>1, <1>2, <1>3
  <2> QED BY <1>1, <2>1 DEF ToSet
<1>5. ASSUME NEW i \in first..last PROVE s[i] \in ToSet(part)
  <2>1. i - first + 1 \in 1..(last - first + 1) /\ first + (i - first + 1) - 1 = i
    BY <1>1
  <2>2. part[i - first + 1] = s[i]
    BY <1>2, <2>1
  <2> QED BY <1>3, <2>1, <2>2 DEF ToSet
<1>6. /\ part \in Seq(S) /\ part # <<>> /\ ToSet(part) \subseteq ToSet(s)
      /\ \A i \in first..last : s[i] \in ToSet(part)
  BY <1>2, <1>3, <1>4, <1>5
<1> QED BY <1>6 DEF part

\* The chunks of an array are some of it each, no chunk of a non-empty array is
\* empty, and together they are all of it.
LEMMA ChunksCover ==
  ASSUME NEW S, NEW arr \in Seq(S), NEW minPerChunk \in Nat \ {0}
  PROVE  LET chunks == ChunkifyMaximizeChunkSize(arr, minPerChunk)
         IN  /\ \E k \in Nat \ {0} : chunks \in [1..k -> Seq(S)]
             /\ \A i \in DOMAIN chunks :
                  /\ ToSet(chunks[i]) \subseteq ToSet(arr)
                  /\ chunks[i] = <<>> => arr = <<>>
             /\ \A j \in DOMAIN arr : \E i \in DOMAIN chunks : arr[j] \in ToSet(chunks[i])
<1> DEFINE chunks == ChunkifyMaximizeChunkSize(arr, minPerChunk)
           chunkCount == Len(arr) \div minPerChunk
           perChunk == (Len(arr) + chunkCount - 1) \div chunkCount
           k == (Len(arr) + perChunk - 1) \div perChunk
           last(i) == IF i * perChunk < Len(arr) THEN i * perChunk ELSE Len(arr)
<1>1. Len(arr) \in Nat /\ DOMAIN arr = 1..Len(arr) /\ chunkCount \in Nat
  BY Quotient
<1>2. CASE chunkCount <= 1
  <2>1. chunks = <<arr>>
    BY <1>2 DEF ChunkifyMaximizeChunkSize
  <2>2. chunks \in [1..1 -> Seq(S)] /\ DOMAIN chunks = {1} /\ chunks[1] = arr
    BY <2>1
  <2> HIDE DEF chunks
  <2>3. \A j \in DOMAIN arr : arr[j] \in ToSet(arr)
    BY DEF ToSet
  <2>4. \A j \in DOMAIN arr : arr[j] \in ToSet(chunks[1])
    BY <2>2, <2>3
  <2>5. /\ \E n \in Nat \ {0} : chunks \in [1..n -> Seq(S)]
        /\ \A i \in DOMAIN chunks : /\ ToSet(chunks[i]) \subseteq ToSet(arr)
                                    /\ chunks[i] = <<>> => arr = <<>>
        /\ \A j \in DOMAIN arr : \E i \in DOMAIN chunks : arr[j] \in ToSet(chunks[i])
    BY <2>2, <2>4
  <2> QED BY <2>5 DEF chunks
<1>3. CASE ~ (chunkCount <= 1)
  <2>1. chunks = [i \in 1..k |-> SubSeq(arr, (i - 1) * perChunk + 1, last(i))]
    BY <1>3 DEF ChunkifyMaximizeChunkSize
  <2>2. chunkCount \in Nat \ {0} /\ Len(arr) + chunkCount - 1 \in Nat
    BY <1>1, <1>3
  <2>3. chunkCount <= Len(arr)
    <3>1. chunkCount * minPerChunk <= Len(arr) /\ chunkCount * 1 <= chunkCount * minPerChunk
      <4>1. chunkCount * minPerChunk <= Len(arr)
        BY <1>1, Quotient
      <4>2. 1 * chunkCount <= minPerChunk * chunkCount
        BY <1>1, Product
      <4> QED BY <1>1, <4>1, <4>2
    <3> HIDE DEF chunkCount
    <3> QED BY <1>1, <3>1
  <2>4. perChunk \in Nat \ {0}
    <3>1. perChunk \in Nat /\ Len(arr) + chunkCount - 1 < perChunk * chunkCount + chunkCount
      BY <2>2, Quotient
    <3> HIDE DEF perChunk, chunkCount
    <3>2. perChunk # 0
      BY <1>1, <2>2, <2>3, <3>1
    <3> QED BY <3>1, <3>2
  <2>5. /\ k \in Nat /\ Len(arr) + perChunk - 1 \in Nat
        /\ k * perChunk <= Len(arr) + perChunk - 1
        /\ Len(arr) + perChunk - 1 < k * perChunk + perChunk
    <3>1. Len(arr) + perChunk - 1 \in Nat
      BY <1>1, <2>4
    <3> HIDE DEF perChunk
    <3> QED BY <2>4, <3>1, Quotient
  <2>6. Len(arr) \in Nat /\ Len(arr) >= 2 /\ arr # <<>>
    BY <1>1, <1>3, <2>3
  <2> HIDE DEF chunks, k, perChunk, chunkCount
  <2>7. ASSUME NEW i \in 1..k
        PROVE  /\ (i - 1) * perChunk + 1 \in 1..Len(arr)
               /\ last(i) \in 1..Len(arr)
               /\ (i - 1) * perChunk + 1 <= last(i)
    <3>1. i \in Nat /\ i - 1 \in Nat /\ i <= k
      BY <2>5
    <3>2. i * perChunk = (i - 1) * perChunk + perChunk /\ (i - 1) * perChunk \in Nat
      BY <2>4, <3>1
    <3>3. i * perChunk <= k * perChunk /\ i * perChunk \in Nat /\ k * perChunk \in Nat
      BY <2>4, <2>5, <3>1, Product
    <3>4. (i - 1) * perChunk + 1 <= Len(arr) /\ (i - 1) * perChunk + 1 <= i * perChunk
      BY <2>4, <2>5, <2>6, <3>2, <3>3
    <3> QED BY <2>6, <3>2, <3>3, <3>4
  <2>8. ASSUME NEW i \in 1..k
        PROVE  /\ chunks[i] \in Seq(S) /\ chunks[i] # <<>>
               /\ ToSet(chunks[i]) \subseteq ToSet(arr)
               /\ \A j \in ((i - 1) * perChunk + 1)..last(i) : arr[j] \in ToSet(chunks[i])
    <3>1. chunks[i] = SubSeq(arr, (i - 1) * perChunk + 1, last(i))
      BY <2>1
    <3> HIDE DEF last
    <3> QED BY <2>7, <3>1, PartOfSequence
  <2>9. ASSUME NEW j \in 1..Len(arr)
        PROVE  \E i \in 1..k : arr[j] \in ToSet(chunks[i])
    <3> DEFINE q == (j - 1) \div perChunk
    <3>1. j \in Nat /\ j - 1 \in Nat /\ j <= Len(arr)
      BY <2>6
    <3>2. q \in Nat /\ q * perChunk <= j - 1 /\ j - 1 < q * perChunk + perChunk
      BY <2>4, <3>1, Quotient
    <3> HIDE DEF q
    <3>3. (q + 1) * perChunk = q * perChunk + perChunk /\ q * perChunk \in Nat
      BY <2>4, <3>2
    <3>4. q + 1 <= k
      <4> SUFFICES ASSUME k <= q PROVE FALSE
        BY <2>5, <3>2
      <4>1. k * perChunk <= q * perChunk /\ k * perChunk \in Nat
        BY <2>4, <2>5, <3>2, Product
      <4> QED BY <2>4, <2>5, <2>6, <3>1, <3>2, <3>3, <4>1
    <3>5. q + 1 \in 1..k /\ (q + 1) - 1 = q
      BY <2>5, <3>2, <3>4
    <3>6. j \in ((q + 1 - 1) * perChunk + 1)..last(q + 1)
      BY <2>4, <2>6, <3>1, <3>2, <3>3, <3>5
    <3> QED BY <2>8, <3>5, <3>6
  <2>10. k # 0
    <3>1. \E i \in 1..k : TRUE
      BY <2>6, <2>9
    <3> QED BY <3>1, <2>5
  <2>11. DOMAIN chunks = 1..k /\ chunks \in [1..k -> Seq(S)]
    BY <2>1, <2>8
  <2>12. /\ \E n \in Nat \ {0} : chunks \in [1..n -> Seq(S)]
         /\ \A i \in DOMAIN chunks : /\ ToSet(chunks[i]) \subseteq ToSet(arr)
                                     /\ chunks[i] = <<>> => arr = <<>>
         /\ \A j \in DOMAIN arr : \E i \in DOMAIN chunks : arr[j] \in ToSet(chunks[i])
    BY <1>1, <2>5, <2>8, <2>9, <2>10, <2>11
  <2> QED BY <2>12 DEF chunks
<1> QED BY <1>2, <1>3

\* The parts of a request: some of its sets each, none empty unless the request
\* is, and all of its sets together.
LEMMA PartsOfRequest ==
  ASSUME NEW r \in Request
  PROVE  /\ \E k \in Nat \ {0} : PartsOf(r) \in [1..k -> Seq(SignatureSet)]
         /\ \A p \in DOMAIN PartsOf(r) :
              /\ ToSet(PartsOf(r)[p]) \subseteq ToSet(setsOf[r])
              /\ PartsOf(r)[p] = <<>> => setsOf[r] = <<>>
         /\ \A set \in ToSet(setsOf[r]) :
              \E p \in DOMAIN PartsOf(r) : set \in ToSet(PartsOf(r)[p])
<1>1. setsOf[r] \in Seq(SignatureSet) /\ MAX_SIGNATURE_SETS_PER_JOB \in Nat \ {0}
  BY BlsAssumption
<1>2. \A set \in ToSet(setsOf[r]) : \E j \in DOMAIN setsOf[r] : setsOf[r][j] = set
  BY DEF ToSet
<1> DEFINE parts == ChunkifyMaximizeChunkSize(setsOf[r], MAX_SIGNATURE_SETS_PER_JOB)
<1>3. /\ \E k \in Nat \ {0} : parts \in [1..k -> Seq(SignatureSet)]
      /\ \A p \in DOMAIN parts : /\ ToSet(parts[p]) \subseteq ToSet(setsOf[r])
                                 /\ parts[p] = <<>> => setsOf[r] = <<>>
      /\ \A j \in DOMAIN setsOf[r] : \E p \in DOMAIN parts : setsOf[r][j] \in ToSet(parts[p])
  BY <1>1, ChunksCover
<1>4. PartsOf(r) = parts
  BY DEF PartsOf
<1> HIDE DEF parts
<1>5. ASSUME NEW set \in ToSet(setsOf[r])
      PROVE  \E p \in DOMAIN parts : set \in ToSet(parts[p])
  <2>1. PICK j \in DOMAIN setsOf[r] : setsOf[r][j] = set
    BY <1>2
  <2> QED BY <1>3, <2>1
<1>6. /\ \E k \in Nat \ {0} : parts \in [1..k -> Seq(SignatureSet)]
      /\ \A p \in DOMAIN parts : /\ ToSet(parts[p]) \subseteq ToSet(setsOf[r])
                                 /\ parts[p] = <<>> => setsOf[r] = <<>>
      /\ \A set \in ToSet(setsOf[r]) : \E p \in DOMAIN parts : set \in ToSet(parts[p])
  BY <1>3, <1>5
<1> QED BY <1>4, <1>6, Zenon

-----------------------------------------------------------------------------
(* The invariant *)

\* Jobs that answer for the part of the request that they hold.
OwnJobs ==
  {job \in Job : /\ job.part \in DOMAIN PartsOf(job.request)
                 /\ job.sets = PartsOf(job.request)[job.part]}

Answer == [left : SUBSET Nat, result : {"none", "valid", "invalid", "error"}]

\* What makes an error right.
HasBadSet(r) == "malformed" \in ToSet(setsOf[r]) \/ setsOf[r] = <<>>

PoolFailed == blsAborted \/ workerErrors > 0 \/ AllWorkersFailed

\* What an answer promises while some parts are left and when none is.
AnswerFits(answer, r) ==
  /\ answer \in Answer
  /\ answer.result = "none" => answer.left = {}
  /\ answer.result = "valid" =>
       \A p \in DOMAIN PartsOf(r) :
         p \in answer.left \/ ToSet(PartsOf(r)[p]) \subseteq {"good"}
  /\ answer.result = "invalid" => "wrong" \in ToSet(setsOf[r])

AnswersFit ==
  \A r \in Request :
    /\ AnswerFits(answers[r], r)
    /\ answers[r].result = "error" => HasBadSet(r) \/ PoolFailed

JobsAreOwn ==
  /\ blsJobs \in Seq(OwnJobs) /\ bufferedJobs \in Seq(OwnJobs)
  /\ package \in [1..Workers -> Seq(OwnJobs)]

BlsInv ==
  /\ answers \in [Request -> Answer]
  /\ workerErrors \in Nat
  /\ JobsAreOwn
  /\ AnswersFit

BlsSpec == BlsInit /\ [][BlsNext]_blsVars

-----------------------------------------------------------------------------
(* Verification *)

\* A result that is right for a job in a step.
RightResult(job, result) ==
  /\ result \in {"valid", "invalid", "error"}
  /\ result = "valid" => ToSet(job.sets) \subseteq {"good"}
  /\ result = "invalid" => "wrong" \in ToSet(job.sets)
  /\ result = "error" => HasBadSet(job.request) \/ PoolFailed'

\* The kinds of the sets of an own job.
LEMMA OwnJobSets ==
  ASSUME NEW job \in OwnJobs
  PROVE  /\ job.request \in Request
         /\ ToSet(job.sets) \subseteq SignatureSet
         /\ ToSet(job.sets) \subseteq ToSet(setsOf[job.request])
         /\ ToSet(job.sets) = {} => setsOf[job.request] = <<>>
<1>1. /\ job.request \in Request /\ job.sets \in Seq(SignatureSet)
      /\ job.part \in DOMAIN PartsOf(job.request)
      /\ job.sets = PartsOf(job.request)[job.part]
  BY DEF OwnJobs, Job
<1>2. ToSet(job.sets) \subseteq SignatureSet
  BY <1>1 DEF ToSet
<1>3. ToSet(job.sets) = {} => job.sets = <<>>
  <2> SUFFICES ASSUME job.sets # <<>> PROVE ToSet(job.sets) # {}
    OBVIOUS
  <2>1. 1 \in DOMAIN job.sets
    BY <1>1
  <2> QED BY <2>1 DEF ToSet
<1> QED BY <1>1, <1>2, <1>3, PartsOfRequest

\* A set of kinds is verified for what it is.
LEMMA VerifyIsRight ==
  ASSUME NEW kinds \in SUBSET SignatureSet
  PROVE  /\ Verify(kinds) \in {"valid", "invalid", "error"}
         /\ Verify(kinds) = "valid" => kinds \subseteq {"good"}
         /\ Verify(kinds) = "invalid" => "wrong" \in kinds
         /\ Verify(kinds) = "error" => "malformed" \in kinds \/ kinds = {}
BY DEF Verify, SignatureSet

\* The result of a job in a package, by itself or as part of a batch.
LEMMA JobResultIsRight ==
  ASSUME NEW pack, NEW job \in OwnJobs
  PROVE  RightResult(job, JobResult(pack, job))
<1>1. /\ ToSet(job.sets) \subseteq SignatureSet
      /\ ToSet(job.sets) \subseteq ToSet(setsOf[job.request])
      /\ ToSet(job.sets) = {} => setsOf[job.request] = <<>>
  BY OwnJobSets
<1>2. CASE JobResult(pack, job) = Verify(ToSet(job.sets))
  <2>1. /\ Verify(ToSet(job.sets)) \in {"valid", "invalid", "error"}
        /\ Verify(ToSet(job.sets)) = "valid" => ToSet(job.sets) \subseteq {"good"}
        /\ Verify(ToSet(job.sets)) = "invalid" => "wrong" \in ToSet(job.sets)
        /\ Verify(ToSet(job.sets)) = "error" =>
             "malformed" \in ToSet(job.sets) \/ ToSet(job.sets) = {}
    BY <1>1, VerifyIsRight
  <2> QED BY <1>1, <1>2, <2>1 DEF RightResult, HasBadSet
<1>3. CASE JobResult(pack, job) # Verify(ToSet(job.sets))
  <2>1. /\ JobResult(pack, job) = "valid"
        /\ \E c \in ValidBatches(pack) : job \in ToSet(c)
    BY <1>3 DEF JobResult
  <2>2. PICK c : /\ Verify(UNION {ToSet(j.sets) : j \in ToSet(c)}) = "valid"
                 /\ job \in ToSet(c)
    BY <2>1 DEF ValidBatches
  <2>3. /\ ToSet(job.sets) \subseteq UNION {ToSet(j.sets) : j \in ToSet(c)}
        /\ "malformed" \notin UNION {ToSet(j.sets) : j \in ToSet(c)}
        /\ "wrong" \notin UNION {ToSet(j.sets) : j \in ToSet(c)}
    BY <2>2 DEF Verify
  <2>4. ToSet(job.sets) \subseteq {"good"}
    BY <1>1, <2>3 DEF SignatureSet
  <2> QED BY <2>1, <2>4 DEF RightResult
<1> QED BY <1>2, <1>3

-----------------------------------------------------------------------------
(* Steps *)

\* The answers after jobs ended with right results.
LEMMA AfterJobsFit ==
  ASSUME BlsInv, NEW pack \in Seq(OwnJobs), NEW results,
         \A i \in DOMAIN pack : RightResult(pack[i], results[i]),
         answers' = AfterJobs(pack, results), PoolFailed => PoolFailed'
  PROVE  answers' \in [Request -> Answer] /\ AnswersFit'
<1>1. ASSUME NEW r \in Request
      PROVE  /\ AnswerFits(answers'[r], r)
             /\ answers'[r].result = "error" => HasBadSet(r) \/ PoolFailed'
  <2> DEFINE ended == {i \in DOMAIN pack : /\ pack[i].request = r
                                          /\ pack[i].part \in answers[r].left}
             more == [left |-> answers[r].left \ {pack[i].part : i \in ended},
                      result |-> IF \E i \in ended : results[i] = "invalid"
                                 THEN "invalid" ELSE answers[r].result]
  <2>1. answers'[r] = IF \E i \in ended : results[i] = "error" THEN Settled("error")
                      ELSE more
    BY DEF AfterJobs
  <2>2. /\ answers[r] \in Answer /\ AnswerFits(answers[r], r)
        /\ answers[r].result = "error" => HasBadSet(r) \/ PoolFailed'
    BY DEF BlsInv, AnswersFit
  <2>3. \A i \in DOMAIN pack : pack[i] \in OwnJobs
    OBVIOUS
  <2>4. CASE \E i \in ended : results[i] = "error"
    <3>1. answers'[r] = [left |-> {}, result |-> "error"]
      BY <2>1, <2>4 DEF Settled
    <3>2. HasBadSet(r) \/ PoolFailed'
      BY <2>4 DEF RightResult
    <3>3. answers'[r] \in Answer /\ answers'[r].result = "error"
      BY <3>1 DEF Answer
    <3> QED BY <3>2, <3>3 DEF AnswerFits
  <2>5. CASE ~ \E i \in ended : results[i] = "error"
    <3>1. answers'[r] = more
      BY <2>1, <2>5
    <3>2. /\ answers'[r].left = answers[r].left \ {pack[i].part : i \in ended}
          /\ answers'[r].result = IF \E i \in ended : results[i] = "invalid"
                                  THEN "invalid" ELSE answers[r].result
      BY <3>1
    <3>3. answers'[r] \in Answer
      BY <2>2, <3>1 DEF Answer
    <3> HIDE DEF more
    <3>4. answers'[r].result = "none" => answers'[r].left = {}
      BY <2>2, <3>2 DEF AnswerFits
    <3>5. answers'[r].result = "invalid" => "wrong" \in ToSet(setsOf[r])
      <4>1. CASE \E i \in ended : results[i] = "invalid"
        <5>1. PICK i \in ended : results[i] = "invalid"
          BY <4>1
        <5>2. "wrong" \in ToSet(pack[i].sets) /\ pack[i].request = r /\ pack[i] \in OwnJobs
          BY <2>3, <5>1 DEF RightResult
        <5> QED BY <5>2, OwnJobSets
      <4> QED BY <2>2, <3>2, <4>1 DEF AnswerFits
    <3>6. ASSUME answers'[r].result = "valid", NEW p \in DOMAIN PartsOf(r),
                 p \notin answers'[r].left
          PROVE  ToSet(PartsOf(r)[p]) \subseteq {"good"}
      <4>1. answers[r].result = "valid" /\ ~ \E i \in ended : results[i] = "invalid"
        BY <3>2, <3>6
      <4>2. CASE p \notin answers[r].left
        BY <2>2, <4>1, <4>2 DEF AnswerFits
      <4>3. CASE p \in answers[r].left
        <5>1. PICK i \in ended : pack[i].part = p
          BY <3>2, <3>6, <4>3
        <5>2. results[i] = "valid"
          BY <2>5, <4>1, <5>1 DEF RightResult
        <5>3. ToSet(pack[i].sets) \subseteq {"good"}
          BY <5>1, <5>2 DEF RightResult
        <5>4. pack[i].sets = PartsOf(r)[p]
          BY <2>3, <5>1 DEF OwnJobs
        <5> QED BY <5>3, <5>4
      <4> QED BY <4>2, <4>3
    <3>7. answers'[r].result = "error" => HasBadSet(r) \/ PoolFailed'
      BY <2>2, <3>2
    <3> QED BY <3>3, <3>4, <3>5, <3>6, <3>7 DEF AnswerFits
  <2> QED BY <2>4, <2>5
<1>2. answers' = [r \in Request |-> answers'[r]]
  BY DEF AfterJobs
<1>3. answers' \in [Request -> Answer]
  BY <1>1, <1>2 DEF AnswerFits
<1>4. AnswersFit'
  BY <1>1 DEF AnswersFit, AnswerFits, HasBadSet
<1> QED BY <1>3, <1>4

\* One answer that is new and fits, the others as before.
LEMMA NewAnswerFits ==
  ASSUME BlsInv, NEW r \in Request, NEW answer, AnswerFits(answer, r),
         answer.result = "error" => HasBadSet(r) \/ PoolFailed,
         answers' = [answers EXCEPT ![r] = answer],
         PoolFailed' <=> PoolFailed
  PROVE  answers' \in [Request -> Answer] /\ AnswersFit'
<1>1. answers \in [Request -> Answer] /\ answer \in Answer
  BY DEF BlsInv, AnswerFits
<1>2. answers' \in [Request -> Answer] /\ answers'[r] = answer
  BY <1>1
<1>3. \A q \in Request : q # r => answers'[q] = answers[q]
  BY <1>1
<1>4. \A q \in Request : /\ AnswerFits(answers'[q], q)
                         /\ answers'[q].result = "error" => HasBadSet(q) \/ PoolFailed'
  BY <1>2, <1>3 DEF BlsInv, AnswersFit
<1> QED BY <1>2, <1>4 DEF AnswersFit, AnswerFits, HasBadSet

\* When the answers stay, they fit.
LEMMA SameAnswersFit ==
  ASSUME BlsInv, UNCHANGED answers, PoolFailed => PoolFailed'
  PROVE  answers' \in [Request -> Answer] /\ AnswersFit'
BY DEF BlsInv, AnswersFit, AnswerFits, HasBadSet

\* What QueueJobs has queued of the first n jobs.
Queued(new) ==
  CHOOSE queued :
    queued = [n \in 0..Len(new) |->
                IF n = 0
                THEN [jobs |-> blsJobs, buffered |-> bufferedJobs, timers |-> runJobTimers]
                ELSE QueueJob(queued[n - 1], new[n])]

\* The recursion is well defined.
LEMMA QueuedSteps ==
  ASSUME NEW new, Len(new) \in Nat
  PROVE  /\ QueueJobs(new) = Queued(new)[Len(new)]
         /\ Queued(new)[0] =
              [jobs |-> blsJobs, buffered |-> bufferedJobs, timers |-> runJobTimers]
         /\ \A n \in 1..Len(new) : Queued(new)[n] = QueueJob(Queued(new)[n - 1], new[n])
<1> DEFINE size == Len(new)
           first == [jobs |-> blsJobs, buffered |-> bufferedJobs, timers |-> runJobTimers]
           NextOf(q, k) == QueueJob(q, new[k])
           Steps(g, n) == [k \in 0..n |-> IF k = 0 THEN first ELSE NextOf(g[k - 1], k)]
           Defined == {n \in 0..size : \E g : g = Steps(g, n)}
<1> HIDE DEF NextOf, first
<1>1. 0 \in Defined
  <2> DEFINE g == [k \in 0..0 |-> first]
  <2>1. \A k \in 0..0 : k = 0
    OBVIOUS
  <2>2. g = Steps(g, 0)
    BY <2>1
  <2> HIDE DEF g, Steps
  <2>3. \E x : x = Steps(x, 0)
    BY <2>2
  <2> QED BY <2>3
<1>2. ASSUME NEW n \in 0..(size - 1), n \in Defined
      PROVE  n + 1 \in Defined
  <2>1. PICK g : g = Steps(g, n)
    BY <1>2
  <2> DEFINE h == [k \in 0..(n + 1) |-> IF k = n + 1 THEN NextOf(g[n], n + 1) ELSE g[k]]
  <2>2. \A k \in 0..n : g[k] = IF k = 0 THEN first ELSE NextOf(g[k - 1], k)
    <3>1. \A k \in 0..n : Steps(g, n)[k] = IF k = 0 THEN first ELSE NextOf(g[k - 1], k)
      OBVIOUS
    <3> HIDE DEF Steps
    <3> QED BY <2>1, <3>1
  <2>3. \A k \in 0..(n + 1) : h[k] = IF k = 0 THEN first ELSE NextOf(h[k - 1], k)
    <3> SUFFICES ASSUME NEW k \in 0..(n + 1)
                 PROVE  h[k] = IF k = 0 THEN first ELSE NextOf(h[k - 1], k)
      OBVIOUS
    <3>1. CASE k = n + 1
      BY <3>1
    <3>2. CASE k # n + 1
      <4>1. k \in 0..n /\ h[k] = g[k] /\ (k # 0 => h[k - 1] = g[k - 1])
        BY <3>2
      <4> QED BY <2>2, <4>1
    <3> QED BY <3>1, <3>2
  <2>4. h = Steps(h, n + 1)
    BY <2>3
  <2>5. n + 1 \in 0..size
    OBVIOUS
  <2> QED BY <2>4, <2>5
<1>3. size \in Defined
  <2> HIDE DEF Defined
  <2>1. 0..size \subseteq Defined
    BY <1>1, <1>2, Induction
  <2> QED BY <2>1
<1>4. PICK g : g = Steps(g, size)
  BY <1>3
<1>5. Queued(new) = Steps(Queued(new), size)
  BY <1>4 DEF Queued, NextOf, first
<1>6. Queued(new)[0] = first
  BY <1>5
<1>7. \A n \in 1..size : Queued(new)[n] = NextOf(Queued(new)[n - 1], n)
  BY <1>5
<1>8. QueueJobs(new) = Queued(new)[size]
  BY DEF QueueJobs, Queued
<1> QED BY <1>6, <1>7, <1>8 DEF NextOf, first

\* Queued jobs are own jobs, wherever they are put.
LEMMA QueueJobsOwn ==
  ASSUME JobsAreOwn, NEW new \in Seq(OwnJobs)
  PROVE  /\ QueueJobs(new).jobs \in Seq(OwnJobs)
         /\ QueueJobs(new).buffered \in Seq(OwnJobs)
<1> DEFINE queued == Queued(new)
           Own(q) == q.jobs \in Seq(OwnJobs) /\ q.buffered \in Seq(OwnJobs)
           Good == {n \in 0..Len(new) : Own(queued[n])}
<1>1. Len(new) \in Nat
  OBVIOUS
<1>2. /\ QueueJobs(new) = queued[Len(new)]
      /\ queued[0] = [jobs |-> blsJobs, buffered |-> bufferedJobs, timers |-> runJobTimers]
      /\ \A n \in 1..Len(new) : queued[n] = QueueJob(queued[n - 1], new[n])
  BY <1>1, QueuedSteps
<1> HIDE DEF queued
<1>3. 0 \in Good
  BY <1>1, <1>2 DEF JobsAreOwn
<1>4. ASSUME NEW q, Own(q), NEW job \in OwnJobs PROVE Own(QueueJob(q, job))
  <2>1. q.jobs \in Seq(OwnJobs) /\ q.buffered \in Seq(OwnJobs)
    BY <1>4
  <2>2. /\ Append(q.jobs, job) \in Seq(OwnJobs)
        /\ Append(q.buffered, job) \in Seq(OwnJobs)
        /\ q.jobs \o Append(q.buffered, job) \in Seq(OwnJobs)
        /\ <<>> \in Seq(OwnJobs)
    BY <2>1
  <2>3. CASE QueueJob(q, job) = [jobs |-> Append(q.jobs, job), buffered |-> q.buffered,
                                 timers |-> q.timers + 1]
    BY <2>1, <2>2, <2>3
  <2>4. CASE QueueJob(q, job) = [jobs |-> q.jobs \o Append(q.buffered, job),
                                 buffered |-> <<>>, timers |-> q.timers + 1]
    BY <2>2, <2>4
  <2>5. CASE QueueJob(q, job) = [jobs |-> q.jobs, buffered |-> Append(q.buffered, job),
                                 timers |-> q.timers]
    BY <2>1, <2>2, <2>5
  <2> HIDE DEF Own
  <2> QED BY <2>3, <2>4, <2>5 DEF QueueJob
<1>5. ASSUME NEW n \in 0..(Len(new) - 1), n \in Good PROVE n + 1 \in Good
  <2>1. n + 1 \in 1..Len(new) /\ n + 1 \in 0..Len(new) /\ (n + 1) - 1 = n
    BY <1>1
  <2>2. queued[n + 1] = QueueJob(queued[n], new[n + 1]) /\ new[n + 1] \in OwnJobs
    BY <1>2, <2>1
  <2>3. Own(queued[n])
    BY <1>5
  <2> HIDE DEF Own
  <2>4. Own(queued[n + 1])
    BY <1>4, <2>2, <2>3
  <2> QED BY <2>1, <2>4
<1>6. Len(new) \in Good
  <2> HIDE DEF Good
  <2>1. 0..Len(new) \subseteq Good
    BY <1>1, <1>3, <1>5, Induction
  <2> QED BY <1>1, <2>1
<1> QED BY <1>2, <1>6

\* The jobs of a request are own jobs.
LEMMA JobsOfOwn ==
  ASSUME NEW r \in Request, NEW batchable \in BOOLEAN
  PROVE  JobsOf(r, batchable) \in Seq(OwnJobs)
<1>1. PICK k \in Nat \ {0} : PartsOf(r) \in [1..k -> Seq(SignatureSet)]
  BY PartsOfRequest
<1>2. DOMAIN PartsOf(r) = 1..k
  BY <1>1
<1>3. ASSUME NEW i \in 1..k
      PROVE  JobsOf(r, batchable)[i] \in OwnJobs
  <2>1. JobsOf(r, batchable)[i] =
          [request |-> r, part |-> i, batchable |-> batchable, sets |-> PartsOf(r)[i]]
    BY <1>2 DEF JobsOf
  <2>2. i \in Nat /\ PartsOf(r)[i] \in Seq(SignatureSet)
    BY <1>1
  <2> QED BY <1>2, <2>1, <2>2 DEF OwnJobs, Job
<1>4. JobsOf(r, batchable) \in [1..k -> OwnJobs]
  BY <1>2, <1>3 DEF JobsOf
<1> QED BY <1>1, <1>4, SeqDef

\* A request is asked.
LEMMA VerifySignatureSetsInv ==
  ASSUME BlsInv, NEW r \in Request, NEW batchable \in BOOLEAN,
         VerifySignatureSets(r, batchable)
  PROVE  BlsInv'
<1>1. /\ PoolFailed' <=> PoolFailed
      /\ workerErrors' = workerErrors /\ package' = package
  BY DEF VerifySignatureSets, PoolFailed, AllWorkersFailed
<1>2. CASE blsAborted \/ AllWorkersFailed
  <2>1. /\ answers' = [answers EXCEPT ![r] = Settled("error")]
        /\ blsJobs' = blsJobs /\ bufferedJobs' = bufferedJobs
    BY <1>2 DEF VerifySignatureSets
  <2>2. AnswerFits(Settled("error"), r) /\ PoolFailed
    BY <1>2 DEF AnswerFits, Settled, Answer, PoolFailed
  <2>3. answers' \in [Request -> Answer] /\ AnswersFit'
    <3> HIDE DEF PoolFailed
    <3> QED BY <1>1, <2>1, <2>2, NewAnswerFits
  <2> QED BY <1>1, <2>1, <2>3 DEF BlsInv, JobsAreOwn
<1>3. CASE ~ (blsAborted \/ AllWorkersFailed)
  <2> DEFINE new == JobsOf(r, batchable)
             asked == Waiting(DOMAIN PartsOf(r))
  <2>1. /\ answers' = [answers EXCEPT ![r] = asked]
        /\ blsJobs' = QueueJobs(new).jobs /\ bufferedJobs' = QueueJobs(new).buffered
    BY <1>3 DEF VerifySignatureSets
  <2>2. new \in Seq(OwnJobs)
    BY JobsOfOwn
  <2>3. blsJobs' \in Seq(OwnJobs) /\ bufferedJobs' \in Seq(OwnJobs)
    BY <2>1, <2>2, QueueJobsOwn DEF BlsInv
  <2>4. /\ asked.left = DOMAIN PartsOf(r) /\ asked.result = "valid"
        /\ asked \in Answer
    <3>1. DOMAIN PartsOf(r) \in SUBSET Nat
      BY PartsOfRequest
    <3> QED BY <3>1 DEF Waiting, Answer
  <2> HIDE DEF asked
  <2>5. AnswerFits(asked, r)
    BY <2>4 DEF AnswerFits
  <2>6. answers' \in [Request -> Answer] /\ AnswersFit'
    BY <1>1, <2>1, <2>4, <2>5, NewAnswerFits
  <2> QED BY <1>1, <2>3, <2>6 DEF BlsInv, JobsAreOwn
<1> QED BY <1>2, <1>3

\* A request is verified on the main thread, all its sets at once.
LEMMA VerifyOnMainThreadInv ==
  ASSUME BlsInv, NEW r \in Request, VerifyOnMainThread(r)
  PROVE  BlsInv'
<1> DEFINE kinds == ToSet(setsOf[r])
           answer == Settled(Verify(kinds))
<1>1. /\ PoolFailed' <=> PoolFailed
      /\ workerErrors' = workerErrors
      /\ UNCHANGED <<blsJobs, bufferedJobs, package>>
      /\ answers' = [answers EXCEPT ![r] = answer]
  BY DEF VerifyOnMainThread, PoolFailed, AllWorkersFailed
<1>2. kinds \in SUBSET SignatureSet /\ (kinds = {} => setsOf[r] = <<>>)
  <2>1. setsOf[r] \in Seq(SignatureSet)
    BY BlsAssumption
  <2>2. setsOf[r] # <<>> => 1 \in DOMAIN setsOf[r]
    BY <2>1
  <2>3. \A i \in DOMAIN setsOf[r] : setsOf[r][i] \in SignatureSet
    BY <2>1
  <2>4. kinds = {setsOf[r][i] : i \in DOMAIN setsOf[r]}
    BY DEF ToSet
  <2>5. kinds \in SUBSET SignatureSet
    BY <2>3, <2>4
  <2>6. setsOf[r] # <<>> => setsOf[r][1] \in kinds
    BY <2>2, <2>4
  <2> HIDE DEF kinds
  <2> QED BY <2>5, <2>6
<1>3. /\ Verify(kinds) \in {"valid", "invalid", "error"}
      /\ Verify(kinds) = "valid" => kinds \subseteq {"good"}
      /\ Verify(kinds) = "invalid" => "wrong" \in kinds
      /\ Verify(kinds) = "error" => "malformed" \in kinds \/ kinds = {}
  BY <1>2, VerifyIsRight
<1>4. answer.left = {} /\ answer.result = Verify(kinds) /\ answer \in Answer
  BY <1>3 DEF Settled, Answer
<1>5. \A p \in DOMAIN PartsOf(r) : ToSet(PartsOf(r)[p]) \subseteq kinds
  BY PartsOfRequest
<1> HIDE DEF answer
<1>6. AnswerFits(answer, r)
  BY <1>3, <1>4, <1>5 DEF AnswerFits
<1>7. answer.result = "error" => HasBadSet(r)
  BY <1>2, <1>3, <1>4 DEF HasBadSet
<1>8. answers' \in [Request -> Answer] /\ AnswersFit'
  BY <1>1, <1>6, <1>7, NewAnswerFits
<1> QED BY <1>1, <1>8 DEF BlsInv, JobsAreOwn

\* The queue and the buffer of own jobs.
LEMMA RunBufferedJobsInv ==
  ASSUME BlsInv, RunBufferedJobs
  PROVE  BlsInv'
<1>1. blsJobs' \in Seq(OwnJobs) /\ bufferedJobs' \in Seq(OwnJobs)
  BY DEF RunBufferedJobs, BlsInv, JobsAreOwn
<1>2. PoolFailed => PoolFailed'
  BY DEF RunBufferedJobs, PoolFailed, AllWorkersFailed
<1>3. answers' \in [Request -> Answer] /\ AnswersFit'
  BY <1>2, SameAnswersFit DEF RunBufferedJobs
<1> QED BY <1>1, <1>3 DEF RunBufferedJobs, BlsInv, JobsAreOwn

\* A worker that starts or fails to: all workers have not failed before.
LEMMA WorkerInitInv ==
  ASSUME BlsInv, NEW w \in 1..Workers, WorkerInit(w)
  PROVE  BlsInv'
<1>1. /\ UNCHANGED <<blsJobs, bufferedJobs, package, answers, blsAborted, workerErrors>>
      /\ workerStatus[w] = "initializing"
  BY DEF WorkerInit, WorkerStarts, WorkerInitFails
<1>2. PoolFailed => PoolFailed'
  BY <1>1 DEF PoolFailed, AllWorkersFailed
<1>3. answers' \in [Request -> Answer] /\ AnswersFit'
  BY <1>1, <1>2, SameAnswersFit
<1> QED BY <1>1, <1>3 DEF BlsInv, JobsAreOwn

\* A package is the first part of the queue.
LEMMA RunJobInv ==
  ASSUME BlsInv, RunJob
  PROVE  BlsInv'
<1>1. UNCHANGED <<bufferedJobs, answers, blsAborted, workerErrors>>
  BY DEF RunJob
<1>2. CASE UNCHANGED <<workerStatus, package, blsJobs>>
  <2>1. PoolFailed => PoolFailed'
    BY <1>1, <1>2 DEF PoolFailed, AllWorkersFailed
  <2>2. answers' \in [Request -> Answer] /\ AnswersFit'
    BY <1>1, <2>1, SameAnswersFit
  <2> QED BY <1>1, <1>2, <2>2 DEF BlsInv, JobsAreOwn
<1>3. ASSUME NEW w \in 1..Workers, IsFirstIdle(w), blsJobs # <<>>,
             package' = [package EXCEPT ![w] = SubSeq(blsJobs, 1, PackageSize)],
             blsJobs' = SubSeq(blsJobs, PackageSize + 1, Len(blsJobs))
      PROVE  BlsInv'
  <2>1. blsJobs \in Seq(OwnJobs) /\ Len(blsJobs) \in Nat \ {0}
    BY <1>3 DEF BlsInv, JobsAreOwn
  <2>2. PackageSize \in 1..Len(blsJobs)
    <3> DEFINE full == {n \in 1..Len(blsJobs) :
                          SigCount(SubSeq(blsJobs, 1, n)) >= MAX_SIGNATURE_SETS_PER_JOB}
    <3>1. PackageSize = IF full = {} THEN Len(blsJobs) ELSE Min(full)
      BY DEF PackageSize
    <3>2. full \in SUBSET Nat /\ full \subseteq 1..Len(blsJobs)
      BY <2>1
    <3> HIDE DEF full
    <3>3. CASE full = {}
      BY <2>1, <3>1, <3>3
    <3>4. CASE full # {}
      <4>1. \E m \in full : \A k \in full : m <= k
        BY <3>2, <3>4, LeastNatural
      <4>2. Min(full) \in full
        BY <4>1 DEF Min
      <4> QED BY <3>1, <3>2, <3>4, <4>2
    <3> QED BY <3>3, <3>4
  <2>3. /\ SubSeq(blsJobs, 1, PackageSize) \in Seq(OwnJobs)
        /\ SubSeq(blsJobs, PackageSize + 1, Len(blsJobs)) \in Seq(OwnJobs)
    BY <2>1, <2>2, SubSeqProperties
  <2>4. package' \in [1..Workers -> Seq(OwnJobs)]
    BY <1>3, <2>3 DEF BlsInv, JobsAreOwn
  <2>5. PoolFailed => PoolFailed'
    BY <1>1, <1>3 DEF PoolFailed, AllWorkersFailed, IsFirstIdle
  <2>6. answers' \in [Request -> Answer] /\ AnswersFit'
    BY <1>1, <2>5, SameAnswersFit
  <2> QED BY <1>1, <1>3, <2>3, <2>4, <2>6 DEF BlsInv, JobsAreOwn
<1> QED BY <1>2, <1>3 DEF RunJob

\* A worker answers for its package, or fails.
LEMMA PackageEndsInv ==
  ASSUME BlsInv, NEW w \in 1..Workers, PackageEnds(w)
  PROVE  BlsInv'
<1>1. /\ UNCHANGED <<blsJobs, bufferedJobs, blsAborted>>
      /\ workerStatus[w] = "running"
      /\ package' = [package EXCEPT ![w] = <<>>]
  BY DEF PackageEnds, PackageDone, PackageFails, BackToIdle
<1>2. package[w] \in Seq(OwnJobs) /\ package' \in [1..Workers -> Seq(OwnJobs)]
  BY <1>1 DEF BlsInv, JobsAreOwn
<1>3. workerErrors' \in Nat /\ workerErrors \in Nat
  BY DEF PackageEnds, PackageDone, PackageFails, BlsInv
<1>4. PoolFailed => PoolFailed'
  <2>1. workerErrors > 0 => workerErrors' > 0
    BY <1>3 DEF PackageEnds, PackageDone, PackageFails
  <2> QED BY <1>1, <2>1 DEF PoolFailed, AllWorkersFailed
<1>5. CASE PackageDone(w)
  <2> DEFINE results == [i \in DOMAIN package[w] |-> JobResult(package[w], package[w][i])]
  <2>1. answers' = AfterJobs(package[w], results)
    BY <1>5 DEF PackageDone
  <2>2. \A i \in DOMAIN package[w] : RightResult(package[w][i], results[i])
    BY <1>2, JobResultIsRight
  <2> HIDE DEF results
  <2> QED BY <1>1, <1>2, <1>3, <1>4, <2>1, <2>2, AfterJobsFit DEF BlsInv, JobsAreOwn
<1>6. CASE PackageFails(w)
  <2> DEFINE results == AllErrors(package[w])
  <2>1. answers' = AfterJobs(package[w], results) /\ PoolFailed'
    BY <1>3, <1>6 DEF PackageFails, PoolFailed, BlsInv
  <2>2. \A i \in DOMAIN package[w] : RightResult(package[w][i], results[i])
    BY <2>1 DEF AllErrors, RightResult
  <2> HIDE DEF results
  <2> QED BY <1>1, <1>2, <1>3, <1>4, <2>1, <2>2, AfterJobsFit DEF BlsInv, JobsAreOwn
<1> QED BY <1>5, <1>6 DEF PackageEnds

\* The jobs of the queue are rejected.
LEMMA BlsAbortInv ==
  ASSUME BlsInv, BlsAbort
  PROVE  BlsInv'
<1> DEFINE results == AllErrors(blsJobs)
<1>1. /\ answers' = AfterJobs(blsJobs, results) /\ PoolFailed'
      /\ UNCHANGED <<bufferedJobs, package, workerErrors>>
  BY DEF BlsAbort, PoolFailed
<1>2. blsJobs \in Seq(OwnJobs) /\ blsJobs' \in Seq(OwnJobs)
  BY DEF BlsAbort, BlsInv, JobsAreOwn
<1>3. \A i \in DOMAIN blsJobs : RightResult(blsJobs[i], results[i])
  BY <1>1 DEF AllErrors, RightResult
<1> HIDE DEF results
<1> QED BY <1>1, <1>2, <1>3, AfterJobsFit DEF BlsInv, JobsAreOwn

\* Every step keeps the invariant.
LEMMA BlsStep ==
  ASSUME BlsInv, [BlsNext]_blsVars
  PROVE  BlsInv'
<1>1. CASE UNCHANGED blsVars
  <2>1. PoolFailed => PoolFailed'
    BY <1>1 DEF blsVars, PoolFailed, AllWorkersFailed
  <2>2. answers' \in [Request -> Answer] /\ AnswersFit'
    BY <1>1, <2>1, SameAnswersFit DEF blsVars
  <2> QED BY <1>1, <2>2 DEF blsVars, BlsInv, JobsAreOwn
<1>2. ASSUME NEW r \in Request, VerifySignatureSets(r, TRUE) \/ VerifySignatureSets(r, FALSE)
      PROVE  BlsInv'
  BY <1>2, VerifySignatureSetsInv
<1> QED BY <1>1, <1>2, VerifyOnMainThreadInv, RunBufferedJobsInv, RunJobInv,
           WorkerInitInv, PackageEndsInv, BlsAbortInv DEF BlsNext

\* Answers that fit are right when no part is left.
LEMMA FittingIsRight ==
  ASSUME BlsInv
  PROVE  AnswersAreRight
<1> SUFFICES ASSUME NEW r \in Request, IsSettled(r)
             PROVE  CASE answers[r].result = "valid" -> ToSet(setsOf[r]) \subseteq {"good"}
                      [] answers[r].result = "invalid" -> "wrong" \in ToSet(setsOf[r])
                      [] OTHER -> \/ "malformed" \in ToSet(setsOf[r]) \/ setsOf[r] = <<>>
                                  \/ blsAborted \/ workerErrors > 0 \/ AllWorkersFailed
  BY DEF AnswersAreRight
<1>1. /\ answers[r] \in Answer /\ AnswerFits(answers[r], r)
      /\ answers[r].result = "error" => HasBadSet(r) \/ PoolFailed
      /\ answers[r].left = {} /\ answers[r] # NotAsked
  BY DEF BlsInv, AnswersFit, IsSettled
<1>2. answers[r].result # "none"
  BY <1>1 DEF Answer, NotAsked, Settled
<1>3. answers[r].result = "valid" => ToSet(setsOf[r]) \subseteq {"good"}
  BY <1>1, PartsOfRequest DEF AnswerFits
<1>4. answers[r].result = "invalid" => "wrong" \in ToSet(setsOf[r])
  BY <1>1 DEF AnswerFits
<1>5. answers[r].result \in {"valid", "invalid", "error"}
  BY <1>1, <1>2 DEF Answer
<1> QED BY <1>1, <1>3, <1>4, <1>5 DEF HasBadSet, PoolFailed

\* In every state, every answer that was given is right.
THEOREM AnswersStayRight == BlsSpec => []AnswersAreRight
<1>1. BlsInit => BlsInv
  <2> SUFFICES ASSUME BlsInit PROVE BlsInv
    OBVIOUS
  <2>1. NotAsked \in Answer /\ NotAsked.left = {} /\ NotAsked.result = "none"
    BY DEF NotAsked, Settled, Answer
  <2>2. \A r \in Request : answers[r] = NotAsked
    BY DEF BlsInit
  <2>3. answers \in [Request -> Answer]
    BY <2>1 DEF BlsInit
  <2>4. AnswersFit
    BY <2>1, <2>2 DEF AnswersFit, AnswerFits
  <2>5. JobsAreOwn
    BY DEF BlsInit, JobsAreOwn
  <2> QED BY <2>3, <2>4, <2>5 DEF BlsInit, BlsInv
<1>2. BlsInv /\ [BlsNext]_blsVars => BlsInv'
  BY BlsStep
<1>3. BlsInv => AnswersAreRight
  BY FittingIsRight
<1> QED BY <1>1, <1>2, <1>3, PTL DEF BlsSpec

=============================================================================
