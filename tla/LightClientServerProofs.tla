---------------------- MODULE LightClientServerProofs -----------------------
(***************************************************************************)
(* Proofs about LightClientServer, for every tree of blocks and any number *)
(* of tasks, failing calls and restarts: the committee that a stored       *)
(* witness refers to is stored, about to be stored or lost, and an update  *)
(* carries the committee that follows the one of its block, unless its     *)
(* finalized block is of an earlier period.                                *)
(***************************************************************************)
EXTENDS LightClientServer, RecursionProofs, SequenceTheorems, TLAPS

-----------------------------------------------------------------------------
(* The invariants *)

Root == Block \union {ZERO_HASH}

ChainTypes ==
  /\ nodes \in Seq(Root)
  /\ archivedState \in Checkpoint
  /\ jobs \in Seq(Checkpoint)
  /\ archiving # NotArchiving => jobs # <<>>

TaskTypes ==
  /\ aggregate \in [Block -> AggregatePc]
  /\ persist \in [Block -> PersistPc]

ImportIInv == ChainTypes /\ TaskTypes

\* The node has the committees of its blocks,
NodesHaveCommittee ==
  \A b \in Block : IsNode(nodes, b) => StoredOrLost(nextSyncCommittee[b])

\* unless it has one block only, and no task stores the first committees.
HasOneBlock ==
  /\ ~storedCurrentSyncCommittee
  /\ \A b \in Block : persist[b] # "putCurrent"
  /\ \A b, c \in Block : IsNode(nodes, b) /\ IsNode(nodes, c) => b = c

\* It has those of the dependant roots it knows
KnownHaveCommittee ==
  \A b \in Block :
    CrossesPeriod(b) /\ KnowsDependantRoot(b) => StoredOrLost(nextSyncCommittee[b])

\* and those of the blocks whose witness is written.
WrittenHaveCommittee ==
  \A b \in Block :
    persist[b] = "putWitness" => StoredOrLost(nextSyncCommittee[b])

CommitteeIInv ==
  /\ NodesHaveCommittee \/ HasOneBlock
  /\ KnownHaveCommittee
  /\ WrittenHaveCommittee
  /\ WitnessHasCommittee /\ syncCommitteeWitness \subseteq Block

-----------------------------------------------------------------------------
(* Imports *)

\* No task runs at the start.
LEMMA InitImportIInv == Init => ImportIInv
<1> SUFFICES ASSUME NEW anchor \in Anchors, Init, nodes = <<anchor>>,
                    finalized = [epoch |-> AnchorEpoch(anchor), root |-> anchor]
             PROVE  ImportIInv
  BY DEF Init
<1>1. anchor \in Block /\ finalized \in Checkpoint
  <2>1. anchor \in Block /\ slotOf[anchor] \in Nat
    BY BlockTreeAssumption, LightClientServerAssumption
  <2>2. AnchorEpoch(anchor) \in Nat
    BY <2>1, BlockTreeAssumption DEF AnchorEpoch
  <2> QED BY <2>1, <2>2 DEF Checkpoint
<1>2. ChainTypes
  BY <1>1 DEF Init, ChainTypes, Root
<1> QED BY <1>2 DEF Init, ImportIInv, TaskTypes, AggregatePc, PersistPc

\* One task makes a step and the other tasks none.
AggregateSteps(b) ==
  /\ aggregate[b] \notin {"none", "done"}
  /\ \E pc \in AggregatePc : aggregate' = [aggregate EXCEPT ![b] = pc]
  /\ persist' = persist

PersistSteps(b) ==
  /\ persist[b] \notin {"none", "done", "failed"}
  /\ \E pc \in PersistPc : persist' = [persist EXCEPT ![b] = pc]
  /\ aggregate' = aggregate

\* The steps of a sync aggregate's task.
LEMMA AggregateIsStep ==
  ASSUME NEW b \in Block, Aggregate(b) \/ AggregateFails(b)
  PROVE  AggregateSteps(b) /\ UNCHANGED chain
<1>1. CASE ReadBest(b)
  <2>1. \E pc \in {"done", "putNonFinalized", "putFinalized", "readHeader"} :
          aggregate' = [aggregate EXCEPT ![b] = pc]
    BY <1>1, Zenon DEF ReadBest
  <2>2. aggregate[b] = "readBest" /\ persist' = persist /\ UNCHANGED chain
    BY <1>1 DEF ReadBest
  <2> QED BY <2>1, <2>2 DEF AggregateSteps, AggregatePc
<1>2. CASE ReadFinalizedHeader(b)
  BY <1>2 DEF ReadFinalizedHeader, AggregateSteps, AggregatePc
<1>3. CASE PutBest(b)
  BY <1>3 DEF PutBest, AggregateSteps, AggregatePc
<1>4. CASE AggregateFails(b)
  BY <1>4 DEF AggregateFails, AggregateSteps, AggregatePc
<1> QED BY <1>1, <1>2, <1>3, <1>4 DEF Aggregate

\* The steps of a task that persists.
LEMMA PersistIsStep ==
  ASSUME NEW b \in Block, Persist(b) \/ PersistFails(b)
  PROVE  PersistSteps(b) /\ UNCHANGED chain
<1>1. CASE PutCurrent(b)
  BY <1>1 DEF PutCurrent, PersistNext, PersistSteps, PersistPc
<1>2. CASE PutNext(b)
  BY <1>2 DEF PutNext, PersistSteps, PersistPc
<1>3. CASE PutWitness(b)
  BY <1>3 DEF PutWitness, PersistSteps, PersistPc
<1>4. CASE PutHeader(b)
  BY <1>4 DEF PutHeader, PersistSteps, PersistPc
<1>5. CASE PersistFails(b)
  BY <1>5 DEF PersistFails, PersistSteps, PersistPc
<1> QED BY <1>1, <1>2, <1>3, <1>4, <1>5 DEF Persist

\* What an import does to the tasks.
LEMMA ImportStarts ==
  ASSUME ImportIInv, NEW b \in Block, ImportBlock(b)
  PROVE  /\ TaskTypes'
         /\ \A c \in Block \ {b} : persist'[c] = persist[c]
         /\ aggregate'[b] \in {"readBest", "done"}
<1>1. \E pc \in {"readBest", "done"} : aggregate' = [aggregate EXCEPT ![b] = pc]
  BY DEF ImportBlock, StartAggregate
<1>2. \E pc \in PersistPc : persist' = [persist EXCEPT ![b] = pc]
  BY DEF ImportBlock, StartPersist, PersistNext, PersistPc
<1> QED BY <1>1, <1>2 DEF ImportIInv, TaskTypes, AggregatePc

\* An import adds a block and maybe a job.
LEMMA ImportKeepsTypes ==
  ASSUME ImportIInv, NEW b \in Block, ImportBlock(b)
  PROVE  ChainTypes'
<1>1. nodes' \in Seq(Root)
  BY DEF ImportBlock, ImportIInv, ChainTypes, Root
<1>2. jobs' \in Seq(Checkpoint) /\ (jobs # <<>> => jobs' # <<>>)
  <2>1. finalizedOf[b] \in Checkpoint
    BY BlockTreeAssumption
  <2>2. jobs' = jobs \/ jobs' = Append(jobs, finalizedOf[b])
    BY DEF ImportBlock
  <2> QED BY <2>1, <2>2 DEF ImportIInv, ChainTypes
<1> QED BY <1>1, <1>2 DEF ImportBlock, ImportIInv, ChainTypes

\* The archiver.
LEMMA ArchiveKeepsTypes ==
  ASSUME ImportIInv, Archive \/ ArchivingFails
  PROVE  /\ ChainTypes'
         /\ \A b : IsNode(nodes, b)' => IsNode(nodes, b)
         /\ UNCHANGED <<memory, aggregate, persist>>
<1>1. CASE StartArchiving
  BY <1>1 DEF StartArchiving, ImportIInv, ChainTypes, IsNode
<1>2. CASE DeleteWitnesses \/ DeleteHeaders
  <2>1. archiving # NotArchiving
    BY <1>2 DEF DeleteWitnesses, DeleteHeaders, NotArchiving
  <2> QED BY <1>2, <2>1 DEF DeleteWitnesses, DeleteHeaders, ImportIInv, ChainTypes, IsNode
<1>3. CASE FinishArchiving
  <2> DEFINE first == NodeIndex(nodes, archiving.root)
  <2>1. jobs # <<>> /\ Head(jobs) \in Checkpoint /\ Tail(jobs) \in Seq(Checkpoint)
    BY <1>3 DEF FinishArchiving, ImportIInv, ChainTypes
  <2>2. nodes \in Seq(Root) /\ first \in DOMAIN nodes
    BY <1>3 DEF FinishArchiving, ImportIInv, ChainTypes, IsNode, NodeIndex
  <2>3. nodes' = SubSeq(nodes, first, Len(nodes))
    BY <1>3 DEF FinishArchiving, PruneNodes
  <2> HIDE DEF first
  <2>4. /\ nodes' \in Seq(Root)
        /\ \A i \in DOMAIN nodes' : \E j \in DOMAIN nodes : nodes'[i] = nodes[j]
    <3>1. first \in Nat /\ 1 <= first /\ first <= Len(nodes) /\ Len(nodes) \in Nat
      BY <2>2
    <3>2. DOMAIN nodes' = 1..(Len(nodes) - first + 1)
      BY <2>2, <2>3, <3>1
    <3>3. \A i \in DOMAIN nodes' : nodes'[i] = nodes[first + i - 1]
                                   /\ first + i - 1 \in DOMAIN nodes
      BY <2>2, <2>3, <3>1, <3>2
    <3> QED BY <2>2, <2>3, <3>1, <3>3
  <2>5. \A b : IsNode(nodes, b)' => IsNode(nodes, b)
    BY <2>4 DEF IsNode
  <2> QED BY <1>3, <2>1, <2>4, <2>5 DEF FinishArchiving, ImportIInv, ChainTypes
<1>4. CASE ArchivingFails
  <2>1. jobs # <<>> /\ Tail(jobs) \in Seq(Checkpoint)
    BY <1>4 DEF ArchivingFails, ImportIInv, ChainTypes
  <2> QED BY <1>4, <2>1 DEF ArchivingFails, ImportIInv, ChainTypes, IsNode
<1> QED BY <1>1, <1>2, <1>3, <1>4 DEF Archive

\* Every step keeps the types.
LEMMA NextImportIInv == ImportIInv /\ [Next]_vars => ImportIInv'
<1> SUFFICES ASSUME ImportIInv, [Next]_vars PROVE ImportIInv'
  OBVIOUS
<1>1. ASSUME NEW b \in Block, ImportBlock(b)
      PROVE  ImportIInv'
  BY <1>1, ImportStarts, ImportKeepsTypes DEF ImportIInv
<1>2. ASSUME NEW b \in Block,
             Aggregate(b) \/ AggregateFails(b) \/ Persist(b) \/ PersistFails(b)
      PROVE  ImportIInv'
  <2>1. /\ AggregateSteps(b) \/ PersistSteps(b)
        /\ UNCHANGED chain
    BY <1>2, AggregateIsStep, PersistIsStep
  <2>2. ChainTypes'
    BY <2>1 DEF chain, ImportIInv, ChainTypes
  <2>3. TaskTypes'
    BY <2>1 DEF ImportIInv, TaskTypes, AggregateSteps, PersistSteps
  <2> QED BY <2>2, <2>3 DEF ImportIInv
<1>3. CASE Archive \/ ArchivingFails
  BY <1>3, ArchiveKeepsTypes DEF ImportIInv, TaskTypes
<1>4. CASE Restart
  <2>1. ChainTypes'
    BY <1>4 DEF Restart, ImportIInv, ChainTypes, Checkpoint, Root
  <2> QED BY <1>4, <2>1 DEF Restart, ImportIInv, TaskTypes, AggregatePc, PersistPc
<1>5. CASE UNCHANGED vars
  BY <1>5 DEF vars, chain, ImportIInv, ChainTypes, TaskTypes
<1> QED BY <1>1, <1>2, <1>3, <1>4, <1>5 DEF Next

-----------------------------------------------------------------------------
(* Ancestry *)

\* f is PathOf for the blocks before the slot n.
PathUpTo(f, n) ==
  \A b \in Block : slotOf[b] < n =>
    f[b] = IF parentOf[b] = b THEN <<b>> ELSE <<b>> \o f[parentOf[b]]

\* A block is its own parent or comes after it.
LEMMA ParentIsBefore ==
  ASSUME NEW b \in Block
  PROVE  /\ slotOf[b] \in Nat /\ parentOf[b] \in Block /\ slotOf[parentOf[b]] \in Nat
         /\ parentOf[b] # b => slotOf[parentOf[b]] < slotOf[b]
BY BlockTreeAssumption

\* Two such functions agree.
LEMMA PathsAgree ==
  ASSUME NEW n \in Nat, NEW f, NEW g, PathUpTo(f, n), PathUpTo(g, n)
  PROVE  \A b \in Block : slotOf[b] < n => f[b] = g[b]
<1> DEFINE Agreed == {k \in 0..n : \A b \in Block : slotOf[b] < k => f[b] = g[b]}
<1>1. 0 \in Agreed
  BY ParentIsBefore
<1>2. ASSUME NEW k \in 0..(n - 1), k \in Agreed
      PROVE  k + 1 \in Agreed
  <2>1. ASSUME NEW b \in Block, slotOf[b] < k + 1
        PROVE  f[b] = g[b]
    <3>1. slotOf[b] < n
      BY <2>1, ParentIsBefore
    <3>2. parentOf[b] # b => f[parentOf[b]] = g[parentOf[b]]
      <4>1. parentOf[b] # b => slotOf[parentOf[b]] < k
        BY <2>1, ParentIsBefore
      <4> QED BY <1>2, <4>1, ParentIsBefore
    <3> QED BY <3>1, <3>2 DEF PathUpTo
  <2> QED BY <2>1
<1>3. 0..n \subseteq Agreed
  <2> HIDE DEF Agreed
  <2> QED BY <1>1, <1>2, Induction
<1> QED BY <1>3

\* For every slot there is one.
LEMMA PathsExist ==
  ASSUME NEW n \in Nat
  PROVE  \E f : PathUpTo(f, n)
<1> DEFINE Reached == {k \in 0..n : \E f : PathUpTo(f, k)}
<1>1. 0 \in Reached
  BY ParentIsBefore DEF PathUpTo
<1>2. ASSUME NEW k \in 0..(n - 1), k \in Reached
      PROVE  k + 1 \in Reached
  <2>1. PICK f : PathUpTo(f, k)
    BY <1>2
  <2> DEFINE g == [b \in Block |-> IF parentOf[b] = b THEN <<b>>
                                   ELSE <<b>> \o f[parentOf[b]]]
  <2>2. \A b \in Block : slotOf[b] < k => g[b] = f[b]
    BY <2>1 DEF PathUpTo
  <2>3. ASSUME NEW b \in Block, slotOf[b] < k + 1, parentOf[b] # b
        PROVE  g[parentOf[b]] = f[parentOf[b]]
    <3>1. parentOf[b] \in Block /\ slotOf[parentOf[b]] < k
      BY <2>3, ParentIsBefore
    <3> HIDE DEF g
    <3> QED BY <2>2, <3>1
  <2>4. PathUpTo(g, k + 1)
    <3>1. \A b \in Block : g[b] = IF parentOf[b] = b THEN <<b>>
                                  ELSE <<b>> \o f[parentOf[b]]
      OBVIOUS
    <3> HIDE DEF g
    <3> QED BY <2>3, <3>1 DEF PathUpTo
  <2> HIDE DEF g
  <2> QED BY <2>4
<1>3. 0..n \subseteq Reached
  <2> HIDE DEF Reached
  <2> QED BY <1>1, <1>2, Induction
<1> QED BY <1>3

\* The recursion of PathOf is well defined.
LEMMA PathSteps ==
  /\ DOMAIN PathOf = Block
  /\ \A b \in Block :
       PathOf[b] = IF parentOf[b] = b THEN <<b>> ELSE <<b>> \o PathOf[parentOf[b]]
<1> DEFINE some(n) == CHOOSE f : PathUpTo(f, n)
           path == [b \in Block |-> some(slotOf[b] + 1)[b]]
           Grown(f) == [b \in Block |-> IF parentOf[b] = b THEN <<b>>
                                        ELSE <<b>> \o f[parentOf[b]]]
<1>1. ASSUME NEW n \in Nat PROVE PathUpTo(some(n), n)
  BY PathsExist
<1> HIDE DEF some
<1>2. ASSUME NEW b \in Block
      PROVE  path[b] = IF parentOf[b] = b THEN <<b>> ELSE <<b>> \o path[parentOf[b]]
  <2> DEFINE n == slotOf[b] + 1
             p == parentOf[b]
             m == slotOf[p] + 1
  <2>1. n \in Nat /\ m \in Nat /\ slotOf[b] < n /\ p \in Block /\ slotOf[p] < m /\ m <= n
    BY ParentIsBefore
  <2>2. some(n)[b] = IF p = b THEN <<b>> ELSE <<b>> \o some(n)[p]
    BY <1>1, <2>1 DEF PathUpTo
  <2>3. some(n)[p] = some(m)[p]
    <3>1. PathUpTo(some(n), m)
      <4>1. \A c \in Block : slotOf[c] < m => slotOf[c] < n
        BY <2>1, ParentIsBefore
      <4>2. PathUpTo(some(n), n)
        BY <1>1, <2>1
      <4> HIDE DEF n, m
      <4> QED BY <4>1, <4>2 DEF PathUpTo
    <3>2. PathUpTo(some(m), m)
      BY <1>1, <2>1
    <3> HIDE DEF n, m, p
    <3> QED BY <2>1, <3>1, <3>2, PathsAgree
  <2>4. path[b] = some(n)[b] /\ path[p] = some(m)[p]
    BY <2>1
  <2> HIDE DEF path, n, m
  <2> QED BY <2>2, <2>3, <2>4
<1>3. path = Grown(path)
  BY <1>2
<1>4. \E f : f = Grown(f)
  <2> HIDE DEF path, Grown
  <2> QED BY <1>3
<1>5. PathOf = Grown(PathOf)
  BY <1>4 DEF PathOf
<1> HIDE DEF path
<1> QED BY <1>5

\* Induction along the chains.
LEMMA ChainInduction ==
  ASSUME NEW T, \A b \in Block : parentOf[b] = b \/ parentOf[b] \in T => b \in T
  PROVE  Block \subseteq T
<1> SUFFICES ASSUME NEW b \in Block PROVE b \in T
  OBVIOUS
<1> DEFINE n == slotOf[b] + 1
           Reached == {k \in 0..n : \A c \in Block : slotOf[c] < k => c \in T}
<1>1. n \in Nat /\ slotOf[b] < n
  BY ParentIsBefore
<1>2. 0 \in Reached
  BY <1>1, ParentIsBefore
<1>3. ASSUME NEW k \in 0..(n - 1), k \in Reached
      PROVE  k + 1 \in Reached
  <2>1. ASSUME NEW c \in Block, slotOf[c] < k + 1
        PROVE  c \in T
    <3>1. parentOf[c] # c => slotOf[parentOf[c]] < k
      BY <1>1, <2>1, ParentIsBefore
    <3>2. parentOf[c] = c \/ parentOf[c] \in T
      BY <1>3, <3>1, ParentIsBefore
    <3> QED BY <3>2
  <2>2. k + 1 \in 0..n
    BY <1>1
  <2> QED BY <2>1, <2>2
<1>4. 0..n \subseteq Reached
  <2> HIDE DEF Reached, n
  <2> QED BY <1>1, <1>2, <1>3, Induction
<1>5. n \in Reached
  <2> HIDE DEF Reached, n
  <2> QED BY <1>1, <1>4
<1> HIDE DEF n
<1> QED BY <1>1, <1>5

\* A path is a sequence of blocks.
LEMMA PathIsSeq == \A b \in Block : PathOf[b] \in Seq(Block)
<1> DEFINE T == {b \in Block : PathOf[b] \in Seq(Block)}
<1>1. ASSUME NEW b \in Block, parentOf[b] = b \/ parentOf[b] \in T
      PROVE  b \in T
  <2>1. <<b>> \in Seq(Block)
    OBVIOUS
  <2>2. CASE parentOf[b] = b
    BY <2>1, <2>2, PathSteps
  <2>3. CASE parentOf[b] # b
    <3>1. PathOf[parentOf[b]] \in Seq(Block)
      BY <1>1, <2>3
    <3>2. PathOf[b] = <<b>> \o PathOf[parentOf[b]]
      BY <2>3, PathSteps
    <3>3. \A s, t \in Seq(Block) : s \o t \in Seq(Block)
      OBVIOUS
    <3>4. <<b>> \o PathOf[parentOf[b]] \in Seq(Block)
      BY <2>1, <3>1, <3>3, Zenon
    <3> QED BY <1>1, <3>2, <3>4, Zenon
  <2> QED BY <2>2, <2>3
<1> HIDE DEF T
<1>2. Block \subseteq T
  BY <1>1, ChainInduction
<1> QED BY <1>2 DEF T

\* A block's ancestors are the block and its parent's ancestors.
LEMMA AncestorSteps ==
  ASSUME NEW a, NEW b \in Block
  PROVE  IsAncestorOrSelf(a, b)
           <=> \/ a = b
               \/ parentOf[b] # b /\ IsAncestorOrSelf(a, parentOf[b])
<1> DEFINE q == PathOf[parentOf[b]]
<1>1. CASE parentOf[b] = b
  <2>1. PathOf[b] = <<b>>
    BY <1>1, PathSteps
  <2> QED BY <1>1, <2>1 DEF IsAncestorOrSelf
<1>2. CASE parentOf[b] # b
  <2>1. PathOf[b] = <<b>> \o q /\ q \in Seq(Block)
    BY <1>2, PathSteps, PathIsSeq, ParentIsBefore
  <2> HIDE DEF q
  <2>2. /\ Len(q) \in Nat /\ DOMAIN q = 1..Len(q)
        /\ DOMAIN PathOf[b] = 1..(Len(q) + 1)
        /\ \A i \in 1..(Len(q) + 1) : PathOf[b][i] = IF i = 1 THEN b ELSE q[i - 1]
    BY <2>1
  <2>3. ASSUME IsAncestorOrSelf(a, b) PROVE a = b \/ \E i \in DOMAIN q : q[i] = a
    <3>1. PICK i \in 1..(Len(q) + 1) : PathOf[b][i] = a
      BY <2>2, <2>3 DEF IsAncestorOrSelf
    <3>2. i = 1 \/ i - 1 \in 1..Len(q)
      BY <2>2
    <3> QED BY <2>2, <3>1, <3>2
  <2>4. ASSUME a = b \/ \E i \in DOMAIN q : q[i] = a PROVE IsAncestorOrSelf(a, b)
    <3>1. CASE a = b
      BY <2>2, <3>1 DEF IsAncestorOrSelf
    <3>2. CASE \E i \in DOMAIN q : q[i] = a
      <4>1. PICK i \in 1..Len(q) : q[i] = a
        BY <2>2, <3>2
      <4>2. i + 1 \in 1..(Len(q) + 1) /\ PathOf[b][i + 1] = a
        BY <2>2, <4>1
      <4> QED BY <2>2, <4>2 DEF IsAncestorOrSelf
    <3> QED BY <2>4, <3>1, <3>2
  <2> QED BY <1>2, <2>3, <2>4 DEF IsAncestorOrSelf, q
<1> QED BY <1>1, <1>2

\* Dividing keeps the order.
LEMMA DivisionKeepsOrder ==
  ASSUME NEW x \in Nat, NEW y \in Nat, y <= x, NEW d \in Nat \ {0}
  PROVE  x \div d \in Nat /\ y \div d \in Nat /\ y \div d <= x \div d
BY Z3

\* The parent is not of a later period.
LEMMA PeriodsAscend ==
  ASSUME NEW b \in Block
  PROVE  /\ Period(b) \in Nat /\ Period(parentOf[b]) \in Nat
         /\ Period(parentOf[b]) <= Period(b)
<1> DEFINE s == slotOf[b]
           p == slotOf[parentOf[b]]
           E == EPOCHS_PER_SYNC_COMMITTEE_PERIOD
           S == SLOTS_PER_EPOCH
<1>1. S \in Nat \ {0} /\ E \in Nat \ {0} /\ s \in Nat /\ p \in Nat /\ p <= s
  BY BlockTreeAssumption
<1>2. Period(b) = (s \div S) \div E /\ Period(parentOf[b]) = (p \div S) \div E
  BY DEF Period, PeriodAtSlot, PeriodAtEpoch, EpochAtSlot
<1> HIDE DEF S, E, s, p
<1>3. s \div S \in Nat /\ p \div S \in Nat /\ p \div S <= s \div S
  BY <1>1, DivisionKeepsOrder
<1>4. (s \div S) \div E \in Nat /\ (p \div S) \div E \in Nat
      /\ (p \div S) \div E <= (s \div S) \div E
  BY <1>1, <1>3, DivisionKeepsOrder
<1> QED BY <1>2, <1>4

\* A block and its ancestors of the same period have the same next committee.
LEMMA PeriodHasOneCommittee ==
  ASSUME NEW a, NEW b \in Block, IsAncestorOrSelf(a, b)
  PROVE  /\ a \in Block /\ Period(a) <= Period(b)
         /\ Period(a) = Period(b) => nextSyncCommittee[a] = nextSyncCommittee[b]
<1> DEFINE Fits(c, d) == /\ c \in Block /\ Period(c) \in Nat /\ Period(c) <= Period(d)
                         /\ Period(c) = Period(d)
                              => nextSyncCommittee[c] = nextSyncCommittee[d]
           T == {d \in Block : IsAncestorOrSelf(a, d) => Fits(a, d)}
<1>1. ASSUME NEW d \in Block, parentOf[d] = d \/ parentOf[d] \in T
      PROVE  d \in T
  <2> SUFFICES ASSUME IsAncestorOrSelf(a, d) PROVE Fits(a, d)
    OBVIOUS
  <2>1. Period(d) \in Nat /\ Period(parentOf[d]) \in Nat /\ Period(parentOf[d]) <= Period(d)
    BY PeriodsAscend
  <2>2. CASE a = d
    BY <2>1, <2>2
  <2>3. CASE a # d
    <3>1. parentOf[d] # d /\ IsAncestorOrSelf(a, parentOf[d])
      BY <2>3, AncestorSteps
    <3>2. Fits(a, parentOf[d])
      BY <1>1, <3>1
    <3>3. Period(d) = Period(parentOf[d])
            => nextSyncCommittee[d] = nextSyncCommittee[parentOf[d]]
      BY SyncCommitteeAssumption
    <3> QED BY <2>1, <3>2, <3>3
  <2> QED BY <2>2, <2>3
<1> HIDE DEF T
<1>2. Block \subseteq T
  BY <1>1, ChainInduction
<1> QED BY <1>2 DEF T

-----------------------------------------------------------------------------
(* The committees that witnesses refer to *)

\* A chain without a gap of a whole period.
NoPeriodSkipped ==
  \A b \in Block : Period(b) <= Period(parentOf[b]) + 1

\* A block whose state is of its parent's period, or of the next one.
LEMMA PeriodOfParent ==
  ASSUME NoPeriodSkipped, NEW b \in Block
  PROVE  /\ parentOf[b] \in Block
         /\ ~CrossesPeriod(b) => nextSyncCommittee[b] = nextSyncCommittee[parentOf[b]]
         /\ CrossesPeriod(b) => currentSyncCommittee[b] = nextSyncCommittee[parentOf[b]]
<1>1. parentOf[b] \in Block
  BY ParentIsBefore
<1>2. /\ Period(b) \in Nat /\ Period(parentOf[b]) \in Nat
      /\ Period(parentOf[b]) <= Period(b)
  BY PeriodsAscend
<1>3. Period(b) <= Period(parentOf[b]) + 1
  BY DEF NoPeriodSkipped
<1>4. Period(b) = Period(parentOf[b]) \/ Period(b) = Period(parentOf[b]) + 1
  BY <1>2, <1>3
<1> QED BY <1>1, <1>2, <1>4, SyncCommitteeAssumption DEF CrossesPeriod

\* The node starts with one block and no witness.
LEMMA InitCommitteeIInv == Init => CommitteeIInv
<1> SUFFICES ASSUME Init PROVE CommitteeIInv
  OBVIOUS
<1>1. HasOneBlock
  BY DEF Init, HasOneBlock, IsNode
<1> QED BY <1>1 DEF Init, CommitteeIInv, KnownHaveCommittee, WrittenHaveCommittee,
                    WitnessHasCommittee, KnowsDependantRoot

\* A committee that is stored, about to be stored or lost stays so.
LEMMA StepKeepsCommittees ==
  ASSUME ImportIInv, [Next]_vars, NEW c, StoredOrLost(c)
  PROVE  StoredOrLost(c)'
<1> DEFINE Had == syncCommittee \union lostCommittees
<1>1. ASSUME Had \subseteq Had',
             \A b \in Block : c \in Storing(b) => c \in Had' \/ persist'[b] = persist[b]
      PROVE  StoredOrLost(c)'
  BY <1>1 DEF StoredOrLost, Storing
<1>2. ASSUME NEW b \in Block, ImportBlock(b)
      PROVE  StoredOrLost(c)'
  <2>1. Had' = Had
    BY <1>2 DEF ImportBlock, db, history
  <2>2. Storing(b) = {}
    BY <1>2 DEF ImportBlock, IsImporting, Storing
  <2> QED BY <1>1, <1>2, <2>1, <2>2, ImportStarts
<1>3. ASSUME NEW b \in Block, Aggregate(b) \/ AggregateFails(b)
      PROVE  StoredOrLost(c)'
  <2>1. persist' = persist
    BY <1>3, AggregateIsStep DEF AggregateSteps
  <2>2. Had' = Had
    BY <1>3 DEF Aggregate, ReadBest, ReadFinalizedHeader, PutBest, AggregateFails, db, history
  <2> QED BY <1>1, <2>1, <2>2
<1>4. ASSUME NEW b \in Block, Persist(b) \/ PersistFails(b)
      PROVE  StoredOrLost(c)'
  <2>1. \A d \in Block \ {b} : persist'[d] = persist[d]
    BY <1>4, PersistIsStep DEF PersistSteps, ImportIInv, TaskTypes
  <2>2. Had \subseteq Had' /\ Storing(b) \subseteq Had'
    <3>1. CASE PutCurrent(b)
      BY <3>1 DEF PutCurrent, Storing, history
    <3>2. CASE PutNext(b)
      BY <3>2 DEF PutNext, Storing, history
    <3>3. CASE PutWitness(b) \/ PutHeader(b)
      BY <3>3 DEF PutWitness, PutHeader, Storing, history
    <3>4. CASE PersistFails(b)
      BY <3>4 DEF PersistFails
    <3> QED BY <1>4, <3>1, <3>2, <3>3, <3>4 DEF Persist
  <2> QED BY <1>1, <2>1, <2>2
<1>5. CASE Archive \/ ArchivingFails
  <2>1. persist' = persist
    BY <1>5, ArchiveKeepsTypes
  <2>2. Had' = Had
    BY <1>5 DEF Archive, StartArchiving, DeleteWitnesses, DeleteHeaders, FinishArchiving,
                ArchivingFails, db, history
  <2> QED BY <1>1, <2>1, <2>2
<1>6. CASE Restart
  <2>1. Had \subseteq Had' /\ \A b \in Block : Storing(b) \subseteq Had'
    BY <1>6 DEF Restart, db
  <2> QED BY <1>1, <2>1
<1>7. CASE UNCHANGED vars
  BY <1>1, <1>7 DEF vars, db, history
<1> QED BY <1>2, <1>3, <1>4, <1>5, <1>6, <1>7 DEF Next

\* An import adds one node, whose parent is a node.
LEMMA ImportAddsNode ==
  ASSUME ImportIInv, NEW b \in Block, ImportBlock(b)
  PROVE  /\ parentOf[b] \in Block /\ IsNode(nodes, parentOf[b])
         /\ \A c \in Block : IsNode(nodes, c)' => IsNode(nodes, c) \/ c = b
<1>1. nodes \in Seq(Root) /\ nodes' = Append(nodes, b) /\ b \in Root
  BY DEF ImportIInv, ChainTypes, ImportBlock, Root
<1>2. Len(nodes') = Len(nodes) + 1 /\ Len(nodes) \in Nat
      /\ \A i \in DOMAIN nodes' : IF i = Len(nodes) + 1 THEN nodes'[i] = b
                                  ELSE i \in DOMAIN nodes /\ nodes'[i] = nodes[i]
  BY <1>1
<1> QED BY <1>2, ParentIsBefore DEF IsNode, ImportBlock

\* An import stores the committees of its block, finds them stored or has them
\* from the parent.
LEMMA ImportCommitteeIInv ==
  ASSUME NoPeriodSkipped, ImportIInv, CommitteeIInv, [Next]_vars,
         NEW b \in Block, ImportBlock(b)
  PROVE  CommitteeIInv'
<1> DEFINE NextOf(c) == nextSyncCommittee[c]
<1>1. /\ syncCommitteeWitness' = syncCommitteeWitness
      /\ storedCurrentSyncCommittee' = storedCurrentSyncCommittee
  BY DEF ImportBlock, db, witnessDb
<1>2. \A c \in Block \ {b} : persist'[c] = persist[c]
  BY ImportStarts
<1>3. ASSUME StoredOrLost(NextOf(b))',
             \A c \in Block : IsNode(nodes, c) => StoredOrLost(NextOf(c))',
             \/ knownSyncCommittee' = knownSyncCommittee
             \/ knownSyncCommittee' = knownSyncCommittee \union {<<Period(b), parentOf[b]>>}
      PROVE  CommitteeIInv'
  <2>1. NodesHaveCommittee'
    BY <1>3, ImportAddsNode DEF NodesHaveCommittee
  <2>2. KnownHaveCommittee'
    <3> SUFFICES ASSUME NEW c \in Block, CrossesPeriod(c), KnowsDependantRoot(c)'
                 PROVE  StoredOrLost(NextOf(c))'
      BY DEF KnownHaveCommittee
    <3>1. CASE KnowsDependantRoot(c)
      BY <3>1, StepKeepsCommittees DEF CommitteeIInv, KnownHaveCommittee
    <3>2. CASE ~KnowsDependantRoot(c)
      <4>1. Period(c) = Period(b) /\ parentOf[c] = parentOf[b]
        BY <1>3, <3>2 DEF KnowsDependantRoot
      <4>2. NextOf(c) = NextOf(b)
        BY <4>1, SyncCommitteeAssumption
      <4> QED BY <1>3, <4>2
    <3> QED BY <3>1, <3>2
  <2>3. WrittenHaveCommittee'
    BY <1>2, <1>3, StepKeepsCommittees DEF CommitteeIInv, WrittenHaveCommittee
  <2>4. WitnessHasCommittee'
    BY <1>1, StepKeepsCommittees DEF CommitteeIInv, WitnessHasCommittee
  <2> QED BY <1>1, <2>1, <2>2, <2>3, <2>4 DEF CommitteeIInv
<1>4. CASE ~storedCurrentSyncCommittee
  <2>1. persist'[b] = "putCurrent" /\ knownSyncCommittee' = knownSyncCommittee
    BY <1>4 DEF ImportBlock, StartPersist, ImportIInv, TaskTypes
  <2>2. StoredOrLost(NextOf(b))' /\ StoredOrLost(currentSyncCommittee[b])'
    BY <2>1 DEF StoredOrLost, Storing
  <2>3. StoredOrLost(NextOf(parentOf[b]))'
    BY <2>2, PeriodOfParent
  <2>4. \A c \in Block : IsNode(nodes, c) => StoredOrLost(NextOf(c))'
    <3>1. CASE NodesHaveCommittee
      BY <3>1, StepKeepsCommittees DEF NodesHaveCommittee
    <3>2. CASE HasOneBlock
      BY <2>3, <3>2, ImportAddsNode DEF HasOneBlock
    <3> QED BY <3>1, <3>2 DEF CommitteeIInv
  <2> QED BY <1>3, <2>1, <2>2, <2>4
<1>5. CASE storedCurrentSyncCommittee
  <2>1. PersistNext(b)
    BY <1>5 DEF ImportBlock, StartPersist
  <2>2. /\ NodesHaveCommittee
        /\ \A c \in Block : IsNode(nodes, c) => StoredOrLost(NextOf(c))'
    BY <1>5, StepKeepsCommittees DEF CommitteeIInv, HasOneBlock, NodesHaveCommittee
  <2>3. CASE CrossesPeriod(b) /\ ~KnowsDependantRoot(b)
    <3>1. /\ persist'[b] = "putNext"
          /\ knownSyncCommittee' = knownSyncCommittee \union {<<Period(b), parentOf[b]>>}
      BY <2>1, <2>3 DEF PersistNext, ImportIInv, TaskTypes
    <3>2. StoredOrLost(NextOf(b))'
      BY <3>1 DEF StoredOrLost, Storing
    <3> QED BY <1>3, <2>2, <3>1, <3>2
  <2>4. CASE ~(CrossesPeriod(b) /\ ~KnowsDependantRoot(b))
    <3>1. knownSyncCommittee' = knownSyncCommittee
      BY <2>1, <2>4 DEF PersistNext
    <3>2. StoredOrLost(NextOf(b))
      <4>1. CASE CrossesPeriod(b)
        BY <2>4, <4>1 DEF CommitteeIInv, KnownHaveCommittee
      <4>2. CASE ~CrossesPeriod(b)
        BY <2>2, <4>2, PeriodOfParent, ImportAddsNode DEF NodesHaveCommittee
      <4> QED BY <4>1, <4>2
    <3> QED BY <1>3, <2>2, <3>1, <3>2, StepKeepsCommittees
  <2> QED BY <2>3, <2>4
<1> QED BY <1>4, <1>5

\* A step that imports nothing: nodes and witnesses may be fewer, a witness is
\* written for a task that may write one.
LEMMA OtherCommitteeIInv ==
  ASSUME ImportIInv, CommitteeIInv, [Next]_vars,
         \A c : IsNode(nodes, c)' => IsNode(nodes, c),
         NodesHaveCommittee
           \/ /\ storedCurrentSyncCommittee' = storedCurrentSyncCommittee
              /\ \A c \in Block : persist'[c] = "putCurrent" => persist[c] = "putCurrent",
         \A c \in Block : CrossesPeriod(c) /\ KnowsDependantRoot(c)'
           => KnowsDependantRoot(c) \/ StoredOrLost(nextSyncCommittee[c])',
         \A c \in Block : persist'[c] = "putWitness"
           => persist[c] = "putWitness" \/ StoredOrLost(nextSyncCommittee[c])',
         \A c \in syncCommitteeWitness' :
           \/ c \in syncCommitteeWitness
           \/ c \in Block /\ persist[c] = "putWitness"
  PROVE  CommitteeIInv'
<1>1. NodesHaveCommittee' \/ HasOneBlock'
  <2>1. CASE NodesHaveCommittee
    BY <2>1, StepKeepsCommittees DEF NodesHaveCommittee
  <2>2. CASE ~NodesHaveCommittee
    BY <2>2 DEF CommitteeIInv, HasOneBlock
  <2> QED BY <2>1, <2>2
<1>2. KnownHaveCommittee'
  BY StepKeepsCommittees DEF CommitteeIInv, KnownHaveCommittee
<1>3. WrittenHaveCommittee'
  BY StepKeepsCommittees DEF CommitteeIInv, WrittenHaveCommittee
<1>4. WitnessHasCommittee' /\ syncCommitteeWitness' \subseteq Block
  BY StepKeepsCommittees DEF CommitteeIInv, WrittenHaveCommittee, WitnessHasCommittee
<1> QED BY <1>1, <1>2, <1>3, <1>4 DEF CommitteeIInv

\* The task of a block stores committees before it writes the witness.
LEMMA PersistCommitteeIInv ==
  ASSUME ImportIInv, CommitteeIInv, [Next]_vars, NEW b \in Block,
         Persist(b) \/ PersistFails(b)
  PROVE  CommitteeIInv'
<1>1. /\ nodes' = nodes
      /\ \A c \in Block \ {b} : persist'[c] = persist[c]
  BY PersistIsStep DEF PersistSteps, ImportIInv, TaskTypes, chain
<1>2. \A c : IsNode(nodes, c)' => IsNode(nodes, c)
  BY <1>1 DEF IsNode
<1>3. CASE PutCurrent(b)
  <2>1. /\ persist[b] = "putCurrent" /\ persist'[b] \in {"putNext", "putWitness"}
        /\ nextSyncCommittee[b] \in syncCommittee'
        /\ syncCommitteeWitness' = syncCommitteeWitness
        /\ \/ knownSyncCommittee' = knownSyncCommittee
           \/ knownSyncCommittee' = knownSyncCommittee \union {<<Period(b), parentOf[b]>>}
    BY <1>3 DEF PutCurrent, PersistNext, ImportIInv, TaskTypes, witnessDb
  <2>2. NodesHaveCommittee
    BY <2>1 DEF CommitteeIInv, HasOneBlock
  <2>3. StoredOrLost(nextSyncCommittee[b])'
    BY <2>1 DEF StoredOrLost
  <2>4. ASSUME NEW c \in Block, KnowsDependantRoot(c)', ~KnowsDependantRoot(c)
        PROVE  StoredOrLost(nextSyncCommittee[c])'
    <3>1. Period(c) = Period(b) /\ parentOf[c] = parentOf[b]
      BY <2>1, <2>4 DEF KnowsDependantRoot
    <3>2. nextSyncCommittee[c] = nextSyncCommittee[b]
      BY <3>1, SyncCommitteeAssumption
    <3> QED BY <2>3, <3>2
  <2> QED BY <1>1, <1>2, <2>1, <2>2, <2>3, <2>4, OtherCommitteeIInv
<1>4. CASE ~PutCurrent(b)
  <2>1. storedCurrentSyncCommittee' = storedCurrentSyncCommittee
        /\ knownSyncCommittee' = knownSyncCommittee
    BY <1>4 DEF Persist, PutNext, PutWitness, PutHeader, PersistFails, memory
  <2>2. persist'[b] # "putCurrent"
    BY <1>4 DEF Persist, PutNext, PutWitness, PutHeader, PersistFails, ImportIInv, TaskTypes
  <2>3. persist'[b] = "putWitness" => StoredOrLost(nextSyncCommittee[b])'
    <3>1. CASE PutNext(b)
      BY <3>1 DEF PutNext, StoredOrLost
    <3>2. CASE ~PutNext(b)
      BY <1>4, <3>2 DEF Persist, PutWitness, PutHeader, PersistFails, ImportIInv, TaskTypes
    <3> QED BY <3>1, <3>2
  <2>4. \A c \in syncCommitteeWitness' :
          \/ c \in syncCommitteeWitness
          \/ c \in Block /\ persist[c] = "putWitness"
    BY <1>4 DEF Persist, PutNext, PutWitness, PutHeader, PersistFails, witnessDb
  <2>5. \A c \in Block : KnowsDependantRoot(c)' => KnowsDependantRoot(c)
    BY <2>1 DEF KnowsDependantRoot
  <2> QED BY <1>1, <1>2, <2>1, <2>2, <2>3, <2>4, <2>5, OtherCommitteeIInv
<1> QED BY <1>3, <1>4

\* Every step keeps the committees of witnesses stored, about to be or lost.
LEMMA NextCommitteeIInv ==
  NoPeriodSkipped /\ ImportIInv /\ CommitteeIInv /\ [Next]_vars => CommitteeIInv'
<1> SUFFICES ASSUME NoPeriodSkipped, ImportIInv, CommitteeIInv, [Next]_vars
             PROVE  CommitteeIInv'
  OBVIOUS
<1>1. ASSUME persist' = persist, UNCHANGED <<storedCurrentSyncCommittee, knownSyncCommittee>>,
             \A c : IsNode(nodes, c)' => IsNode(nodes, c),
             syncCommitteeWitness' \subseteq syncCommitteeWitness
      PROVE  CommitteeIInv'
  BY <1>1, OtherCommitteeIInv DEF KnowsDependantRoot
<1>2. ASSUME NEW b \in Block, Aggregate(b) \/ AggregateFails(b)
      PROVE  CommitteeIInv'
  <2>1. persist' = persist /\ nodes' = nodes
    BY <1>2, AggregateIsStep DEF AggregateSteps, chain
  <2>2. /\ storedCurrentSyncCommittee' = storedCurrentSyncCommittee
        /\ knownSyncCommittee' = knownSyncCommittee
        /\ syncCommitteeWitness' = syncCommitteeWitness
    BY <1>2 DEF Aggregate, ReadBest, ReadFinalizedHeader, PutBest, AggregateFails,
                memory, db, witnessDb
  <2> QED BY <1>1, <2>1, <2>2 DEF IsNode
<1>3. CASE Archive \/ ArchivingFails
  <2>1. /\ UNCHANGED <<memory, persist>>
        /\ \A c : IsNode(nodes, c)' => IsNode(nodes, c)
    BY <1>3, ArchiveKeepsTypes
  <2>2. syncCommitteeWitness' \subseteq syncCommitteeWitness
    BY <1>3 DEF Archive, StartArchiving, DeleteWitnesses, DeleteHeaders, FinishArchiving,
                ArchivingFails, db, witnessDb
  <2> QED BY <1>1, <2>1, <2>2 DEF memory
<1>4. CASE Restart
  <2>1. /\ nodes' = <<archivedState.root>>
        /\ storedCurrentSyncCommittee' = FALSE /\ knownSyncCommittee' = {}
        /\ \A b \in Block : persist'[b] = "none"
        /\ syncCommitteeWitness' = syncCommitteeWitness
    BY <1>4 DEF Restart, db, witnessDb
  <2>2. HasOneBlock'
    BY <2>1 DEF HasOneBlock, IsNode
  <2>3. WitnessHasCommittee'
    BY <2>1, StepKeepsCommittees DEF CommitteeIInv, WitnessHasCommittee
  <2> QED BY <2>1, <2>2, <2>3
          DEF CommitteeIInv, KnownHaveCommittee, KnowsDependantRoot, WrittenHaveCommittee
<1>5. CASE UNCHANGED vars
  BY <1>1, <1>5 DEF vars, chain, memory, db, witnessDb, IsNode
<1> QED BY <1>2, <1>3, <1>4, <1>5, ImportCommitteeIInv, PersistCommitteeIInv DEF Next

\* WitnessHasCommittee: the committee that a stored witness refers to is stored,
\* or a task is about to store it, or its store failed or was cut by a restart,
\* on every tree of blocks, for any number of tasks at a time, failing calls and
\* restarts and whatever the archiver deletes, if no block skips a whole period:
\* a block that finds its dependant root known can rely on another task.
THEOREM WitnessesHaveCommittee ==
  ASSUME NoPeriodSkipped
  PROVE  Spec => []WitnessHasCommittee
<1>1. Init => ImportIInv /\ CommitteeIInv
  BY InitImportIInv, InitCommitteeIInv
<1>2. (ImportIInv /\ CommitteeIInv) /\ [Next]_vars => (ImportIInv /\ CommitteeIInv)'
  BY NoPeriodSkipped, NextImportIInv, NextCommitteeIInv
<1>3. CommitteeIInv => WitnessHasCommittee
  BY DEF CommitteeIInv
<1> QED BY <1>1, <1>2, <1>3, PTL DEF Spec

-----------------------------------------------------------------------------
(* The committee of an update *)

\* An update is about a block of its period, and finalized only if that block
\* counts as finalized.
UpdateFits(update, period) ==
  update # NoUpdate =>
    /\ update.attested \in Block /\ Period(update.attested) = period
    /\ update.isFinalized => IsFinalized(update.attested)

UpdateIInv ==
  /\ aggregate \in [Block -> AggregatePc]
  /\ syncCommitteeWitness \subseteq Block
  /\ bestPartialLightClientUpdate \in [Periods -> Update]
  /\ \A period \in Periods : UpdateFits(bestPartialLightClientUpdate[period], period)
  /\ \A b \in Block :
       aggregate[b] \in {"readHeader", "putFinalized"} => IsFinalized(parentOf[b])

\* No update is stored at the start.
LEMMA InitUpdateIInv == Init => UpdateIInv
BY DEF Init, UpdateIInv, UpdateFits, AggregatePc, Update, NoUpdate

\* A task reads the finalized header, or stores a finalized update, only for a
\* block that counts as finalized.
LEMMA ReadBestUpdateIInv ==
  ASSUME UpdateIInv, NEW b \in Block, ReadBest(b)
  PROVE  UpdateIInv'
<1>1. UNCHANGED <<syncCommitteeWitness, bestPartialLightClientUpdate>>
  BY DEF ReadBest, db, witnessDb
<1>2. /\ aggregate' \in [Block -> AggregatePc]
      /\ \A c \in Block \ {b} : aggregate'[c] = aggregate[c]
      /\ aggregate'[b] \in {"readHeader", "putFinalized"} => IsFinalized(parentOf[b])
  <2>1. CASE IsFinalized(parentOf[b])
    <3>1. \E pc \in AggregatePc : aggregate' = [aggregate EXCEPT ![b] = pc]
      BY AggregateIsStep DEF Aggregate, AggregateSteps
    <3> QED BY <2>1, <3>1 DEF UpdateIInv
  <2>2. CASE ~IsFinalized(parentOf[b])
    <3>1. \E pc \in {"done", "putNonFinalized"} : aggregate' = [aggregate EXCEPT ![b] = pc]
      BY <2>2, Zenon DEF ReadBest
    <3> QED BY <3>1 DEF UpdateIInv, AggregatePc
  <2> QED BY <2>1, <2>2
<1> QED BY <1>1, <1>2 DEF UpdateIInv

\* Every step keeps a finalized update to attested blocks that count as
\* finalized.
LEMMA NextUpdateIInv == UpdateIInv /\ [Next]_vars => UpdateIInv'
<1> SUFFICES ASSUME UpdateIInv, [Next]_vars PROVE UpdateIInv'
  OBVIOUS
<1> DEFINE Reads(pc) == pc \in {"readHeader", "putFinalized"}
<1>1. ASSUME UNCHANGED bestPartialLightClientUpdate,
             aggregate' \in [Block -> AggregatePc], syncCommitteeWitness' \subseteq Block,
             \A b \in Block : Reads(aggregate'[b]) => Reads(aggregate[b])
      PROVE  UpdateIInv'
  BY <1>1 DEF UpdateIInv
<1>2. ASSUME NEW b \in Block, ImportBlock(b)
      PROVE  UpdateIInv'
  <2>1. \E pc \in {"readBest", "done"} : aggregate' = [aggregate EXCEPT ![b] = pc]
    BY <1>2 DEF ImportBlock, StartAggregate
  <2> QED BY <1>1, <1>2, <2>1 DEF ImportBlock, db, witnessDb, UpdateIInv, AggregatePc
<1>3. ASSUME NEW b \in Block, ReadFinalizedHeader(b)
      PROVE  UpdateIInv'
  <2>1. /\ aggregate[b] = "readHeader"
        /\ \E pc \in {"putFinalized", "putNonFinalized"} :
             aggregate' = [aggregate EXCEPT ![b] = pc]
    BY <1>3 DEF ReadFinalizedHeader
  <2>2. UNCHANGED <<syncCommitteeWitness, bestPartialLightClientUpdate>>
    BY <1>3 DEF ReadFinalizedHeader, db, witnessDb
  <2> QED BY <1>1, <2>1, <2>2 DEF UpdateIInv, AggregatePc
<1>4. ASSUME NEW b \in Block, PutBest(b)
      PROVE  UpdateIInv'
  <2> DEFINE next == PartialUpdate(b, aggregate[b] = "putFinalized")
  <2>1. /\ next \in Update /\ BestPeriod(b) \in Periods
        /\ UpdateFits(next, BestPeriod(b))
    <3>1. parentOf[b] \in Block /\ bitsOf[b] \in Nat
      BY BlockTreeAssumption, LightClientServerAssumption
    <3>2. /\ next \in Update /\ next.attested = parentOf[b]
          /\ BestPeriod(b) \in Periods
      BY <3>1 DEF PartialUpdate, Update, BestPeriod, Periods
    <3>3. next.isFinalized => aggregate[b] = "putFinalized"
      BY DEF PartialUpdate
    <3> QED BY <3>1, <3>2, <3>3 DEF UpdateIInv, UpdateFits, BestPeriod
  <2>2. /\ bestPartialLightClientUpdate'
             = [bestPartialLightClientUpdate EXCEPT ![BestPeriod(b)] = next]
        /\ aggregate' = [aggregate EXCEPT ![b] = "done"]
        /\ UNCHANGED syncCommitteeWitness
    BY <1>4 DEF PutBest, witnessDb
  <2> HIDE DEF next
  <2>3. /\ bestPartialLightClientUpdate' \in [Periods -> Update]
        /\ \A period \in Periods : UpdateFits(bestPartialLightClientUpdate'[period], period)
    BY <2>1, <2>2 DEF UpdateIInv
  <2>4. /\ aggregate' \in [Block -> AggregatePc]
        /\ \A c \in Block : Reads(aggregate'[c]) => Reads(aggregate[c])
    BY <2>2 DEF UpdateIInv, AggregatePc
  <2> QED BY <2>2, <2>3, <2>4 DEF UpdateIInv
<1>5. ASSUME NEW b \in Block, AggregateFails(b)
      PROVE  UpdateIInv'
  BY <1>1, <1>5 DEF AggregateFails, db, witnessDb, UpdateIInv, AggregatePc
<1>6. ASSUME NEW b \in Block, Persist(b) \/ PersistFails(b)
      PROVE  UpdateIInv'
  <2>1. aggregate' = aggregate
    BY <1>6, PersistIsStep DEF PersistSteps
  <2>2. /\ UNCHANGED bestPartialLightClientUpdate
        /\ syncCommitteeWitness' \subseteq syncCommitteeWitness \union {b}
    BY <1>6 DEF Persist, PutCurrent, PutNext, PutWitness, PutHeader, PersistFails, witnessDb
  <2> QED BY <1>1, <2>1, <2>2 DEF UpdateIInv
<1>7. CASE Archive \/ ArchivingFails
  <2>1. /\ UNCHANGED <<aggregate, bestPartialLightClientUpdate>>
        /\ syncCommitteeWitness' \subseteq syncCommitteeWitness
    BY <1>7 DEF Archive, StartArchiving, DeleteWitnesses, DeleteHeaders, FinishArchiving,
                ArchivingFails, db, witnessDb
  <2> QED BY <1>1, <2>1 DEF UpdateIInv
<1>8. CASE Restart
  BY <1>1, <1>8 DEF Restart, db, witnessDb, UpdateIInv, AggregatePc
<1>9. CASE UNCHANGED vars
  BY <1>1, <1>9 DEF vars, db, witnessDb, UpdateIInv
<1> QED BY <1>2, <1>3, <1>4, <1>5, <1>6, <1>7, <1>8, <1>9, ReadBestUpdateIInv
        DEF Next, Aggregate

\* ServesNextCommittee: what getCommitteeUpdates answers for a period is about a
\* block of that period and carries the committee of the next one, unless the
\* finalized block is of an earlier period, whatever tasks interleave or fail,
\* however often the node restarts and whatever the archiver deletes, on every
\* tree of blocks.  Nothing in the code compares the two periods.
THEOREM UpdatesCarryNextCommittee == Spec => []ServesNextCommittee
<1>1. UpdateIInv => ServesNextCommittee
  <2> SUFFICES ASSUME UpdateIInv, NEW period \in Periods, CommitteeUpdateAvailable(period)
               PROVE  LET update == bestPartialLightClientUpdate[period]
                          block == WitnessBlock(update)
                      IN  /\ Period(update.attested) = period
                          /\ \/ nextSyncCommittee[block] = nextSyncCommittee[update.attested]
                             \/ update.isFinalized /\ Period(block) < Period(update.attested)
    BY DEF ServesNextCommittee
  <2> DEFINE update == bestPartialLightClientUpdate[period]
             root == FinalizedRoot(update.attested)
  <2>1. /\ update.attested \in Block /\ Period(update.attested) = period
        /\ update.isFinalized => IsFinalized(update.attested)
    BY DEF UpdateIInv, UpdateFits, CommitteeUpdateAvailable
  <2>2. CASE ~update.isFinalized
    BY <2>1, <2>2 DEF WitnessBlock
  <2>3. CASE update.isFinalized
    <3>1. WitnessBlock(update) = root /\ root \in Block
      BY <2>3 DEF WitnessBlock, CommitteeUpdateAvailable, UpdateIInv
    <3>2. IsAncestorOrSelf(root, update.attested)
      BY <2>1, <3>1, FinalityAssumption DEF FinalizedRoot
    <3>3. Period(root) \in Nat /\ Period(update.attested) \in Nat
      BY <2>1, <3>1, PeriodsAscend
    <3> HIDE DEF update, root
    <3>4. \/ Period(root) < Period(update.attested)
          \/ nextSyncCommittee[root] = nextSyncCommittee[update.attested]
      <4>1. /\ Period(root) <= Period(update.attested)
            /\ Period(root) = Period(update.attested)
                 => nextSyncCommittee[root] = nextSyncCommittee[update.attested]
        BY <2>1, <3>2, PeriodHasOneCommittee
      <4> QED BY <3>3, <4>1
    <3> QED BY <2>1, <2>3, <3>1, <3>4 DEF update
  <2> QED BY <2>2, <2>3
<1> QED BY <1>1, InitUpdateIInv, NextUpdateIInv, PTL DEF Spec

=============================================================================
