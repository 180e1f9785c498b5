------------------------- MODULE BackfillSyncProofs -------------------------
(***************************************************************************)
(* What backfilledRanges claims is in the archive, and the archive only    *)
(* grows, for every tree of blocks, any number of restarts and any         *)
(* interleaving with the archiver, until an answer to a request by root is *)
(* another block than the one asked for.                                   *)
(*                                                                         *)
(* A range speaks of one lineage, but blocks are archived under their      *)
(* slots: a block of another branch in a range would be taken for one of   *)
(* the lineage by a later jump, and a write could replace what a range     *)
(* claims.  So the inductive invariant says for each stretch that is       *)
(* claimed, synced or finalized that the archive holds nothing else there, *)
(* and that the next checkpoint to be met is the first archived block      *)
(* below what was synced, before which nothing may be written.             *)
(***************************************************************************)
EXTENDS BackfillSync, RecursionProofs

BackfillSpec == BackfillInit /\ [][BackfillNext]_backfillVars

-----------------------------------------------------------------------------
(* Lineages *)

\* f is Lineage for the blocks before the slot n.
LineageUpTo(f, n) ==
  \A b \in ChainBlock : blockSlot[b] < n =>
    f[b] = IF b = genesisBlock THEN {b} ELSE {b} \union f[blockParent[b]]

\* Every block but genesis comes after its parent.
LEMMA ParentComesBefore ==
  ASSUME NEW b \in ChainBlock
  PROVE  /\ blockSlot[b] \in Nat
         /\ b # genesisBlock =>
              /\ blockParent[b] \in ChainBlock /\ blockSlot[blockParent[b]] \in Nat
              /\ blockSlot[blockParent[b]] < blockSlot[b]
BY BackfillAssumption

\* Induction from genesis.
LEMMA BlockInduction ==
  ASSUME NEW T,
         \A b \in ChainBlock : b = genesisBlock \/ blockParent[b] \in T => b \in T
  PROVE  ChainBlock \subseteq T
<1> SUFFICES ASSUME NEW b \in ChainBlock PROVE b \in T
  OBVIOUS
<1> DEFINE n == blockSlot[b] + 1
           Reached == {k \in 0..n : \A c \in ChainBlock : blockSlot[c] < k => c \in T}
<1>1. n \in Nat /\ blockSlot[b] < n
  BY ParentComesBefore
<1>2. 0 \in Reached
  BY <1>1, ParentComesBefore
<1>3. ASSUME NEW k \in 0..(n - 1), k \in Reached
      PROVE  k + 1 \in Reached
  <2>1. ASSUME NEW c \in ChainBlock, blockSlot[c] < k + 1
        PROVE  c \in T
    <3>1. c # genesisBlock => blockSlot[blockParent[c]] < k
      BY <1>1, <2>1, ParentComesBefore
    <3>2. c = genesisBlock \/ blockParent[c] \in T
      BY <1>3, <3>1, ParentComesBefore
    <3> QED BY <3>2
  <2>2. k + 1 \in 0..n
    BY <1>1
  <2> QED BY <2>1, <2>2
<1>4. n \in Reached
  <2> HIDE DEF Reached, n
  <2>1. 0..n \subseteq Reached
    BY <1>1, <1>2, <1>3, Induction
  <2> QED BY <1>1, <2>1
<1> HIDE DEF n
<1> QED BY <1>1, <1>4

\* Two such functions agree.
LEMMA LineagesAgree ==
  ASSUME NEW n \in Nat, NEW f, NEW g, LineageUpTo(f, n), LineageUpTo(g, n)
  PROVE  \A b \in ChainBlock : blockSlot[b] < n => f[b] = g[b]
<1> DEFINE Agreed == {k \in 0..n : \A b \in ChainBlock : blockSlot[b] < k => f[b] = g[b]}
<1>1. 0 \in Agreed
  BY ParentComesBefore
<1>2. ASSUME NEW k \in 0..(n - 1), k \in Agreed
      PROVE  k + 1 \in Agreed
  <2>1. ASSUME NEW b \in ChainBlock, blockSlot[b] < k + 1
        PROVE  f[b] = g[b]
    <3>1. blockSlot[b] < n
      BY <2>1, ParentComesBefore
    <3>2. b # genesisBlock => f[blockParent[b]] = g[blockParent[b]]
      <4>1. b # genesisBlock => blockSlot[blockParent[b]] < k
        BY <2>1, ParentComesBefore
      <4> QED BY <1>2, <4>1, ParentComesBefore
    <3> QED BY <3>1, <3>2 DEF LineageUpTo
  <2> QED BY <2>1
<1>3. 0..n \subseteq Agreed
  <2> HIDE DEF Agreed
  <2> QED BY <1>1, <1>2, Induction
<1> QED BY <1>3

\* For every slot there is one.
LEMMA LineagesExist ==
  ASSUME NEW n \in Nat
  PROVE  \E f : LineageUpTo(f, n)
<1> DEFINE Reached == {k \in 0..n : \E f : LineageUpTo(f, k)}
<1>1. 0 \in Reached
  BY ParentComesBefore DEF LineageUpTo
<1>2. ASSUME NEW k \in 0..(n - 1), k \in Reached
      PROVE  k + 1 \in Reached
  <2>1. PICK f : LineageUpTo(f, k)
    BY <1>2
  <2> DEFINE g == [b \in ChainBlock |-> IF b = genesisBlock THEN {b}
                                   ELSE {b} \union f[blockParent[b]]]
  <2>2. \A b \in ChainBlock : blockSlot[b] < k => g[b] = f[b]
    BY <2>1 DEF LineageUpTo
  <2>3. ASSUME NEW b \in ChainBlock, blockSlot[b] < k + 1, b # genesisBlock
        PROVE  g[blockParent[b]] = f[blockParent[b]]
    <3>1. blockParent[b] \in ChainBlock /\ blockSlot[blockParent[b]] < k
      BY <2>3, ParentComesBefore
    <3> HIDE DEF g
    <3> QED BY <2>2, <3>1
  <2>4. LineageUpTo(g, k + 1)
    <3>1. \A b \in ChainBlock : g[b] = IF b = genesisBlock THEN {b}
                                  ELSE {b} \union f[blockParent[b]]
      OBVIOUS
    <3> HIDE DEF g
    <3> QED BY <2>3, <3>1 DEF LineageUpTo
  <2> HIDE DEF g
  <2> QED BY <2>4
<1>3. 0..n \subseteq Reached
  <2> HIDE DEF Reached
  <2> QED BY <1>1, <1>2, Induction
<1> QED BY <1>3

\* The recursion of Lineage is well defined.
LEMMA LineageSteps ==
  /\ DOMAIN Lineage = ChainBlock
  /\ \A b \in ChainBlock :
       Lineage[b] = IF b = genesisBlock THEN {b} ELSE {b} \union Lineage[blockParent[b]]
<1> DEFINE some(n) == CHOOSE f : LineageUpTo(f, n)
           lineage == [b \in ChainBlock |-> some(blockSlot[b] + 1)[b]]
           Grown(f) == [b \in ChainBlock |-> IF b = genesisBlock THEN {b}
                                             ELSE {b} \union f[blockParent[b]]]
<1>1. ASSUME NEW n \in Nat PROVE LineageUpTo(some(n), n)
  BY LineagesExist
<1> HIDE DEF some
<1>2. ASSUME NEW b \in ChainBlock
      PROVE  lineage[b] = IF b = genesisBlock THEN {b}
                          ELSE {b} \union lineage[blockParent[b]]
  <2> DEFINE n == blockSlot[b] + 1
             p == blockParent[b]
             m == blockSlot[p] + 1
  <2>1. n \in Nat /\ blockSlot[b] < n /\ lineage[b] = some(n)[b]
    BY ParentComesBefore
  <2>2. some(n)[b] = IF b = genesisBlock THEN {b} ELSE {b} \union some(n)[p]
    BY <1>1, <2>1 DEF LineageUpTo
  <2>3. ASSUME b # genesisBlock PROVE some(n)[p] = lineage[p]
    <3>1. /\ p \in ChainBlock /\ m \in Nat /\ blockSlot[p] < m /\ m <= n
          /\ lineage[p] = some(m)[p]
      BY <2>3, ParentComesBefore
    <3>2. LineageUpTo(some(n), m)
      <4>1. \A c \in ChainBlock : blockSlot[c] < m => blockSlot[c] < n
        BY <2>1, <3>1, ParentComesBefore
      <4>2. LineageUpTo(some(n), n)
        BY <1>1, <2>1
      <4> HIDE DEF n, m
      <4> QED BY <4>1, <4>2 DEF LineageUpTo
    <3>3. LineageUpTo(some(m), m)
      BY <1>1, <3>1
    <3> HIDE DEF n, m, p, lineage
    <3> QED BY <3>1, <3>2, <3>3, LineagesAgree
  <2> HIDE DEF lineage, n, m
  <2> QED BY <2>1, <2>2, <2>3
<1>3. lineage = Grown(lineage)
  BY <1>2
<1>4. \E f : f = Grown(f)
  <2> HIDE DEF lineage, Grown
  <2> QED BY <1>3
<1>5. Lineage = Grown(Lineage)
  BY <1>4 DEF Lineage
<1> HIDE DEF lineage
<1> QED BY <1>5

\* A block's lineage holds the block, its ancestors and genesis, and is finite.
LEMMA LineageHolds ==
  ASSUME NEW b \in ChainBlock
  PROVE  /\ Lineage[b] \subseteq ChainBlock /\ IsFiniteSet(Lineage[b])
         /\ b \in Lineage[b] /\ genesisBlock \in Lineage[b]
         /\ \A c \in Lineage[b] : Lineage[c] \subseteq Lineage[b]
         /\ \A c \in Lineage[b] :
              blockSlot[c] <= blockSlot[b] /\ (blockSlot[c] = blockSlot[b] => c = b)
<1> DEFINE Fits(d) ==
             /\ Lineage[d] \subseteq ChainBlock /\ IsFiniteSet(Lineage[d])
             /\ d \in Lineage[d] /\ genesisBlock \in Lineage[d]
             /\ \A c \in Lineage[d] : Lineage[c] \subseteq Lineage[d]
             /\ \A c \in Lineage[d] :
                  blockSlot[c] <= blockSlot[d] /\ (blockSlot[c] = blockSlot[d] => c = d)
           T == {d \in ChainBlock : Fits(d)}
<1>1. ASSUME NEW d \in ChainBlock, d = genesisBlock \/ blockParent[d] \in T
      PROVE  Fits(d)
  <2>1. CASE d = genesisBlock
    <3>1. Lineage[d] = {d} /\ IsFiniteSet({d}) /\ blockSlot[d] \in Nat
      BY <2>1, LineageSteps, FS_Singleton, ParentComesBefore
    <3> QED BY <2>1, <3>1
  <2>2. CASE d # genesisBlock
    <3> DEFINE p == blockParent[d]
    <3>1. /\ Lineage[d] = {d} \union Lineage[p] /\ Fits(p)
          /\ blockSlot[d] \in Nat /\ blockSlot[p] \in Nat /\ blockSlot[p] < blockSlot[d]
      BY <1>1, <2>2, LineageSteps, ParentComesBefore
    <3> HIDE DEF p
    <3>2. IsFiniteSet(Lineage[d])
      <4>1. IsFiniteSet(Lineage[p] \union {d}) /\ Lineage[p] \union {d} = Lineage[d]
        BY <3>1, FS_AddElement
      <4> QED BY <4>1
    <3>3. \A c \in Lineage[d] : Lineage[c] \subseteq Lineage[d]
      <4> SUFFICES ASSUME NEW c \in Lineage[d] PROVE Lineage[c] \subseteq Lineage[d]
        OBVIOUS
      <4>1. c = d \/ Lineage[c] \subseteq Lineage[p]
        BY <3>1
      <4> QED BY <3>1, <4>1
    <3>4. \A c \in Lineage[d] :
            blockSlot[c] <= blockSlot[d] /\ (blockSlot[c] = blockSlot[d] => c = d)
      <4>1. ASSUME NEW c \in Lineage[p] PROVE blockSlot[c] < blockSlot[d]
        <5>1. blockSlot[c] \in Nat /\ blockSlot[c] <= blockSlot[p]
          BY <3>1, ParentComesBefore
        <5> QED BY <3>1, <5>1
      <4>2. ASSUME NEW c \in Lineage[d]
            PROVE  blockSlot[c] <= blockSlot[d] /\ (blockSlot[c] = blockSlot[d] => c = d)
        <5>1. c = d \/ c \in Lineage[p]
          BY <3>1
        <5>2. c \in Lineage[p] => blockSlot[c] \in Nat
          BY <3>1, ParentComesBefore
        <5> QED BY <3>1, <4>1, <5>1, <5>2
      <4> QED BY <4>2
    <3>5. /\ Lineage[d] \subseteq ChainBlock
          /\ d \in Lineage[d] /\ genesisBlock \in Lineage[d]
      BY <3>1
    <3> QED BY <3>2, <3>3, <3>4, <3>5
  <2> QED BY <2>1, <2>2
<1>2. ChainBlock \subseteq T
  <2>1. \A d \in ChainBlock : d = genesisBlock \/ blockParent[d] \in T => d \in T
    BY <1>1
  <2> HIDE DEF T
  <2> QED BY <2>1, BlockInduction
<1> QED BY <1>2

\* A lineage is a chain.
LEMMA LineageIsChain ==
  ASSUME NEW b \in ChainBlock, NEW c \in Lineage[b], NEW d \in Lineage[b],
         blockSlot[c] <= blockSlot[d]
  PROVE  c \in Lineage[d]
<1> DEFINE Fits(x) == \A y, z \in Lineage[x] : blockSlot[y] <= blockSlot[z] => y \in Lineage[z]
           T == {x \in ChainBlock : Fits(x)}
<1>1. ASSUME NEW x \in ChainBlock, x = genesisBlock \/ blockParent[x] \in T
      PROVE  Fits(x)
  <2>1. CASE x = genesisBlock
    BY <2>1, LineageSteps
  <2>2. CASE x # genesisBlock
    <3> DEFINE p == blockParent[x]
    <3>1. Lineage[x] = {x} \union Lineage[p] /\ Fits(p) /\ p \in ChainBlock
      BY <1>1, <2>2, LineageSteps, ParentComesBefore
    <3>2. \A y \in Lineage[p] : blockSlot[y] <= blockSlot[p] /\ blockSlot[y] \in Nat
      BY <3>1, LineageHolds, ParentComesBefore
    <3>3. blockSlot[p] < blockSlot[x] /\ blockSlot[p] \in Nat /\ blockSlot[x] \in Nat
      BY <2>2, ParentComesBefore
    <3> HIDE DEF p
    <3>4. \A y \in Lineage[p] : ~(blockSlot[x] <= blockSlot[y])
      BY <3>2, <3>3
    <3>5. x \in Lineage[x] /\ Lineage[p] \subseteq Lineage[x]
      BY <3>1
    <3> QED BY <3>1, <3>4, <3>5
  <2> QED BY <2>1, <2>2
<1>2. ChainBlock \subseteq T
  <2>1. \A x \in ChainBlock : x = genesisBlock \/ blockParent[x] \in T => x \in T
    BY <1>1
  <2> HIDE DEF T
  <2> QED BY <2>1, BlockInduction
<1> QED BY <1>2

\* Nothing of a lineage lies between a block and its parent.
LEMMA ParentIsNext ==
  ASSUME NEW b \in ChainBlock, NEW c \in Lineage[b], c # genesisBlock
  PROVE  /\ blockParent[c] \in Lineage[b]
         /\ \A d \in Lineage[b] :
              blockSlot[d] > blockSlot[blockParent[c]] => blockSlot[d] >= blockSlot[c]
<1>1. c \in ChainBlock /\ Lineage[c] = {c} \union Lineage[blockParent[c]]
      /\ Lineage[c] \subseteq Lineage[b] /\ blockParent[c] \in ChainBlock
  BY LineageHolds, LineageSteps, ParentComesBefore
<1>2. blockParent[c] \in Lineage[b]
  BY <1>1, LineageHolds
<1>3. ASSUME NEW d \in Lineage[b], blockSlot[d] > blockSlot[blockParent[c]],
             ~(blockSlot[d] >= blockSlot[c])
      PROVE  FALSE
  <2>1. d \in ChainBlock /\ blockSlot[d] \in Nat /\ blockSlot[c] \in Nat
        /\ blockSlot[blockParent[c]] \in Nat
    BY <1>1, LineageHolds, ParentComesBefore
  <2>2. d \in Lineage[c]
    BY <1>3, <2>1, LineageIsChain
  <2>3. d = c \/ d \in Lineage[blockParent[c]]
    BY <1>1, <2>2
  <2> QED BY <1>1, <1>3, <2>1, <2>3, LineageHolds
<1> QED BY <1>2, <1>3

-----------------------------------------------------------------------------
(* The invariant *)

\* The states of the BackfillSync object.
Backfills == [startFrom : ChainBlock,
              anchorBlock : ChainBlock \union {NoBlock},
              anchorBlockRoot : ChainBlock \union {NoBlock},
              lastBackSynced : ChainBlock \union {NoBlock},
              lastRoot : ChainBlock \union {NoBlock},
              rangeWritten : Int,
              prevFinalized : [root : ChainBlock \union {NoBlock}, slot : Int],
              wsCheckpoint : ChainBlock \union {NoBlock}, wsValidated : BOOLEAN,
              status : {"pending", "syncing", "aborted", "completed"},
              step : {"next", "range", "jump", "cleanup", "db", "network", "byRoot",
                      "byRange", "ended"},
              triggered : BOOLEAN, jumped : BOOLEAN, seqs : SUBSET Nat]

BackfillTypes ==
  /\ blockArchive \subseteq ChainBlock
  /\ DOMAIN backfilledRanges \subseteq Nat
  /\ \A k \in DOMAIN backfilledRanges : backfilledRanges[k] \in Nat
  /\ storedState \in ChainBlock
  /\ backfill \in Backfills
  /\ archiver \in [step : {"idle", "failed", "state", "put", "clear"}, block : ChainBlock]

\* Blocks are archived under their slots.
OneOfASlot ==
  \A b, c \in blockArchive : blockSlot[b] = blockSlot[c] => b = c

\* From a block on, the archive holds its descendants only.
Above(a) == \A c \in blockArchive : blockSlot[c] >= blockSlot[a] => a \in Lineage[c]

\* The start, the stored state and the last finalized block are one chain; the
\* archive has all of it after the start, and no other block.
Finalized ==
  /\ backfill.startFrom \in Lineage[storedState]
  /\ storedState \in Lineage[archiver.block]
  /\ Above(backfill.startFrom) /\ Above(storedState) /\ Above(archiver.block)
  /\ \A c \in Lineage[archiver.block] : blockSlot[c] > AnchorSlot => c \in blockArchive
  /\ \A c \in blockArchive :
       AnchorSlot <= blockSlot[c] /\ blockSlot[c] <= blockSlot[archiver.block]
         => c \in Lineage[archiver.block]
  /\ archiver.step \in {"state", "put"} => archiver.block # backfill.startFrom

\* A range: all of a lineage after its end is archived, and no other block is
\* between its ends.
RangeHolds(k) ==
  \E b \in blockArchive :
    /\ blockSlot[b] = k
    /\ {c \in Lineage[b] : blockSlot[c] > backfilledRanges[k]} \subseteq blockArchive
    /\ \A c \in blockArchive :
         backfilledRanges[k] <= blockSlot[c] /\ blockSlot[c] <= k => c \in Lineage[b]

RangesHold == \A k \in DOMAIN backfilledRanges : RangeHolds(k)

\* The next checkpoint to be met is archived, unless there is none; after it
\* the archive holds nothing but the lineage that is synced.
PrevFinalizedIsNext ==
  LET prev == backfill.prevFinalized
  IN  /\ (prev.root \in blockArchive /\ blockSlot[prev.root] = prev.slot) \/ prev.slot = -1
      /\ \A c \in blockArchive :
           prev.slot < blockSlot[c] /\ blockSlot[c] <= AnchorSlot
             => c \in Lineage[backfill.startFrom]
      /\ backfill.lastBackSynced = NoBlock => prev.slot < AnchorSlot

\* What was synced is archived, except for the last block if it could be in the
\* place of the checkpoint; and what the steps of the loop may take for granted.
Synced ==
  LET l == backfill.lastBackSynced
  IN  /\ l # NoBlock =>
           /\ l \in Lineage[backfill.startFrom] /\ backfill.startFrom \in blockArchive
           /\ \A c \in Lineage[backfill.startFrom] :
                blockSlot[c] > blockSlot[l] => c \in blockArchive
           /\ blockSlot[l] > backfill.prevFinalized.slot => l \in blockArchive
      /\ backfill.anchorBlock # NoBlock =>
           backfill.anchorBlock = l /\ backfill.anchorBlockRoot = l
      /\ backfill.anchorBlock = NoBlock =>
           \/ l = NoBlock /\ backfill.anchorBlockRoot = backfill.startFrom
           \/ l # NoBlock /\ backfill.anchorBlockRoot = blockParent[l]
      /\ backfill.step \in {"range", "jump", "cleanup"} => l # NoBlock
      /\ l # NoBlock /\ backfill.step \notin {"next", "ended"} =>
           /\ l \in blockArchive
           /\ backfill.step # "range" /\ ~(backfill.step = "cleanup" /\ backfill.jumped)
                => l # genesisBlock
      /\ backfill.step \in {"range", "jump"} => backfill.prevFinalized.slot < blockSlot[l]
      /\ backfill.step = "byRange" => backfill.anchorBlock # NoBlock
      /\ backfill.step = "byRoot" => backfill.anchorBlock = NoBlock

\* What a completed sync means.
Completed ==
  /\ backfill.wsCheckpoint \in Lineage[backfill.startFrom] \union {NoBlock}
  /\ backfill.status = "completed" =>
       backfill.step = "ended" /\ Lineage[backfill.startFrom] \subseteq blockArchive

\* Blocks are where their roots lead to, and what was synced was looked up by
\* its own root.
Aligned ==
  /\ rootIndex = blockArchive
  /\ backfill.lastRoot = backfill.lastBackSynced

BackfillInv ==
  /\ BackfillTypes /\ OneOfASlot /\ Finalized /\ RangesHold /\ PrevFinalizedIsNext
  /\ Synced /\ Completed

-----------------------------------------------------------------------------
(* The archive *)

\* Blocks of a lineage that are below nothing of another branch.
FitArchive(blocks, tip) ==
  /\ tip \in ChainBlock /\ blocks \subseteq Lineage[tip]
  /\ \A n \in blocks, b \in blockArchive :
       blockSlot[n] <= blockSlot[b] => n \in Lineage[b]

\* Such blocks replace none.
LEMMA ArchivedReplacesNone ==
  ASSUME BackfillTypes, OneOfASlot, NEW blocks, NEW tip, FitArchive(blocks, tip)
  PROVE  Archived(blocks) = blockArchive \union blocks
<1>1. ASSUME NEW b \in blockArchive, blockSlot[b] \in SlotsOfBlocks(blocks)
      PROVE  b \in blocks
  <2>1. PICK n \in blocks : blockSlot[n] = blockSlot[b]
    BY <1>1 DEF SlotsOfBlocks
  <2>2. b \in ChainBlock /\ blockSlot[b] \in Nat
    BY ParentComesBefore DEF BackfillTypes
  <2>3. n \in Lineage[b]
    BY <2>1, <2>2 DEF FitArchive
  <2>4. n = b
    BY <2>1, <2>2, <2>3, LineageHolds
  <2> QED BY <2>4
<1>2. \A b : b \in Archived(blocks) <=> b \in blockArchive \/ b \in blocks
  BY <1>1 DEF Archived
<1> QED BY <1>2

\* Nothing archived is nothing changed.
LEMMA ArchivedNothing == Archived({}) = blockArchive
BY DEF Archived, SlotsOfBlocks

\* The index follows the archive as long as no block is replaced.
LEMMA StoredAligned ==
  ASSUME rootIndex = blockArchive, NEW blocks, Store(blocks),
         blockArchive \subseteq blockArchive'
  PROVE  rootIndex' = blockArchive'
<1>1. \A b : b \in blockArchive' => b \in blockArchive \/ b \in blocks
  BY DEF Store, Archived
<1>2. \A b \in blocks : b \in blockArchive'
  BY DEF Store, Archived
<1> QED BY <1>1, <1>2 DEF Store

\* Where there is an index, the block that a root leads to is its own.
LEMMA AtItsRoot ==
  ASSUME OneOfASlot, NEW b \in blockArchive
  PROVE  AtRoot(b) = b
BY DEF AtRoot, OneOfASlot

\* Still at most one block of a slot.
LEMMA GrownArchive ==
  ASSUME BackfillTypes, OneOfASlot, NEW blocks, NEW tip, FitArchive(blocks, tip),
         blockArchive' = blockArchive \union blocks
  PROVE  OneOfASlot' /\ blockArchive' \subseteq ChainBlock
<1>1. blocks \subseteq ChainBlock /\ Lineage[tip] \subseteq ChainBlock
  BY LineageHolds DEF FitArchive
<1>2. ASSUME NEW b \in blockArchive, NEW n \in blocks, blockSlot[b] = blockSlot[n]
      PROVE  b = n
  <2>1. b \in ChainBlock /\ blockSlot[b] \in Nat /\ n \in Lineage[b]
    BY <1>2, ParentComesBefore DEF BackfillTypes, FitArchive
  <2> QED BY <1>2, <2>1, LineageHolds
<1>3. ASSUME NEW m \in blocks, NEW n \in blocks, blockSlot[m] = blockSlot[n]
      PROVE  m = n
  <2>1. n \in ChainBlock /\ blockSlot[n] \in Nat /\ m \in Lineage[n]
    BY <1>1, <1>3, LineageIsChain, ParentComesBefore DEF FitArchive
  <2> QED BY <1>3, <2>1, LineageHolds
<1> QED BY <1>1, <1>2, <1>3 DEF OneOfASlot, BackfillTypes

\* What the ranges claim stays true.
LEMMA GrownRangesHold ==
  ASSUME BackfillTypes, RangesHold, NEW blocks, NEW tip, FitArchive(blocks, tip),
         blockArchive' = blockArchive \union blocks,
         backfilledRanges' = backfilledRanges
  PROVE  RangesHold'
<1> SUFFICES ASSUME NEW k \in DOMAIN backfilledRanges PROVE RangeHolds(k)'
  BY DEF RangesHold
<1>1. PICK b \in blockArchive :
        /\ blockSlot[b] = k
        /\ {c \in Lineage[b] : blockSlot[c] > backfilledRanges[k]} \subseteq blockArchive
        /\ \A c \in blockArchive :
             backfilledRanges[k] <= blockSlot[c] /\ blockSlot[c] <= k => c \in Lineage[b]
  BY DEF RangesHold, RangeHolds
<1>2. \A n \in blocks : blockSlot[n] <= k => n \in Lineage[b]
  BY <1>1 DEF FitArchive
<1> QED BY <1>1, <1>2 DEF RangeHolds

\* Blocks of the lineage that is synced, after the checkpoint to be met next,
\* fit the archive.
LEMMA SyncedBlocksFit ==
  ASSUME BackfillTypes, Finalized, PrevFinalizedIsNext,
         NEW blocks \in SUBSET Lineage[backfill.startFrom],
         \A n \in blocks : blockSlot[n] > backfill.prevFinalized.slot
  PROVE  FitArchive(blocks, backfill.startFrom)
<1> DEFINE s == backfill.startFrom
<1>1. s \in ChainBlock /\ Lineage[s] \subseteq ChainBlock
  BY LineageHolds DEF BackfillTypes, Backfills
<1>2. ASSUME NEW n \in blocks, NEW b \in blockArchive, blockSlot[n] <= blockSlot[b]
      PROVE  n \in Lineage[b]
  <2>1. n \in Lineage[s] /\ n \in ChainBlock /\ b \in ChainBlock
    BY <1>1 DEF BackfillTypes
  <2>2. blockSlot[n] \in Nat /\ blockSlot[b] \in Nat /\ blockSlot[s] \in Nat
        /\ backfill.prevFinalized.slot \in Int
    BY <1>1, <2>1, ParentComesBefore DEF BackfillTypes, Backfills
  <2>3. CASE blockSlot[b] >= blockSlot[s]
    <3>1. s \in Lineage[b]
      BY <2>3 DEF Finalized, Above
    <3> QED BY <2>1, <3>1, LineageHolds
  <2>4. CASE blockSlot[b] <= blockSlot[s]
    <3>1. backfill.prevFinalized.slot < blockSlot[b]
      BY <1>2, <2>2
    <3>2. b \in Lineage[s]
      BY <2>4, <3>1 DEF PrevFinalizedIsNext, AnchorSlot
    <3> QED BY <1>1, <1>2, <2>1, <3>2, LineageIsChain
  <2> QED BY <2>2, <2>3, <2>4
<1> QED BY <1>1, <1>2 DEF FitArchive

\* They leave the finalized chain as it is.
LEMMA SyncedFinalized ==
  ASSUME BackfillTypes, Finalized, NEW blocks \in SUBSET Lineage[backfill.startFrom],
         blockArchive' = blockArchive \union blocks,
         backfill'.startFrom = backfill.startFrom,
         UNCHANGED <<storedState, archiver>>
  PROVE  Finalized'
<1> DEFINE s == backfill.startFrom
           a == archiver.block
<1>1. /\ s \in ChainBlock /\ storedState \in ChainBlock /\ a \in ChainBlock
      /\ s \in Lineage[storedState] /\ storedState \in Lineage[a]
  BY DEF BackfillTypes, Backfills, Finalized
<1>2. /\ blockSlot[s] <= blockSlot[storedState] /\ blockSlot[storedState] <= blockSlot[a]
      /\ blockSlot[s] = blockSlot[storedState] => s = storedState
      /\ blockSlot[storedState] = blockSlot[a] => storedState = a
      /\ blockSlot[s] \in Nat /\ blockSlot[storedState] \in Nat /\ blockSlot[a] \in Nat
  BY <1>1, LineageHolds, ParentComesBefore
<1>3. ASSUME NEW n \in blocks
      PROVE  /\ blockSlot[n] \in Nat /\ blockSlot[n] <= blockSlot[s]
             /\ blockSlot[n] = blockSlot[s] => n = s
  <2>1. n \in Lineage[s] /\ n \in ChainBlock
    BY <1>1, LineageHolds
  <2> QED BY <1>1, <2>1, LineageHolds, ParentComesBefore
<1>4. s \in Lineage[a] /\ s \in Lineage[s]
  BY <1>1, LineageHolds
<1>5. /\ \A n \in blocks : blockSlot[n] >= blockSlot[s] => s \in Lineage[n]
      /\ \A n \in blocks : blockSlot[n] >= blockSlot[storedState] => storedState \in Lineage[n]
      /\ \A n \in blocks : blockSlot[n] >= blockSlot[a] => a \in Lineage[n]
  <2>1. ASSUME NEW n \in blocks, blockSlot[n] >= blockSlot[s] PROVE s \in Lineage[n]
    BY <1>1, <1>2, <1>3, <1>4, <2>1
  <2>2. ASSUME NEW n \in blocks, blockSlot[n] >= blockSlot[storedState]
        PROVE  storedState \in Lineage[n]
    <3>1. n = storedState
      BY <1>2, <1>3, <2>2
    <3> QED BY <1>1, <3>1, LineageHolds
  <2>3. ASSUME NEW n \in blocks, blockSlot[n] >= blockSlot[a] PROVE a \in Lineage[n]
    <3>1. n = a
      BY <1>2, <1>3, <2>3
    <3> QED BY <1>1, <3>1, LineageHolds
  <2> HIDE DEF s, a
  <2> QED BY <2>1, <2>2, <2>3
<1>6. \A n \in blocks : blockSlot[s] <= blockSlot[n] => n \in Lineage[a]
  BY <1>1, <1>2, <1>3, <1>4
<1>7. Above(backfill.startFrom)' /\ Above(storedState)' /\ Above(archiver.block)'
  BY <1>5 DEF Finalized, Above
<1>8. /\ (\A c \in Lineage[archiver.block] : blockSlot[c] > AnchorSlot => c \in blockArchive)'
      /\ (\A c \in blockArchive :
            AnchorSlot <= blockSlot[c] /\ blockSlot[c] <= blockSlot[archiver.block]
              => c \in Lineage[archiver.block])'
  BY <1>6 DEF Finalized, AnchorSlot
<1>9. /\ (backfill.startFrom \in Lineage[storedState])'
      /\ (storedState \in Lineage[archiver.block])'
      /\ (archiver.step \in {"state", "put"} => archiver.block # backfill.startFrom)'
  BY DEF Finalized
<1> QED BY <1>7, <1>8, <1>9 DEF Finalized

-----------------------------------------------------------------------------
(* The archiver *)

\* Where the finalized chain stands.
LEMMA FinalizedSlots ==
  ASSUME BackfillTypes, Finalized
  PROVE  /\ backfill.startFrom \in ChainBlock /\ archiver.block \in ChainBlock
         /\ storedState \in ChainBlock
         /\ AnchorSlot \in Nat /\ blockSlot[storedState] \in Nat
         /\ blockSlot[archiver.block] \in Nat
         /\ backfill.startFrom \in Lineage[archiver.block]
         /\ AnchorSlot <= blockSlot[storedState]
         /\ blockSlot[storedState] <= blockSlot[archiver.block]
         /\ AnchorSlot <= blockSlot[archiver.block]
         /\ AnchorSlot = blockSlot[archiver.block] => archiver.block = backfill.startFrom
<1>1. /\ backfill.startFrom \in ChainBlock /\ storedState \in ChainBlock
      /\ archiver.block \in ChainBlock
      /\ backfill.startFrom \in Lineage[storedState]
      /\ storedState \in Lineage[archiver.block]
  BY DEF BackfillTypes, Backfills, Finalized
<1>2. backfill.startFrom \in Lineage[archiver.block]
  BY <1>1, LineageHolds
<1>3. /\ AnchorSlot \in Nat /\ blockSlot[storedState] \in Nat
      /\ blockSlot[archiver.block] \in Nat
  BY <1>1, ParentComesBefore DEF AnchorSlot
<1> QED BY <1>1, <1>2, <1>3, LineageHolds DEF AnchorSlot

\* Blocks that a finalized block adds come after the last finalized block and
\* fit the archive.
LEMMA MigratedBlocksFit ==
  ASSUME BackfillTypes, ~Misled, NEW block \in ChainBlock, CanBeFinalized(block),
         NEW blocks \in SUBSET NewlyFinalized(block)
  PROVE  /\ FitArchive(blocks, block) /\ blocks \subseteq ChainBlock
         /\ \A n \in blocks : /\ blockSlot[n] \in Nat
                              /\ blockSlot[n] > blockSlot[archiver.block]
                              /\ archiver.block \in Lineage[n]
<1>1. /\ archiver.block \in ChainBlock /\ archiver.block \in Lineage[block]
      /\ Lineage[block] \subseteq ChainBlock /\ blocks \subseteq Lineage[block]
      /\ blockSlot[archiver.block] \in Nat
  BY LineageHolds, ParentComesBefore DEF BackfillTypes, CanBeFinalized, NewlyFinalized
<1>2. ASSUME NEW n \in blocks
      PROVE  /\ blockSlot[n] \in Nat /\ blockSlot[n] > blockSlot[archiver.block]
             /\ archiver.block \in Lineage[n]
  <2>1. n \in ChainBlock /\ n \in Lineage[block] /\ n \notin Lineage[archiver.block]
        /\ blockSlot[n] \in Nat
    BY <1>1, ParentComesBefore DEF NewlyFinalized
  <2>2. ~(blockSlot[n] <= blockSlot[archiver.block])
    BY <1>1, <2>1, LineageIsChain
  <2>3. blockSlot[archiver.block] <= blockSlot[n]
    BY <1>1, <2>1, <2>2
  <2> QED BY <1>1, <2>1, <2>2, <2>3, LineageIsChain
<1>3. ASSUME NEW n \in blocks, NEW b \in blockArchive, blockSlot[n] <= blockSlot[b]
      PROVE  n \in Lineage[b]
  <2>1. b \in ChainBlock /\ blockSlot[b] \in Nat /\ blockSlot[b] > blockSlot[archiver.block]
    BY <1>1, <1>2, <1>3, ParentComesBefore DEF BackfillTypes
  <2>2. b \in Lineage[block] \/ block \in Lineage[b]
    BY <2>1 DEF CanBeFinalized, FinalizedBefore
  <2>3. CASE b \in Lineage[block]
    BY <1>1, <1>3, <2>3, LineageIsChain
  <2>4. CASE block \in Lineage[b]
    BY <1>1, <2>1, <2>4, LineageHolds
  <2> QED BY <2>2, <2>3, <2>4
<1> QED BY <1>1, <1>2, <1>3 DEF FitArchive

\* Nothing that backfill knows is disturbed by blocks after its start.
LEMMA LaterBlocks ==
  ASSUME BackfillTypes, Finalized, PrevFinalizedIsNext, Synced, Completed, NEW blocks,
         \A n \in blocks : blockSlot[n] \in Nat /\ blockSlot[n] > AnchorSlot,
         blockArchive' = blockArchive \union blocks, UNCHANGED backfill
  PROVE  PrevFinalizedIsNext' /\ Synced' /\ Completed'
<1>1. AnchorSlot \in Nat
  BY FinalizedSlots
<1>2. PrevFinalizedIsNext'
  BY <1>1 DEF PrevFinalizedIsNext, AnchorSlot
<1>3. Synced'
  BY DEF Synced
<1>4. Completed'
  BY DEF Completed
<1> QED BY <1>2, <1>3, <1>4

\* So the archiver's writes keep the invariant if they keep the finalized chain.
LEMMA MigratedKeep ==
  ASSUME BackfillInv, ~Misled, NEW block \in ChainBlock, CanBeFinalized(block),
         NEW blocks \in SUBSET NewlyFinalized(block),
         blockArchive' = Archived(blocks),
         UNCHANGED <<backfilledRanges, storedState, backfill>>,
         archiver' \in [step : {"idle", "failed", "state", "put", "clear"}, block : ChainBlock]
  PROVE  /\ BackfillTypes' /\ OneOfASlot' /\ RangesHold' /\ PrevFinalizedIsNext'
         /\ Synced' /\ Completed'
         /\ blockArchive' = blockArchive \union blocks
<1>1. /\ FitArchive(blocks, block)
      /\ \A n \in blocks : blockSlot[n] \in Nat /\ blockSlot[n] > blockSlot[archiver.block]
  BY MigratedBlocksFit DEF BackfillInv
<1>2. blockArchive' = blockArchive \union blocks
  BY <1>1, ArchivedReplacesNone DEF BackfillInv
<1>3. OneOfASlot' /\ blockArchive' \subseteq ChainBlock
  BY <1>1, <1>2, GrownArchive DEF BackfillInv
<1>4. RangesHold'
  BY <1>1, <1>2, GrownRangesHold DEF BackfillInv
<1>5. \A n \in blocks : blockSlot[n] \in Nat /\ blockSlot[n] > AnchorSlot
  BY <1>1, FinalizedSlots DEF BackfillInv
<1>6. PrevFinalizedIsNext' /\ Synced' /\ Completed'
  BY <1>2, <1>5, LaterBlocks DEF BackfillInv
<1>7. BackfillTypes'
  BY <1>3 DEF BackfillInv, BackfillTypes
<1> QED BY <1>2, <1>3, <1>4, <1>6, <1>7

\* Finalized' for blocks that come after the last finalized block.
LEMMA MigratedAbove ==
  ASSUME BackfillTypes, Finalized, ~Misled, NEW block \in ChainBlock, CanBeFinalized(block),
         NEW blocks \in SUBSET NewlyFinalized(block),
         blockArchive' = blockArchive \union blocks,
         UNCHANGED <<storedState, backfill>>
  PROVE  Above(backfill.startFrom)' /\ Above(storedState)'
<1>1. ASSUME NEW n \in blocks
      PROVE  storedState \in Lineage[n] /\ backfill.startFrom \in Lineage[n]
  <2>1. n \in ChainBlock /\ archiver.block \in Lineage[n]
    BY MigratedBlocksFit
  <2>2. storedState \in Lineage[archiver.block] /\ backfill.startFrom \in Lineage[archiver.block]
    BY FinalizedSlots DEF Finalized
  <2> QED BY <2>1, <2>2, LineageHolds
<1> QED BY <1>1 DEF Finalized, Above

\* MigrateBlocks keeps the invariant.
LEMMA MigrateBlocksStep ==
  ASSUME BackfillInv, ~Misled, NEW block \in ChainBlock, MigrateBlocks(block)
  PROVE  BackfillInv' /\ blockArchive \subseteq blockArchive'
<1> DEFINE blocks == NewlyFinalized(block)
<1>1. /\ CanBeFinalized(block) /\ blocks \in SUBSET NewlyFinalized(block)
      /\ block # archiver.block
      /\ archiver' = [step |-> "state", block |-> block]
      /\ archiver'.block = block /\ archiver'.step = "state"
  BY DEF MigrateBlocks
<1>2. /\ BackfillTypes' /\ OneOfASlot' /\ RangesHold' /\ PrevFinalizedIsNext'
      /\ Synced' /\ Completed'
      /\ blockArchive' = blockArchive \union blocks
  <2>1. /\ archiver' \in [step : {"idle", "failed", "state", "put", "clear"},
                          block : ChainBlock]
        /\ blockArchive' = Archived(blocks)
        /\ UNCHANGED <<backfilledRanges, storedState, backfill>>
    BY DEF MigrateBlocks, InArchiver, Store
  <2> HIDE DEF blocks
  <2> QED BY <1>1, <2>1, MigratedKeep
<1>3. BackfillTypes /\ Finalized /\ UNCHANGED <<storedState, backfill>>
  BY DEF BackfillInv, MigrateBlocks, InArchiver
<1>4. /\ archiver.block \in ChainBlock /\ archiver.block \in Lineage[block]
      /\ blockSlot[archiver.block] \in Nat /\ blockSlot[block] \in Nat
      /\ blockSlot[archiver.block] < blockSlot[block] /\ block \in Lineage[block]
  <2>1. archiver.block \in ChainBlock /\ archiver.block \in Lineage[block]
    BY <1>1, <1>3 DEF BackfillTypes, CanBeFinalized
  <2> QED BY <1>1, <2>1, LineageHolds, ParentComesBefore
<1>5. \A c \in blockArchive' :
        /\ c \in ChainBlock /\ blockSlot[c] \in Nat
        /\ blockSlot[c] > blockSlot[archiver.block] =>
             c \in Lineage[block] \/ block \in Lineage[c]
  <2>1. ASSUME NEW c \in blockArchive'
        PROVE  c \in ChainBlock /\ blockSlot[c] \in Nat
    BY <1>2, ParentComesBefore DEF BackfillTypes
  <2> QED BY <1>1, <1>2, <2>1 DEF CanBeFinalized, FinalizedBefore, NewlyFinalized
<1>6. Above(block)'
  <2>1. ASSUME NEW c \in blockArchive', blockSlot[c] >= blockSlot[block]
        PROVE  block \in Lineage[c]
    <3>1. blockSlot[c] > blockSlot[archiver.block] /\ c \in ChainBlock
          /\ blockSlot[c] \in Nat
      BY <1>4, <1>5, <2>1
    <3>2. CASE c \in Lineage[block]
      <4>1. c = block
        BY <1>4, <2>1, <3>1, <3>2, LineageHolds
      <4> QED BY <1>4, <4>1
    <3> QED BY <1>5, <3>1, <3>2
  <2> QED BY <2>1 DEF Above
<1>7. Above(backfill.startFrom)' /\ Above(storedState)'
  BY <1>1, <1>2, <1>3, MigratedAbove
<1>8. /\ backfill.startFrom \in Lineage[storedState] /\ storedState \in Lineage[block]
      /\ block # backfill.startFrom
  BY <1>3, <1>4, FinalizedSlots, LineageHolds DEF Finalized, AnchorSlot
<1>9. \A c \in Lineage[block] : blockSlot[c] > AnchorSlot => c \in blockArchive'
  BY <1>2, <1>3 DEF Finalized, NewlyFinalized
<1>10. ASSUME NEW c \in blockArchive', AnchorSlot <= blockSlot[c],
              blockSlot[c] <= blockSlot[block]
       PROVE  c \in Lineage[block]
  <2>1. CASE blockSlot[c] > blockSlot[archiver.block]
    <3>1. c \in Lineage[block] \/ block \in Lineage[c]
      BY <1>5, <2>1
    <3>2. CASE block \in Lineage[c]
      <4>1. c = block
        BY <1>4, <1>5, <1>10, <3>2, LineageHolds
      <4> QED BY <1>4, <4>1
    <3> QED BY <3>1, <3>2
  <2>2. CASE c \in blockArchive /\ blockSlot[c] <= blockSlot[archiver.block]
    <3>1. c \in Lineage[archiver.block]
      BY <1>3, <1>10, <2>2 DEF Finalized
    <3> QED BY <1>4, <3>1, LineageHolds
  <2>3. CASE c \in blocks
    BY <2>3 DEF NewlyFinalized
  <2> QED BY <1>2, <1>4, <1>5, <2>1, <2>2, <2>3
<1>11. Finalized'
  <2>1. /\ Above(archiver.block)'
        /\ (\A c \in Lineage[archiver.block] : blockSlot[c] > AnchorSlot => c \in blockArchive)'
        /\ (\A c \in blockArchive :
              AnchorSlot <= blockSlot[c] /\ blockSlot[c] <= blockSlot[archiver.block]
                => c \in Lineage[archiver.block])'
    BY <1>1, <1>3, <1>6, <1>9, <1>10 DEF AnchorSlot, Above
  <2>2. /\ (backfill.startFrom \in Lineage[storedState])'
        /\ (storedState \in Lineage[archiver.block])'
        /\ (archiver.step \in {"state", "put"} => archiver.block # backfill.startFrom)'
    BY <1>1, <1>3, <1>8
  <2> QED BY <1>7, <2>1, <2>2 DEF Finalized
<1> QED BY <1>2, <1>11 DEF BackfillInv

\* MigrateFails keeps the invariant.
LEMMA MigrateFailsStep ==
  ASSUME BackfillInv, ~Misled, NEW block \in ChainBlock, NEW slot, MigrateFails(block, slot)
  PROVE  BackfillInv' /\ blockArchive \subseteq blockArchive'
<1> DEFINE blocks == {b \in NewlyFinalized(block) : blockSlot[b] >= slot}
<1>1. /\ CanBeFinalized(block) /\ blocks \in SUBSET NewlyFinalized(block)
      /\ archiver.block \in ChainBlock
      /\ archiver' = [archiver EXCEPT !.step = "failed"]
  BY DEF MigrateFails, BackfillInv, BackfillTypes
<1>2. archiver'.block = archiver.block /\ archiver'.step = "failed"
      /\ archiver' \in [step : {"idle", "failed", "state", "put", "clear"}, block : ChainBlock]
  BY <1>1 DEF BackfillInv, BackfillTypes
<1>3. /\ blockArchive' = Archived(blocks)
      /\ UNCHANGED <<backfilledRanges, storedState, backfill>>
      /\ BackfillTypes /\ Finalized
  BY DEF MigrateFails, InArchiver, Store, BackfillInv
<1> HIDE DEF blocks
<1>4. /\ BackfillTypes' /\ OneOfASlot' /\ RangesHold' /\ PrevFinalizedIsNext'
      /\ Synced' /\ Completed'
      /\ blockArchive' = blockArchive \union blocks
  BY <1>1, <1>2, <1>3, MigratedKeep
<1>5. Above(backfill.startFrom)' /\ Above(storedState)'
  BY <1>1, <1>3, <1>4, MigratedAbove
<1>6. \A n \in blocks : /\ blockSlot[n] \in Nat /\ blockSlot[n] > blockSlot[archiver.block]
                        /\ archiver.block \in Lineage[n]
  BY <1>1, <1>3, MigratedBlocksFit
<1>7. Above(archiver.block)'
  BY <1>2, <1>3, <1>4, <1>6 DEF Finalized, Above
<1>8. (\A c \in blockArchive :
         AnchorSlot <= blockSlot[c] /\ blockSlot[c] <= blockSlot[archiver.block]
           => c \in Lineage[archiver.block])'
  <2>1. \A n \in blocks : ~(blockSlot[n] <= blockSlot[archiver.block])
    BY <1>3, <1>6, FinalizedSlots
  <2> QED BY <1>2, <1>3, <1>4, <2>1 DEF Finalized, AnchorSlot
<1>9. /\ (\A c \in Lineage[archiver.block] : blockSlot[c] > AnchorSlot => c \in blockArchive)'
      /\ (backfill.startFrom \in Lineage[storedState])'
      /\ (storedState \in Lineage[archiver.block])'
      /\ (archiver.step \in {"state", "put"} => archiver.block # backfill.startFrom)'
  BY <1>2, <1>3, <1>4 DEF Finalized, AnchorSlot
<1> QED BY <1>4, <1>5, <1>7, <1>8, <1>9 DEF BackfillInv, Finalized

\* MaybeArchiveState keeps the invariant.
LEMMA MaybeArchiveStateStep ==
  ASSUME BackfillInv, NEW stores, NEW step \in {"failed", "put"},
         MaybeArchiveState(stores, step)
  PROVE  BackfillInv' /\ blockArchive \subseteq blockArchive'
<1>1. /\ archiver.step = "state" /\ archiver.block # backfill.startFrom
      /\ archiver.block \in ChainBlock
      /\ archiver'.block = archiver.block /\ archiver'.step = step
      /\ archiver' \in [step : {"idle", "failed", "state", "put", "clear"}, block : ChainBlock]
  BY DEF MaybeArchiveState, BackfillInv, BackfillTypes, Finalized
<1>2. storedState' = archiver.block \/ storedState' = storedState
  BY DEF MaybeArchiveState
<1>3. UNCHANGED <<blockArchive, backfilledRanges, backfill>>
  BY DEF MaybeArchiveState, InArchiver, InDatabase, InArchive
<1>4. BackfillTypes' /\ OneOfASlot' /\ RangesHold' /\ PrevFinalizedIsNext' /\ Synced' /\ Completed'
  <2>1. BackfillTypes'
    BY <1>1, <1>2, <1>3 DEF BackfillInv, BackfillTypes
  <2>2. OneOfASlot' /\ RangesHold'
    BY <1>3 DEF BackfillInv, OneOfASlot, RangesHold, RangeHolds
  <2>3. PrevFinalizedIsNext' /\ Synced' /\ Completed'
    BY <1>3 DEF BackfillInv, PrevFinalizedIsNext, Synced, Completed, AnchorSlot
  <2> QED BY <2>1, <2>2, <2>3
<1>5. /\ (backfill.startFrom \in Lineage[storedState])'
      /\ (storedState \in Lineage[archiver.block])'
  <2>1. archiver.block \in Lineage[archiver.block]
        /\ backfill.startFrom \in Lineage[archiver.block]
    BY <1>1, LineageHolds, FinalizedSlots DEF BackfillInv
  <2> QED BY <1>1, <1>2, <1>3, <2>1 DEF BackfillInv, Finalized
<1>6. Above(backfill.startFrom)' /\ Above(storedState)' /\ Above(archiver.block)'
  BY <1>1, <1>2, <1>3 DEF BackfillInv, Finalized, Above
<1>7. /\ (\A c \in Lineage[archiver.block] : blockSlot[c] > AnchorSlot => c \in blockArchive)'
      /\ (\A c \in blockArchive :
            AnchorSlot <= blockSlot[c] /\ blockSlot[c] <= blockSlot[archiver.block]
              => c \in Lineage[archiver.block])'
      /\ (archiver.step \in {"state", "put"} => archiver.block # backfill.startFrom)'
  BY <1>1, <1>3 DEF BackfillInv, Finalized, AnchorSlot
<1> QED BY <1>3, <1>4, <1>5, <1>6, <1>7 DEF BackfillInv, Finalized

\* Steps that write no more than a range keep the invariant if the range holds.
LEMMA RangeStep ==
  ASSUME BackfillInv, UNCHANGED <<blockArchive, storedState, backfill>>,
         archiver'.block = archiver.block,
         archiver' \in [step : {"idle", "failed", "state", "put", "clear"}, block : ChainBlock],
         archiver'.step \notin {"state", "put"},
         DOMAIN backfilledRanges' \subseteq Nat,
         \A k \in DOMAIN backfilledRanges' : backfilledRanges'[k] \in Nat,
         RangesHold'
  PROVE  BackfillInv' /\ blockArchive \subseteq blockArchive'
<1>1. BackfillTypes'
  BY DEF BackfillInv, BackfillTypes
<1>2. OneOfASlot' /\ PrevFinalizedIsNext' /\ Synced' /\ Completed'
  BY DEF BackfillInv, OneOfASlot, PrevFinalizedIsNext, Synced, Completed, AnchorSlot
<1>3. Finalized'
  BY DEF BackfillInv, Finalized, Above, AnchorSlot
<1> QED BY <1>1, <1>2, <1>3 DEF BackfillInv

\* Putting a range that holds.
LEMMA PutRange ==
  ASSUME BackfillTypes, RangesHold, NEW b \in blockArchive, NEW value \in Nat,
         {c \in Lineage[b] : blockSlot[c] > value} \subseteq blockArchive,
         \A c \in blockArchive :
           value <= blockSlot[c] /\ blockSlot[c] <= blockSlot[b] => c \in Lineage[b],
         backfilledRanges' = Put(backfilledRanges, blockSlot[b], value),
         UNCHANGED blockArchive
  PROVE  /\ RangesHold' /\ DOMAIN backfilledRanges' \subseteq Nat
         /\ \A k \in DOMAIN backfilledRanges' : backfilledRanges'[k] \in Nat
<1>1. blockSlot[b] \in Nat
  BY ParentComesBefore DEF BackfillTypes
<1>2. /\ DOMAIN backfilledRanges' = DOMAIN backfilledRanges \union {blockSlot[b]}
      /\ \A k \in DOMAIN backfilledRanges \union {blockSlot[b]} :
           backfilledRanges'[k] = IF k = blockSlot[b] THEN value ELSE backfilledRanges[k]
  BY DEF Put
<1>3. /\ DOMAIN backfilledRanges' \subseteq Nat
      /\ \A k \in DOMAIN backfilledRanges' : backfilledRanges'[k] \in Nat
  BY <1>1, <1>2 DEF BackfillTypes
<1>4. ASSUME NEW k \in DOMAIN backfilledRanges' PROVE RangeHolds(k)'
  <2>1. CASE k = blockSlot[b]
    <3>1. backfilledRanges'[k] = value
      BY <1>2, <2>1
    <3> QED BY <2>1, <3>1 DEF RangeHolds
  <2>2. CASE k # blockSlot[b]
    <3>1. k \in DOMAIN backfilledRanges /\ backfilledRanges'[k] = backfilledRanges[k]
      BY <1>2, <2>2
    <3> QED BY <3>1 DEF RangesHold, RangeHolds
  <2> QED BY <2>1, <2>2
<1> QED BY <1>3, <1>4 DEF RangesHold

\* So does deleting ranges.
LEMMA DeleteRanges ==
  ASSUME BackfillTypes, RangesHold, NEW keys,
         backfilledRanges' = DeleteKeys(backfilledRanges, keys), UNCHANGED blockArchive
  PROVE  /\ RangesHold' /\ DOMAIN backfilledRanges' \subseteq Nat
         /\ \A k \in DOMAIN backfilledRanges' : backfilledRanges'[k] \in Nat
<1>1. /\ DOMAIN backfilledRanges' = DOMAIN backfilledRanges \ keys
      /\ \A k \in DOMAIN backfilledRanges \ keys : backfilledRanges'[k] = backfilledRanges[k]
  BY DEF DeleteKeys
<1>2. ASSUME NEW k \in DOMAIN backfilledRanges' PROVE RangeHolds(k)'
  BY <1>1 DEF RangesHold, RangeHolds
<1> QED BY <1>1, <1>2 DEF RangesHold, BackfillTypes

\* UpdateBackfillRange keeps the invariant.
LEMMA UpdateBackfillRangeStep ==
  ASSUME BackfillInv, UpdateBackfillRange
  PROVE  BackfillInv' /\ blockArchive \subseteq blockArchive'
<1>1. /\ BackfillTypes /\ Finalized /\ RangesHold
      /\ archiver.step = "put" /\ archiver.block # backfill.startFrom
      /\ backfilledRanges' = Put(backfilledRanges, blockSlot[archiver.block], AnchorSlot)
      /\ UNCHANGED <<blockArchive, storedState, backfill>>
  BY DEF UpdateBackfillRange, InArchiver, InArchive, BackfillInv, Finalized
<1>2. /\ archiver'.block = archiver.block /\ archiver'.step = "clear"
      /\ archiver' \in [step : {"idle", "failed", "state", "put", "clear"}, block : ChainBlock]
  BY <1>1 DEF UpdateBackfillRange, BackfillTypes
<1>3. archiver.block \in blockArchive /\ AnchorSlot \in Nat
  <2>1. archiver.block \in Lineage[archiver.block] /\ AnchorSlot < blockSlot[archiver.block]
        /\ AnchorSlot \in Nat
    BY <1>1, FinalizedSlots, LineageHolds
  <2> QED BY <1>1, <2>1 DEF Finalized
<1>4. /\ {c \in Lineage[archiver.block] : blockSlot[c] > AnchorSlot} \subseteq blockArchive
      /\ \A c \in blockArchive :
           AnchorSlot <= blockSlot[c] /\ blockSlot[c] <= blockSlot[archiver.block]
             => c \in Lineage[archiver.block]
  BY <1>1 DEF Finalized
<1>5. /\ RangesHold' /\ DOMAIN backfilledRanges' \subseteq Nat
      /\ \A k \in DOMAIN backfilledRanges' : backfilledRanges'[k] \in Nat
  BY <1>1, <1>3, <1>4, PutRange
<1>6. archiver'.step \notin {"state", "put"}
  BY <1>2
<1> QED BY <1>1, <1>2, <1>5, <1>6, RangeStep

\* ClearForwardRanges keeps the invariant.
LEMMA ClearForwardRangesStep ==
  ASSUME BackfillInv, ClearForwardRanges
  PROVE  BackfillInv' /\ blockArchive \subseteq blockArchive'
<1> DEFINE keys == {k \in DOMAIN backfilledRanges :
                      AnchorSlot < k /\ k < blockSlot[archiver.block]}
<1>1. /\ BackfillTypes /\ RangesHold
      /\ backfilledRanges' = DeleteKeys(backfilledRanges, keys)
      /\ UNCHANGED <<blockArchive, storedState, backfill>>
  BY DEF ClearForwardRanges, InArchiver, InArchive, BackfillInv
<1>2. /\ archiver'.block = archiver.block /\ archiver'.step = "idle"
      /\ archiver' \in [step : {"idle", "failed", "state", "put", "clear"}, block : ChainBlock]
  BY <1>1 DEF ClearForwardRanges, BackfillTypes
<1>3. /\ RangesHold' /\ DOMAIN backfilledRanges' \subseteq Nat
      /\ \A k \in DOMAIN backfilledRanges' : backfilledRanges'[k] \in Nat
  <2> HIDE DEF keys
  <2> QED BY <1>1, DeleteRanges
<1>4. archiver'.step \notin {"state", "put"}
  BY <1>2
<1> QED BY <1>1, <1>2, <1>3, <1>4, RangeStep

-----------------------------------------------------------------------------
(* The loop *)

\* A round that has not ended has not completed.
LEMMA NotCompleted ==
  ASSUME Completed, backfill.step # "ended"
  PROVE  backfill.status # "completed"
BY DEF Completed

\* A step of the loop that leaves the archive alone.
LEMMA LoopKeeps ==
  ASSUME BackfillInv, UNCHANGED <<blockArchive, storedState, archiver>>,
         RangesHold', DOMAIN backfilledRanges' \subseteq Nat,
         \A k \in DOMAIN backfilledRanges' : backfilledRanges'[k] \in Nat,
         backfill' \in Backfills,
         backfill'.startFrom = backfill.startFrom,
         PrevFinalizedIsNext', Synced', Completed'
  PROVE  BackfillInv' /\ blockArchive \subseteq blockArchive'
<1>1. BackfillTypes' /\ OneOfASlot'
  BY DEF BackfillInv, BackfillTypes, OneOfASlot
<1>2. Finalized'
  BY DEF BackfillInv, Finalized, Above, AnchorSlot
<1> QED BY <1>1, <1>2 DEF BackfillInv

\* One that leaves both tables and the next checkpoint alone.
LEMMA LoopWaits ==
  ASSUME BackfillInv, InDatabase, InBackfill, backfill' \in Backfills,
         backfill'.startFrom = backfill.startFrom,
         backfill'.wsCheckpoint = backfill.wsCheckpoint,
         backfill'.prevFinalized = backfill.prevFinalized,
         backfill'.lastBackSynced = NoBlock => backfill.lastBackSynced = NoBlock,
         backfill'.status # "completed",
         Synced'
  PROVE  BackfillInv' /\ blockArchive \subseteq blockArchive'
<1>1. RangesHold' /\ DOMAIN backfilledRanges' \subseteq Nat
      /\ \A k \in DOMAIN backfilledRanges' : backfilledRanges'[k] \in Nat
  BY DEF BackfillInv, RangesHold, RangeHolds, InDatabase, InArchive, BackfillTypes
<1>2. PrevFinalizedIsNext'
  BY DEF BackfillInv, PrevFinalizedIsNext, AnchorSlot, InDatabase, InArchive
<1>3. Completed'
  BY DEF BackfillInv, Completed
<1> QED BY <1>1, <1>2, <1>3, LoopKeeps DEF InDatabase, InArchive, InBackfill

\* AddPeer keeps the invariant.
LEMMA AddPeerStep ==
  ASSUME BackfillInv, AddPeer
  PROVE  BackfillInv' /\ blockArchive \subseteq blockArchive'
<1>1. backfill \in Backfills /\ backfill.status # "completed" /\ InDatabase /\ InBackfill
  BY NotCompleted DEF AddPeer, BackfillInv, BackfillTypes
<1>2. backfill' = [backfill EXCEPT !.triggered = TRUE]
  BY DEF AddPeer
<1>3. /\ backfill' \in Backfills
      /\ backfill'.startFrom = backfill.startFrom
      /\ backfill'.wsCheckpoint = backfill.wsCheckpoint
      /\ backfill'.prevFinalized = backfill.prevFinalized
      /\ backfill'.lastBackSynced = backfill.lastBackSynced
      /\ backfill'.status = backfill.status
      /\ backfill'.anchorBlock = backfill.anchorBlock
      /\ backfill'.anchorBlockRoot = backfill.anchorBlockRoot
      /\ backfill'.step = backfill.step /\ backfill'.jumped = backfill.jumped
  BY <1>1, <1>2 DEF Backfills
<1>4. Synced'
  BY <1>1, <1>3 DEF BackfillInv, Synced, InDatabase, InArchive
<1> QED BY <1>1, <1>3, <1>4, LoopWaits

\* The steps between two looks at the tables.
LEMMA WaitingSteps ==
  ASSUME BackfillInv, NoPeer \/ RequestBlocks \/ RequestFails
  PROVE  BackfillInv' /\ blockArchive \subseteq blockArchive'
<1>1. backfill.step \in {"network", "byRoot", "byRange"}
  BY DEF NoPeer, RequestBlocks, RequestFails
<1>2. backfill \in Backfills /\ backfill.status # "completed" /\ InDatabase /\ InBackfill
  BY <1>1, NotCompleted
     DEF NoPeer, RequestBlocks, RequestFails, BackfillInv, BackfillTypes
<1>3. PICK status \in {backfill.status, "pending"}, step \in {"next", "byRoot", "byRange"},
           triggered \in BOOLEAN :
        /\ backfill' = [backfill EXCEPT !.status = status, !.step = step,
                                        !.triggered = triggered]
        /\ step = "byRange" => backfill.anchorBlock # NoBlock
        /\ step = "byRoot" => backfill.anchorBlock = NoBlock
  <2>1. CASE NoPeer
    <3>1. backfill' = [backfill EXCEPT !.status = "pending", !.step = "next",
                                       !.triggered = backfill.triggered]
          /\ backfill.triggered \in BOOLEAN
      BY <1>2, <2>1 DEF NoPeer, Backfills
    <3> QED BY <3>1
  <2>2. CASE RequestBlocks
    <3> DEFINE step == IF backfill.anchorBlock = NoBlock THEN "byRoot" ELSE "byRange"
    <3>1. backfill' = [backfill EXCEPT !.status = backfill.status, !.step = step,
                                       !.triggered = backfill.triggered]
          /\ backfill.triggered \in BOOLEAN
      BY <1>2, <2>2 DEF RequestBlocks, Backfills
    <3> QED BY <3>1
  <2>3. CASE RequestFails
    <3>1. backfill' = [backfill EXCEPT !.status = backfill.status, !.step = "next",
                                       !.triggered = TRUE]
      BY <1>2, <2>3 DEF RequestFails, NextRound, Backfills
    <3> QED BY <3>1
  <2> QED BY <2>1, <2>2, <2>3
<1>4. /\ backfill' \in Backfills
      /\ backfill'.startFrom = backfill.startFrom
      /\ backfill'.wsCheckpoint = backfill.wsCheckpoint
      /\ backfill'.prevFinalized = backfill.prevFinalized
      /\ backfill'.lastBackSynced = backfill.lastBackSynced
      /\ backfill'.status # "completed"
      /\ backfill'.anchorBlock = backfill.anchorBlock
      /\ backfill'.anchorBlockRoot = backfill.anchorBlockRoot
      /\ backfill'.step = step
  BY <1>2, <1>3 DEF Backfills
<1>5. Synced'
  BY <1>1, <1>2, <1>3, <1>4 DEF BackfillInv, Synced, InDatabase, InArchive
<1> QED BY <1>2, <1>4, <1>5, LoopWaits

\* Cleanup keeps the invariant.
LEMMA CleanupStep ==
  ASSUME BackfillInv, Cleanup
  PROVE  BackfillInv' /\ blockArchive \subseteq blockArchive'
<1>1. /\ backfill \in Backfills /\ backfill.status # "completed"
      /\ backfill.step = "cleanup" /\ BackfillTypes /\ RangesHold
      /\ UNCHANGED <<blockArchive, storedState, archiver>>
  BY NotCompleted DEF Cleanup, BackfillInv, BackfillTypes, InBackfill, InArchive
<1>2. /\ RangesHold' /\ DOMAIN backfilledRanges' \subseteq Nat
      /\ \A k \in DOMAIN backfilledRanges' : backfilledRanges'[k] \in Nat
  BY <1>1, DeleteRanges DEF Cleanup
<1>3. /\ backfill' \in Backfills
      /\ backfill'.startFrom = backfill.startFrom
      /\ backfill'.wsCheckpoint = backfill.wsCheckpoint
      /\ backfill'.prevFinalized = backfill.prevFinalized
      /\ backfill'.lastBackSynced = backfill.lastBackSynced
      /\ backfill'.status = backfill.status
      /\ backfill'.anchorBlock = backfill.anchorBlock
      /\ backfill'.anchorBlockRoot = backfill.anchorBlockRoot
      /\ backfill'.step = IF backfill.jumped THEN "next" ELSE "db"
  BY <1>1 DEF Cleanup, Backfills
<1>4. Synced'
  BY <1>1, <1>3 DEF BackfillInv, Synced
<1>5. PrevFinalizedIsNext'
  BY <1>1, <1>3 DEF BackfillInv, PrevFinalizedIsNext, AnchorSlot
<1>6. Completed'
  BY <1>1, <1>3 DEF BackfillInv, Completed
<1> QED BY <1>1, <1>2, <1>3, <1>4, <1>5, <1>6, LoopKeeps

\* What ExtractPrevious returns: an archived block below a slot with none
\* between.
LEMMA ExtractPreviousFinds ==
  ASSUME NEW archive \in SUBSET ChainBlock, NEW belowSlot \in Nat,
         NEW prev, prev = ExtractPrevious(archive, belowSlot)
  PROVE  /\ prev \in [root : ChainBlock \union {NoBlock}, slot : Int]
         /\ prev.slot < belowSlot
         /\ (prev.root \in archive /\ blockSlot[prev.root] = prev.slot) \/ prev.slot = -1
         /\ \A c \in archive : blockSlot[c] < belowSlot => blockSlot[c] <= prev.slot
<1> DEFINE below == {b \in archive : blockSlot[b] < belowSlot}
           slots == SlotsOfBlocks(below)
<1>1. CASE below = {}
  <2>1. prev = [root |-> NoBlock, slot |-> -1]
    BY <1>1 DEF ExtractPrevious
  <2> QED BY <1>1, <2>1
<1>2. CASE below # {}
  <2>1. slots \in SUBSET Nat /\ slots # {} /\ \A k \in slots : k < belowSlot /\ k <= belowSlot
    <3>1. \A b \in below : blockSlot[b] \in Nat /\ blockSlot[b] < belowSlot
                           /\ blockSlot[b] <= belowSlot
      BY ParentComesBefore
    <3> QED BY <1>2, <3>1 DEF SlotsOfBlocks
  <2>2. \E m \in slots : \A k \in slots : k <= m
    <3> HIDE DEF slots
    <3> QED BY <2>1, GreatestNatural
  <2>3. \E m \in slots : \A k \in slots : m >= k
    BY <2>1, <2>2
  <2>4. Max(slots) \in slots /\ \A k \in slots : Max(slots) >= k
    <3> HIDE DEF slots
    <3> QED BY <2>3 DEF Max
  <2> DEFINE slot == Max(slots)
             root == CHOOSE b \in below : blockSlot[b] = slot
  <2>5. prev = [root |-> root, slot |-> slot]
    BY <1>2 DEF ExtractPrevious
  <2>6. \E b \in below : blockSlot[b] = slot
    BY <2>4 DEF SlotsOfBlocks
  <2>7. root \in below /\ blockSlot[root] = slot
    <3> HIDE DEF below, slot
    <3> QED BY <2>6
  <2>8. \A c \in below : slot >= blockSlot[c]
    <3>1. \A c \in below : blockSlot[c] \in slots
      BY DEF SlotsOfBlocks
    <3> HIDE DEF below, slots
    <3> QED BY <2>4, <3>1
  <2>9. slot \in Nat /\ slot < belowSlot
    <3> HIDE DEF slots
    <3> QED BY <2>1, <2>4
  <2>10. root \in archive
    BY <2>7
  <2>11. \A c \in archive : blockSlot[c] < belowSlot => blockSlot[c] <= slot
    <3> SUFFICES ASSUME NEW c \in archive, blockSlot[c] < belowSlot
                 PROVE  blockSlot[c] <= slot
      OBVIOUS
    <3>1. c \in below /\ blockSlot[c] \in Nat
      BY ParentComesBefore
    <3>2. slot >= blockSlot[c]
      BY <2>8, <3>1
    <3> HIDE DEF slot
    <3> QED BY <2>9, <3>1, <3>2
  <2> HIDE DEF root, slot
  <2> QED BY <2>5, <2>7, <2>9, <2>10, <2>11
<1> QED BY <1>1, <1>2

\* A block that the archive holds changes nothing.
LEMMA ArchivedAgain ==
  ASSUME OneOfASlot, NEW b \in blockArchive
  PROVE  Archived({b}) = blockArchive
<1>1. \A c : c \in Archived({b}) <=> c \in blockArchive
  BY DEF Archived, SlotsOfBlocks, OneOfASlot
<1> QED BY <1>1

\* The slots of a block that was synced back to.
LEMMA SyncedSlots ==
  ASSUME BackfillTypes, Synced, backfill.lastBackSynced # NoBlock
  PROVE  /\ backfill.startFrom \in ChainBlock /\ AnchorSlot \in Nat
         /\ backfill.lastBackSynced \in Lineage[backfill.startFrom]
         /\ backfill.lastBackSynced \in ChainBlock /\ LastSlot \in Nat
         /\ LastSlot <= AnchorSlot /\ backfill.prevFinalized.slot \in Int
         /\ backfill.startFrom \in blockArchive
<1>1. /\ backfill.startFrom \in ChainBlock
      /\ backfill.lastBackSynced \in ChainBlock
      /\ backfill.lastBackSynced \in Lineage[backfill.startFrom]
      /\ backfill.prevFinalized.slot \in Int /\ backfill.startFrom \in blockArchive
  BY DEF BackfillTypes, Backfills, Synced
<1> QED BY <1>1, LineageHolds, ParentComesBefore DEF AnchorSlot, LastSlot

\* When the checks of a round pass, the last block is in the archive already:
\* what they store is there.
LEMMA IterateStoresNothing ==
  ASSUME BackfillInv, Aligned, backfill.lastBackSynced # NoBlock, ~MissesCheckpoint
  PROVE  /\ backfill.lastBackSynced \in blockArchive
         /\ LastSlot >= backfill.prevFinalized.slot
         /\ Archived({backfill.lastBackSynced}) = blockArchive
<1>1. LastSlot \in Nat /\ backfill.prevFinalized.slot \in Int
  BY SyncedSlots DEF BackfillInv
<1>2. CASE LastSlot = backfill.prevFinalized.slot
  <2>1. backfill.lastBackSynced = backfill.prevFinalized.root
    BY <1>2 DEF MissesCheckpoint, Aligned
  <2>2. backfill.lastBackSynced \in blockArchive
    BY <1>1, <1>2, <2>1 DEF BackfillInv, PrevFinalizedIsNext
  <2> QED BY <1>1, <1>2, <2>2, ArchivedAgain DEF BackfillInv
<1>3. CASE LastSlot # backfill.prevFinalized.slot
  <2>1. LastSlot > backfill.prevFinalized.slot
    BY <1>1, <1>3 DEF MissesCheckpoint
  <2>2. backfill.lastBackSynced \in blockArchive
    BY <2>1 DEF BackfillInv, Synced, LastSlot
  <2> QED BY <1>1, <2>1, <2>2, ArchivedAgain DEF BackfillInv
<1> QED BY <1>2, <1>3

\* Aborting keeps the invariant.
LEMMA AbortedStep ==
  ASSUME BackfillInv, InDatabase, InBackfill, backfill' = AbortedLoop
  PROVE  BackfillInv' /\ blockArchive \subseteq blockArchive'
<1>1. backfill \in Backfills
  BY DEF BackfillInv, BackfillTypes
<1>2. /\ backfill' \in Backfills
      /\ backfill'.startFrom = backfill.startFrom
      /\ backfill'.wsCheckpoint = backfill.wsCheckpoint
      /\ backfill'.prevFinalized = backfill.prevFinalized
      /\ backfill'.lastBackSynced = backfill.lastBackSynced
      /\ backfill'.status = "aborted"
      /\ backfill'.anchorBlock = backfill.anchorBlock
      /\ backfill'.anchorBlockRoot = backfill.anchorBlockRoot
      /\ backfill'.step = "ended"
  BY <1>1 DEF AbortedLoop, Backfills
<1>3. Synced'
  BY <1>2 DEF BackfillInv, Synced, InDatabase, InArchive
<1> QED BY <1>2, <1>3, LoopWaits

\* Iterate keeps the invariant.
LEMMA IterateStep ==
  ASSUME BackfillInv, Aligned, Iterate
  PROVE  BackfillInv' /\ blockArchive \subseteq blockArchive'
<1>1. /\ backfill \in Backfills /\ backfill.step = "next" /\ InBackfill
      /\ BackfillTypes /\ PrevFinalizedIsNext /\ Synced /\ OneOfASlot
      /\ backfill.startFrom \in ChainBlock
  BY DEF Iterate, BackfillInv, BackfillTypes, Backfills
<1>2. CASE /\ backfill.lastBackSynced = NoBlock
           /\ backfill' = [backfill EXCEPT !.triggered = FALSE, !.status = "syncing",
                                           !.step = "db"]
           /\ InDatabase
  <2>1. /\ backfill' \in Backfills
        /\ backfill'.startFrom = backfill.startFrom
        /\ backfill'.wsCheckpoint = backfill.wsCheckpoint
        /\ backfill'.prevFinalized = backfill.prevFinalized
        /\ backfill'.lastBackSynced = backfill.lastBackSynced
        /\ backfill'.status = "syncing"
        /\ backfill'.anchorBlock = backfill.anchorBlock
        /\ backfill'.anchorBlockRoot = backfill.anchorBlockRoot
        /\ backfill'.step = "db"
    BY <1>1, <1>2 DEF Backfills
  <2>2. Synced'
    BY <1>1, <1>2, <2>1 DEF Synced, InDatabase, InArchive
  <2> QED BY <1>1, <1>2, <2>1, <2>2, LoopWaits
<1>3. CASE InDatabase /\ backfill' = AbortedLoop
  BY <1>1, <1>3, AbortedStep
<1>4. CASE /\ backfill.lastBackSynced # NoBlock /\ ~MissesCheckpoint
           /\ InDatabase
           /\ backfill' = [backfill EXCEPT
                             !.triggered = FALSE, !.status = "syncing",
                             !.prevFinalized =
                                IF LastSlot = backfill.prevFinalized.slot
                                THEN ExtractPrevious(blockArchive, LastSlot)
                                ELSE backfill.prevFinalized,
                             !.wsValidated = backfill.wsValidated \/ ChecksWs,
                             !.step = "range"]
  <2> DEFINE prev == ExtractPrevious(blockArchive, LastSlot)
  <2>1. /\ backfill.lastBackSynced \in blockArchive
        /\ LastSlot >= backfill.prevFinalized.slot
        /\ LastSlot \in Nat /\ AnchorSlot \in Nat /\ LastSlot <= AnchorSlot
        /\ backfill.lastBackSynced \in Lineage[backfill.startFrom]
        /\ backfill.prevFinalized.slot \in Int
    BY <1>1, <1>4, IterateStoresNothing, SyncedSlots
  <2>2. /\ prev \in [root : ChainBlock \union {NoBlock}, slot : Int]
        /\ prev.slot < LastSlot
        /\ (prev.root \in blockArchive /\ blockSlot[prev.root] = prev.slot) \/ prev.slot = -1
        /\ \A c \in blockArchive : blockSlot[c] < LastSlot => blockSlot[c] <= prev.slot
    <3>1. blockArchive \in SUBSET ChainBlock
      BY <1>1 DEF BackfillTypes
    <3> QED BY <2>1, <3>1, ExtractPreviousFinds
  <2> HIDE DEF prev
  <2>3. backfill'.prevFinalized = IF LastSlot = backfill.prevFinalized.slot
                                  THEN prev ELSE backfill.prevFinalized
    BY <1>1, <1>4 DEF prev, Backfills
  <2>4. (backfill.wsValidated \/ ChecksWs) \in BOOLEAN
    OBVIOUS
  <2>5. /\ backfill' \in Backfills
        /\ backfill'.startFrom = backfill.startFrom
        /\ backfill'.wsCheckpoint = backfill.wsCheckpoint
        /\ backfill'.lastBackSynced = backfill.lastBackSynced
        /\ backfill'.status = "syncing"
        /\ backfill'.anchorBlock = backfill.anchorBlock
        /\ backfill'.anchorBlockRoot = backfill.anchorBlockRoot
        /\ backfill'.step = "range"
    BY <1>1, <1>4, <2>2, <2>4 DEF Backfills, prev
  <2>6. backfill'.prevFinalized.slot < LastSlot
    BY <2>1, <2>2, <2>3
  <2>7. UNCHANGED <<blockArchive, backfilledRanges, storedState, archiver>>
    BY <1>1, <1>4 DEF InDatabase, InArchive, InBackfill
  <2>8. ASSUME NEW c \in blockArchive, prev.slot < blockSlot[c], blockSlot[c] <= AnchorSlot,
               LastSlot = backfill.prevFinalized.slot
        PROVE  c \in Lineage[backfill.startFrom]
    <3>1. blockSlot[c] \in Nat /\ prev.slot \in Int
      BY <1>1, <2>2, ParentComesBefore DEF BackfillTypes
    <3>2. ~(blockSlot[c] < LastSlot)
      BY <2>2, <2>8, <3>1
    <3>3. CASE blockSlot[c] = LastSlot
      <4>1. c = backfill.lastBackSynced
        BY <1>1, <2>1, <3>3 DEF OneOfASlot, LastSlot
      <4> QED BY <2>1, <4>1
    <3>4. CASE blockSlot[c] > LastSlot
      BY <1>1, <2>8, <3>4 DEF PrevFinalizedIsNext
    <3> QED BY <2>1, <3>1, <3>2, <3>3, <3>4
  <2>9. PrevFinalizedIsNext'
    BY <1>1, <1>4, <2>2, <2>3, <2>5, <2>7, <2>8 DEF PrevFinalizedIsNext, AnchorSlot
  <2>10. Synced'
    BY <1>1, <1>4, <2>1, <2>5, <2>6, <2>7 DEF Synced, LastSlot
  <2>11. Completed'
    BY <2>5 , <2>7 DEF Completed, BackfillInv
  <2>12. RangesHold' /\ DOMAIN backfilledRanges' \subseteq Nat
         /\ \A k \in DOMAIN backfilledRanges' : backfilledRanges'[k] \in Nat
    BY <2>7 DEF BackfillInv, RangesHold, RangeHolds, BackfillTypes
  <2> QED BY <2>5, <2>7, <2>9, <2>10, <2>11, <2>12, LoopKeeps
<1>5. CASE backfill.lastBackSynced # NoBlock /\ ~MissesCheckpoint
  <2>1. /\ Archived({backfill.lastBackSynced}) = blockArchive
        /\ backfill.lastBackSynced \in rootIndex
    BY <1>5, IterateStoresNothing DEF Aligned
  <2>2. InDatabase
    <3>1. Store({backfill.lastBackSynced}) \/ Store({})
      BY <1>5 DEF Iterate
    <3>2. UNCHANGED backfilledRanges
      BY <1>5 DEF Iterate, InDatabase
    <3> QED BY <2>1, <3>1, <3>2, ArchivedNothing DEF Store, InDatabase, InArchive
  <2>3. blockArchive' = blockArchive
    BY <2>2 DEF InDatabase, InArchive
  <2>4. \/ backfill' = AbortedLoop
        \/ backfill' = [backfill EXCEPT
                          !.triggered = FALSE, !.status = "syncing",
                          !.prevFinalized =
                             IF LastSlot = backfill.prevFinalized.slot
                             THEN ExtractPrevious(blockArchive, LastSlot)
                             ELSE backfill.prevFinalized,
                          !.wsValidated = backfill.wsValidated \/ ChecksWs,
                          !.step = "range"]
    BY <1>1, <1>5, <2>3 DEF Iterate, Backfills
  <2> QED BY <1>3, <1>4, <1>5, <2>2, <2>4
<1>6. \/ backfill.lastBackSynced # NoBlock /\ ~MissesCheckpoint
      \/ InDatabase /\ backfill' = AbortedLoop
      \/ /\ backfill.lastBackSynced = NoBlock
         /\ backfill' = [backfill EXCEPT !.triggered = FALSE, !.status = "syncing",
                                         !.step = "db"]
         /\ InDatabase
  BY <1>1 DEF Iterate, Backfills
<1> QED BY <1>2, <1>3, <1>5, <1>6

\* WriteRange keeps the invariant.
LEMMA WriteRangeStep ==
  ASSUME BackfillInv, WriteRange
  PROVE  BackfillInv' /\ blockArchive \subseteq blockArchive'
<1>1. /\ backfill \in Backfills /\ backfill.step = "range"
      /\ UNCHANGED <<blockArchive, storedState, archiver>>
      /\ BackfillTypes /\ PrevFinalizedIsNext /\ Synced /\ RangesHold
      /\ backfill.status # "completed"
  BY NotCompleted DEF WriteRange, InBackfill, InArchive, BackfillInv, BackfillTypes
<1>2. /\ backfill.lastBackSynced # NoBlock /\ backfill.lastBackSynced \in blockArchive
      /\ backfill.prevFinalized.slot < LastSlot
  BY <1>1 DEF Synced, LastSlot
<1>3. /\ backfill.startFrom \in ChainBlock /\ AnchorSlot \in Nat
      /\ backfill.lastBackSynced \in Lineage[backfill.startFrom]
      /\ backfill.lastBackSynced \in ChainBlock /\ LastSlot \in Nat
      /\ LastSlot <= AnchorSlot /\ backfill.prevFinalized.slot \in Int
      /\ backfill.startFrom \in blockArchive
  BY <1>1, <1>2, SyncedSlots
<1>4. {c \in Lineage[backfill.startFrom] : blockSlot[c] > LastSlot} \subseteq blockArchive
  BY <1>1, <1>2 DEF Synced, LastSlot
<1>5. ASSUME NEW c \in blockArchive, LastSlot <= blockSlot[c],
             blockSlot[c] <= blockSlot[backfill.startFrom]
      PROVE  c \in Lineage[backfill.startFrom]
  <2>1. backfill.prevFinalized.slot < blockSlot[c] /\ blockSlot[c] <= AnchorSlot
    <3>1. blockSlot[c] \in Nat
      BY <1>1, ParentComesBefore DEF BackfillTypes
    <3> QED BY <1>2, <1>3, <1>5, <3>1 DEF AnchorSlot
  <2> QED BY <1>1, <2>1 DEF PrevFinalizedIsNext
<1>6. /\ RangesHold' /\ DOMAIN backfilledRanges' \subseteq Nat
      /\ \A k \in DOMAIN backfilledRanges' : backfilledRanges'[k] \in Nat
  <2>1. CASE backfilledRanges' = backfilledRanges
    BY <1>1, <2>1 DEF RangesHold, RangeHolds, BackfillTypes
  <2>2. CASE backfilledRanges' = Put(backfilledRanges, blockSlot[backfill.startFrom], LastSlot)
    BY <1>1, <1>3, <1>4, <1>5, <2>2, PutRange
  <2> QED BY <2>1, <2>2 DEF WriteRange
<1>7. PICK written \in Int :
        backfill' = IF LastSlot = 0
                    THEN [backfill EXCEPT !.rangeWritten = written,
                                          !.status = "completed", !.step = "ended"]
                    ELSE [backfill EXCEPT !.rangeWritten = written, !.step = "jump"]
  <2> DEFINE written == IF backfill.rangeWritten = Unset \/ LastSlot < backfill.rangeWritten
                        THEN LastSlot ELSE backfill.rangeWritten
  <2>1. written \in Int
    BY <1>1, <1>3 DEF Backfills
  <2>2. backfill' = IF LastSlot = 0
                    THEN [backfill EXCEPT !.rangeWritten = written,
                                          !.status = "completed", !.step = "ended"]
                    ELSE [backfill EXCEPT !.rangeWritten = written, !.step = "jump"]
    BY <1>1 DEF WriteRange, Backfills
  <2> QED BY <2>1, <2>2
<1>8. /\ backfill' \in Backfills
      /\ backfill'.startFrom = backfill.startFrom
      /\ backfill'.wsCheckpoint = backfill.wsCheckpoint
      /\ backfill'.prevFinalized = backfill.prevFinalized
      /\ backfill'.lastBackSynced = backfill.lastBackSynced
      /\ backfill'.anchorBlock = backfill.anchorBlock
      /\ backfill'.anchorBlockRoot = backfill.anchorBlockRoot
      /\ backfill'.jumped = backfill.jumped
      /\ backfill'.status = IF LastSlot = 0 THEN "completed" ELSE backfill.status
      /\ backfill'.step = IF LastSlot = 0 THEN "ended" ELSE "jump"
  BY <1>1, <1>7 DEF Backfills
<1>9. Synced'
  <2>1. LastSlot # 0 => backfill.lastBackSynced # genesisBlock
    BY BackfillAssumption DEF LastSlot
  <2> QED BY <1>1, <1>2, <1>8, <2>1 DEF Synced, LastSlot
<1>10. PrevFinalizedIsNext'
  BY <1>1, <1>8 DEF PrevFinalizedIsNext, AnchorSlot
<1>11. LastSlot = 0 => Lineage[backfill.startFrom] \subseteq blockArchive
  <2>1. ASSUME LastSlot = 0, NEW c \in Lineage[backfill.startFrom]
        PROVE  c \in blockArchive
    <3>1. c \in ChainBlock /\ blockSlot[c] \in Nat
      BY <1>3, LineageHolds, ParentComesBefore
    <3>2. CASE blockSlot[c] > 0
      BY <1>4, <2>1, <3>2
    <3>3. CASE blockSlot[c] = 0
      <4>1. c = genesisBlock /\ backfill.lastBackSynced = genesisBlock
        BY <1>3, <2>1, <3>1, <3>3, BackfillAssumption DEF LastSlot
      <4> QED BY <1>2, <4>1
    <3> QED BY <3>1, <3>2, <3>3
  <2> QED BY <2>1
<1>12. Completed'
  BY <1>1, <1>8, <1>11 DEF BackfillInv, Completed
<1> QED BY <1>1, <1>6, <1>8, <1>9, <1>10, <1>12, LoopKeeps

\* Where a jump goes: a block of the synced lineage, with all of that lineage
\* after it in the archive, and no other block of the archive there.
LEMMA JumpLands ==
  ASSUME BackfillInv, backfill.step = "jump", CanJump,
         NEW b, b = CHOOSE c \in blockArchive : blockSlot[c] = JumpBackTo
  PROVE  /\ b \in blockArchive /\ blockSlot[b] = JumpBackTo /\ JumpBackTo \in Nat
         /\ b \in Lineage[backfill.startFrom]
         /\ {c \in Lineage[backfill.startFrom] : blockSlot[c] > JumpBackTo} \subseteq blockArchive
         /\ \A c \in blockArchive :
              JumpBackTo <= blockSlot[c] /\ blockSlot[c] <= AnchorSlot
                => c \in Lineage[backfill.startFrom]
<1> DEFINE s == backfill.startFrom
           l == backfill.lastBackSynced
           J == JumpBackTo
           ends == {backfilledRanges[k] : k \in FilteredSeqs}
<1>1. /\ BackfillTypes /\ PrevFinalizedIsNext /\ Synced /\ RangesHold
      /\ l # NoBlock /\ backfill.prevFinalized.slot < LastSlot
      /\ l \in blockArchive
  BY DEF BackfillInv, Synced, LastSlot
<1>2. /\ s \in ChainBlock /\ AnchorSlot \in Nat
      /\ l \in Lineage[s] /\ l \in ChainBlock /\ LastSlot \in Nat
      /\ LastSlot <= AnchorSlot /\ backfill.prevFinalized.slot \in Int
  BY <1>1, SyncedSlots
<1>3. PICK k \in FilteredSeqs : J = backfilledRanges[k]
  <2>1. ends \in SUBSET Nat /\ ends # {}
    BY <1>1 DEF CanJump, FilteredSeqs, BackfillTypes
  <2>2. \E m \in ends : \A n \in ends : m <= n
    <3> HIDE DEF ends
    <3> QED BY <2>1, LeastNatural
  <2>3. J \in ends
    <3>1. Min(ends) \in ends
      <4> HIDE DEF ends
      <4> QED BY <2>2 DEF Min
    <3> QED BY <3>1 DEF JumpBackTo
  <2> QED BY <2>3
<1>4. /\ k \in DOMAIN backfilledRanges /\ k >= LastSlot /\ k \in Nat
      /\ J \in Nat /\ J < LastSlot
  BY <1>1, <1>3 DEF FilteredSeqs, BackfillTypes, CanJump
<1>5. b \in blockArchive /\ blockSlot[b] = J
  <2>1. \E c \in blockArchive : blockSlot[c] = J
    BY DEF CanJump, SlotsOfBlocks
  <2> QED BY <2>1
<1>6. PICK t \in blockArchive :
        /\ blockSlot[t] = k
        /\ {c \in Lineage[t] : blockSlot[c] > J} \subseteq blockArchive
        /\ \A c \in blockArchive :
             J <= blockSlot[c] /\ blockSlot[c] <= k => c \in Lineage[t]
  BY <1>1, <1>3, <1>4 DEF RangesHold, RangeHolds
<1>7. t \in ChainBlock /\ b \in ChainBlock
  BY <1>1, <1>5 DEF BackfillTypes
<1>8. l \in Lineage[t]
  <2>1. CASE k >= AnchorSlot
    <3>1. s \in Lineage[t]
      BY <1>6, <2>1 DEF BackfillInv, Finalized, Above, AnchorSlot
    <3> QED BY <1>2, <1>7, <3>1, LineageHolds
  <2>2. CASE k <= AnchorSlot
    <3>1. t \in Lineage[s]
      BY <1>1, <1>2, <1>4, <1>6, <2>2 DEF PrevFinalizedIsNext
    <3> QED BY <1>2, <1>4, <1>6, <3>1, LineageIsChain DEF LastSlot
  <2> QED BY <1>2, <1>4, <2>1, <2>2
<1>9. Lineage[l] \subseteq Lineage[s] /\ Lineage[l] \subseteq Lineage[t]
  BY <1>2, <1>7, <1>8, LineageHolds
<1>10. ASSUME NEW c \in blockArchive, J <= blockSlot[c], blockSlot[c] <= LastSlot
       PROVE  c \in Lineage[s]
  <2>1. blockSlot[c] \in Nat
    BY <1>1, ParentComesBefore DEF BackfillTypes
  <2>2. c \in Lineage[t]
    BY <1>2, <1>4, <1>6, <1>10, <2>1
  <2>3. c \in Lineage[l]
    BY <1>7, <1>8, <1>10, <2>2, LineageIsChain DEF LastSlot
  <2> QED BY <1>9, <2>3
<1>11. b \in Lineage[s]
  BY <1>2, <1>4, <1>5, <1>10
<1>12. ASSUME NEW c \in Lineage[s], blockSlot[c] > J PROVE c \in blockArchive
  <2>1. c \in ChainBlock /\ blockSlot[c] \in Nat
    BY <1>2, LineageHolds, ParentComesBefore
  <2>2. CASE blockSlot[c] > LastSlot
    BY <1>1, <2>2 DEF Synced, LastSlot
  <2>3. CASE blockSlot[c] <= LastSlot
    <3>1. c \in Lineage[l]
      BY <1>2, <2>3, LineageIsChain DEF LastSlot
    <3> QED BY <1>6, <1>9, <1>12, <3>1
  <2> QED BY <1>2, <2>1, <2>2, <2>3
<1>13. ASSUME NEW c \in blockArchive, J <= blockSlot[c], blockSlot[c] <= AnchorSlot
       PROVE  c \in Lineage[s]
  <2>1. blockSlot[c] \in Nat
    BY <1>1, ParentComesBefore DEF BackfillTypes
  <2>2. CASE blockSlot[c] > LastSlot
    BY <1>1, <1>2, <1>13, <2>1, <2>2 DEF PrevFinalizedIsNext
  <2>3. CASE blockSlot[c] <= LastSlot
    BY <1>10, <1>13, <2>3
  <2> QED BY <1>2, <2>1, <2>2, <2>3
<1> QED BY <1>4, <1>5, <1>11, <1>12, <1>13

\* Jump keeps the invariant.
LEMMA JumpStep ==
  ASSUME BackfillInv, Jump
  PROVE  BackfillInv' /\ blockArchive \subseteq blockArchive'
<1> DEFINE seqs == {k \in FilteredSeqs : k < blockSlot[backfill.startFrom]}
           b == CHOOSE c \in blockArchive : blockSlot[c] = JumpBackTo
           prev == ExtractPrevious(blockArchive, JumpBackTo)
<1>1. /\ backfill \in Backfills /\ backfill.step = "jump"
      /\ UNCHANGED <<blockArchive, storedState, archiver>>
      /\ BackfillTypes /\ PrevFinalizedIsNext /\ Synced /\ RangesHold
      /\ backfill.status # "completed"
      /\ seqs \in SUBSET Nat
  BY NotCompleted DEF Jump, InBackfill, InArchive, BackfillInv, BackfillTypes, FilteredSeqs
<1>2. CASE ~CanJump
  <2>1. /\ backfill' = [backfill EXCEPT !.step = "cleanup", !.jumped = FALSE,
                                        !.seqs = seqs]
        /\ InDatabase /\ InBackfill
    <3>1. CanJump = FALSE
      BY <1>2 DEF CanJump
    <3> QED BY <1>1, <1>2, <3>1 DEF Jump, InDatabase, InArchive, InBackfill
  <2> HIDE DEF seqs
  <2>2. /\ backfill' \in Backfills
        /\ backfill'.startFrom = backfill.startFrom
        /\ backfill'.wsCheckpoint = backfill.wsCheckpoint
        /\ backfill'.prevFinalized = backfill.prevFinalized
        /\ backfill'.lastBackSynced = backfill.lastBackSynced
        /\ backfill'.anchorBlock = backfill.anchorBlock
        /\ backfill'.anchorBlockRoot = backfill.anchorBlockRoot
        /\ backfill'.status = backfill.status
        /\ backfill'.step = "cleanup"
    BY <1>1, <2>1 DEF Backfills
  <2>3. Synced'
    BY <1>1, <2>1, <2>2 DEF Synced
  <2> QED BY <1>1, <2>1, <2>2, <2>3, LoopWaits
<1>3. CASE CanJump
  <2>1. /\ b \in blockArchive /\ blockSlot[b] = JumpBackTo /\ JumpBackTo \in Nat
        /\ b \in Lineage[backfill.startFrom]
        /\ {c \in Lineage[backfill.startFrom] : blockSlot[c] > JumpBackTo} \subseteq blockArchive
        /\ \A c \in blockArchive :
             JumpBackTo <= blockSlot[c] /\ blockSlot[c] <= AnchorSlot
               => c \in Lineage[backfill.startFrom]
    <3> HIDE DEF b
    <3> QED BY <1>1, <1>3, JumpLands DEF b
  <2>2. /\ prev \in [root : ChainBlock \union {NoBlock}, slot : Int]
        /\ prev.slot < JumpBackTo
        /\ (prev.root \in blockArchive /\ blockSlot[prev.root] = prev.slot) \/ prev.slot = -1
        /\ \A c \in blockArchive : blockSlot[c] < JumpBackTo => blockSlot[c] <= prev.slot
    <3>1. blockArchive \in SUBSET ChainBlock
      BY <1>1 DEF BackfillTypes
    <3> HIDE DEF prev
    <3> QED BY <2>1, <3>1, ExtractPreviousFinds DEF prev
  <2>3. CanJump = TRUE
    BY <1>3 DEF CanJump
  <2>4. /\ backfilledRanges' = Put(backfilledRanges, blockSlot[backfill.startFrom], JumpBackTo)
        /\ backfill' = [[backfill EXCEPT !.step = "cleanup", !.jumped = CanJump,
                                         !.seqs = seqs] EXCEPT
                          !.rangeWritten = JumpBackTo,
                          !.anchorBlock = b, !.anchorBlockRoot = b,
                          !.lastBackSynced = b, !.lastRoot = b,
                          !.prevFinalized = IF @.slot >= JumpBackTo THEN prev ELSE @]
    BY <1>3 DEF Jump
  <2> HIDE DEF b, prev, seqs
  <2>5. /\ backfill.startFrom \in ChainBlock /\ AnchorSlot \in Nat
        /\ backfill.prevFinalized \in [root : ChainBlock \union {NoBlock}, slot : Int]
        /\ backfill.prevFinalized.slot \in Int
        /\ b \in ChainBlock /\ b # NoBlock /\ backfill.startFrom \in blockArchive
    <3>1. backfill.startFrom \in ChainBlock /\ b \in ChainBlock
      BY <1>1, <2>1 DEF BackfillTypes, Backfills
    <3>2. AnchorSlot \in Nat /\ b # NoBlock
      BY <3>1, BackfillAssumption DEF AnchorSlot
    <3> QED BY <1>1, <3>1, <3>2 DEF Backfills, Synced
  <2> DEFINE next == IF backfill.prevFinalized.slot >= JumpBackTo
                     THEN prev ELSE backfill.prevFinalized
             reached == JumpBackTo
  <2>6. /\ backfill' \in Backfills
        /\ backfill'.startFrom = backfill.startFrom
        /\ backfill'.wsCheckpoint = backfill.wsCheckpoint
        /\ backfill'.lastBackSynced = b
        /\ backfill'.anchorBlock = b
        /\ backfill'.anchorBlockRoot = b
        /\ backfill'.status = backfill.status
        /\ backfill'.step = "cleanup"
        /\ backfill'.prevFinalized = next
    <3>1. backfill' = [backfill EXCEPT
                         !.step = "cleanup", !.jumped = TRUE, !.seqs = seqs,
                         !.rangeWritten = reached,
                         !.anchorBlock = b, !.anchorBlockRoot = b,
                         !.lastBackSynced = b, !.lastRoot = b,
                         !.prevFinalized = next]
      BY <1>1, <2>3, <2>4 DEF Backfills
    <3>2. /\ next \in [root : ChainBlock \union {NoBlock}, slot : Int]
          /\ reached \in Int /\ b \in ChainBlock \union {NoBlock}
      BY <2>1, <2>2, <2>5
    <3> HIDE DEF next, reached
    <3> QED BY <1>1, <3>1, <3>2 DEF Backfills
  <2>7. /\ RangesHold' /\ DOMAIN backfilledRanges' \subseteq Nat
        /\ \A k \in DOMAIN backfilledRanges' : backfilledRanges'[k] \in Nat
    BY <1>1, <2>1, <2>4, <2>5, PutRange DEF AnchorSlot
  <2>8. Synced'
    <3>1. \A c \in Lineage[backfill.startFrom] : blockSlot[c] > blockSlot[b] => c \in blockArchive
      BY <2>1
    <3>2. backfill'.jumped = TRUE
      BY <1>1, <2>3, <2>4 DEF Backfills
    <3> QED BY <1>1, <2>1, <2>5, <2>6, <3>1, <3>2 DEF Synced
  <2>9. ASSUME NEW c \in blockArchive, backfill.prevFinalized.slot >= JumpBackTo,
               prev.slot < blockSlot[c], blockSlot[c] <= AnchorSlot
        PROVE  c \in Lineage[backfill.startFrom]
    <3>1. blockSlot[c] \in Nat /\ prev.slot \in Int
      BY <1>1, <2>2, ParentComesBefore DEF BackfillTypes
    <3>2. ~(blockSlot[c] < JumpBackTo)
      BY <2>2, <2>9, <3>1
    <3> QED BY <2>1, <2>9, <3>1, <3>2
  <2>10. PrevFinalizedIsNext'
    BY <1>1, <2>2, <2>5, <2>6, <2>9 DEF PrevFinalizedIsNext, AnchorSlot
  <2>11. Completed'
    BY <1>1, <2>6 DEF Completed, BackfillInv
  <2> QED BY <1>1, <2>6, <2>7, <2>8, <2>10, <2>11, LoopKeeps
<1> QED BY <1>2, <1>3

\* The walk of fastBackfillDb, after 0, 1, ... steps.
Walked(first) ==
  CHOOSE walk :
    walk = [n \in 0..(backfillBatchSize - 1) |->
              IF n = 0 THEN [block |-> AtRoot(first), root |-> first, failed |-> FALSE,
                             prevFinalized |-> backfill.prevFinalized]
              ELSE StepBack(walk[n - 1])]

\* The recursion is well defined.
LEMMA WalkedSteps ==
  ASSUME NEW first
  PROVE  /\ WalkBack(first) = Walked(first)[backfillBatchSize - 1]
         /\ Walked(first)[0] = [block |-> AtRoot(first), root |-> first, failed |-> FALSE,
                                prevFinalized |-> backfill.prevFinalized]
         /\ \A n \in 1..(backfillBatchSize - 1) :
              Walked(first)[n] = StepBack(Walked(first)[n - 1])
<1> DEFINE size == backfillBatchSize - 1
           start == [block |-> AtRoot(first), root |-> first, failed |-> FALSE,
                     prevFinalized |-> backfill.prevFinalized]
           NextOf(w) == StepBack(w)
           Steps(g, n) == [k \in 0..n |-> IF k = 0 THEN start ELSE NextOf(g[k - 1])]
           Defined == {n \in 0..size : \E g : g = Steps(g, n)}
<1>0. size \in Nat
  BY BackfillAssumption
<1> HIDE DEF NextOf, start, size
<1>1. 0 \in Defined
  <2> DEFINE g == [k \in 0..0 |-> start]
  <2>1. \A k \in 0..0 : k = 0
    OBVIOUS
  <2>2. g = Steps(g, 0)
    BY <2>1
  <2> HIDE DEF g, Steps
  <2>3. \E x : x = Steps(x, 0)
    BY <2>2
  <2> QED BY <1>0, <2>3
<1>2. ASSUME NEW n \in 0..(size - 1), n \in Defined
      PROVE  n + 1 \in Defined
  <2>1. PICK g : g = Steps(g, n)
    BY <1>2
  <2> DEFINE h == [k \in 0..(n + 1) |-> IF k = n + 1 THEN NextOf(g[n]) ELSE g[k]]
  <2>2. \A k \in 0..n : g[k] = IF k = 0 THEN start ELSE NextOf(g[k - 1])
    <3>1. \A k \in 0..n : Steps(g, n)[k] = IF k = 0 THEN start ELSE NextOf(g[k - 1])
      OBVIOUS
    <3> HIDE DEF Steps
    <3> QED BY <2>1, <3>1
  <2>3. \A k \in 0..(n + 1) : h[k] = IF k = 0 THEN start ELSE NextOf(h[k - 1])
    <3> SUFFICES ASSUME NEW k \in 0..(n + 1)
                 PROVE  h[k] = IF k = 0 THEN start ELSE NextOf(h[k - 1])
      OBVIOUS
    <3>1. CASE k = n + 1
      BY <3>1
    <3>2. CASE k # n + 1
      <4>1. k \in 0..n /\ h[k] = g[k] /\ (k # 0 => h[k - 1] = g[k - 1])
        BY <3>2
      <4> QED BY <2>2, <4>1
    <3> QED BY <3>1, <3>2
  <2>4. h = Steps(h, n + 1)
    BY <2>3
  <2>5. n + 1 \in 0..size
    BY <1>0
  <2> QED BY <2>4, <2>5
<1>3. size \in Defined
  <2> HIDE DEF Defined
  <2>1. 0..size \subseteq Defined
    BY <1>0, <1>1, <1>2, Induction
  <2> QED BY <1>0, <2>1
<1>4. PICK g : g = Steps(g, size)
  BY <1>3
<1>5. Walked(first) = Steps(Walked(first), size)
  BY <1>4 DEF Walked, NextOf, start, size
<1>6. Walked(first)[0] = start
  BY <1>0, <1>5
<1>7. \A n \in 1..size : Walked(first)[n] = NextOf(Walked(first)[n - 1])
  BY <1>0, <1>5
<1>8. WalkBack(first) = Walked(first)[size]
  BY DEF WalkBack, Walked, size
<1> QED BY <1>6, <1>7, <1>8 DEF NextOf, start, size

\* Where a walk may stand: at an archived block of the synced lineage, with all
\* of the lineage after it in the archive.
WalkHolds(walk) ==
  /\ walk.root = walk.block
  /\ walk.block \in blockArchive /\ walk.block \in Lineage[backfill.startFrom]
  /\ \A c \in Lineage[backfill.startFrom] :
       blockSlot[c] > blockSlot[walk.block] => c \in blockArchive
  /\ walk.prevFinalized \in [root : ChainBlock \union {NoBlock}, slot : Int]
  /\ \/ /\ walk.prevFinalized.root \in blockArchive
        /\ blockSlot[walk.prevFinalized.root] = walk.prevFinalized.slot
     \/ walk.prevFinalized.slot = -1
  /\ \A c \in blockArchive :
       walk.prevFinalized.slot < blockSlot[c] /\ blockSlot[c] <= AnchorSlot
         => c \in Lineage[backfill.startFrom]

\* All of a lineage after a block's parent is that block or after it.
LEMMA ParentIsReached ==
  ASSUME NEW s \in ChainBlock, NEW b \in Lineage[s], b # genesisBlock, b \in blockArchive,
         \A c \in Lineage[s] : blockSlot[c] > blockSlot[b] => c \in blockArchive
  PROVE  /\ blockParent[b] \in Lineage[s]
         /\ \A c \in Lineage[s] : blockSlot[c] > blockSlot[blockParent[b]] => c \in blockArchive
<1>1. ASSUME NEW c \in Lineage[s], blockSlot[c] > blockSlot[blockParent[b]]
      PROVE  c \in blockArchive
  <2>1. /\ b \in ChainBlock /\ c \in ChainBlock
        /\ blockSlot[b] \in Nat /\ blockSlot[c] \in Nat
    BY LineageHolds, ParentComesBefore
  <2>2. blockSlot[c] >= blockSlot[b]
    BY <1>1, ParentIsNext
  <2>3. CASE blockSlot[c] = blockSlot[b]
    <3>1. c \in Lineage[b]
      BY <2>1, <2>3, LineageIsChain
    <3>2. c = b
      BY <2>1, <2>3, <3>1, LineageHolds
    <3> QED BY <3>2
  <2>4. CASE blockSlot[c] > blockSlot[b]
    BY <2>4
  <2> QED BY <2>1, <2>2, <2>3, <2>4
<1> QED BY <1>1, ParentIsNext

\* A step of the walk.
LEMMA StepBackHolds ==
  ASSUME BackfillTypes, OneOfASlot, Aligned, NEW walk, WalkHolds(walk)
  PROVE  WalkHolds(StepBack(walk))
<1> DEFINE b == walk.block
           p == blockParent[b]
           s == backfill.startFrom
           Below(prev) ==
             /\ prev \in [root : ChainBlock \union {NoBlock}, slot : Int]
             /\ prev.slot < blockSlot[b]
             /\ (prev.root \in blockArchive /\ blockSlot[prev.root] = prev.slot) \/ prev.slot = -1
             /\ \A c \in blockArchive : blockSlot[c] < blockSlot[b] => blockSlot[c] <= prev.slot
           Back(prev) == [block |-> p, root |-> p, failed |-> FALSE, prevFinalized |-> prev]
<1>1. /\ s \in ChainBlock /\ b \in ChainBlock /\ blockSlot[b] \in Nat
      /\ b \in blockArchive /\ b \in Lineage[s] /\ AnchorSlot \in Nat
      /\ blockArchive \in SUBSET ChainBlock /\ blockSlot[b] <= AnchorSlot
      /\ walk.root = b
  <2>1. s \in ChainBlock /\ b \in blockArchive /\ b \in Lineage[s]
        /\ blockArchive \in SUBSET ChainBlock /\ walk.root = b
    BY DEF BackfillTypes, Backfills, WalkHolds
  <2> QED BY <2>1, LineageHolds, ParentComesBefore DEF AnchorSlot
<1>2. CASE StepBack(walk) = walk \/ StepBack(walk) = [walk EXCEPT !.failed = TRUE]
  <2>1. /\ StepBack(walk).block = walk.block /\ StepBack(walk).root = walk.root
        /\ StepBack(walk).prevFinalized = walk.prevFinalized
    <3>1. [walk EXCEPT !.failed = TRUE].block = walk.block
          /\ [walk EXCEPT !.failed = TRUE].root = walk.root
          /\ [walk EXCEPT !.failed = TRUE].prevFinalized = walk.prevFinalized
      OBVIOUS
    <3> QED BY <1>2, <3>1
  <2> QED BY <2>1 DEF WalkHolds
<1>3. ASSUME p \in blockArchive, NEW next, StepBack(walk) = Back(next),
             \/ next = walk.prevFinalized
             \/ blockSlot[b] = walk.prevFinalized.slot /\ Below(next)
      PROVE  WalkHolds(StepBack(walk))
  <2>1. b # genesisBlock
    BY <1>1, <1>3, BackfillAssumption
  <2>2. p \in Lineage[s] /\ \A c \in Lineage[s] : blockSlot[c] > blockSlot[p] => c \in blockArchive
    <3>1. \A c \in Lineage[s] : blockSlot[c] > blockSlot[b] => c \in blockArchive
      BY DEF WalkHolds
    <3> QED BY <1>1, <2>1, <3>1, ParentIsReached
  <2>3. ASSUME NEW c \in blockArchive, next.slot < blockSlot[c], blockSlot[c] <= AnchorSlot
        PROVE  c \in Lineage[s]
    <3>1. CASE next = walk.prevFinalized
      BY <2>3, <3>1 DEF WalkHolds
    <3>2. CASE blockSlot[b] = walk.prevFinalized.slot /\ Below(next)
      <4>1. blockSlot[c] \in Nat /\ next.slot \in Int
        BY <1>1, <3>2, ParentComesBefore
      <4>2. ~(blockSlot[c] < blockSlot[b])
        BY <2>3, <3>2, <4>1
      <4>3. CASE blockSlot[c] = blockSlot[b]
        BY <1>1, <4>3 DEF OneOfASlot
      <4>4. CASE blockSlot[c] > blockSlot[b]
        BY <2>3, <3>2, <4>4 DEF WalkHolds
      <4> QED BY <1>1, <4>1, <4>2, <4>3, <4>4
    <3> QED BY <1>3, <3>1, <3>2
  <2>4. /\ next \in [root : ChainBlock \union {NoBlock}, slot : Int]
        /\ (next.root \in blockArchive /\ blockSlot[next.root] = next.slot) \/ next.slot = -1
    BY <1>3 DEF WalkHolds
  <2>5. /\ StepBack(walk).block = p /\ StepBack(walk).root = p
        /\ StepBack(walk).prevFinalized = next
    BY <1>3
  <2> QED BY <1>3, <2>2, <2>3, <2>4, <2>5 DEF WalkHolds
<1>4. Below(ExtractPrevious(blockArchive, blockSlot[b]))
  <2> DEFINE prev == ExtractPrevious(blockArchive, blockSlot[b])
  <2>1. prev = ExtractPrevious(blockArchive, blockSlot[b])
    OBVIOUS
  <2> HIDE DEF prev
  <2>2. Below(prev)
    BY <1>1, <2>1, ExtractPreviousFinds
  <2> QED BY <2>1, <2>2
<1>5. ASSUME p \in blockArchive, blockSlot[p] = blockSlot[b] - 1
      PROVE  Below([root |-> p, slot |-> blockSlot[b] - 1])
  <2>1. \A c \in blockArchive : blockSlot[c] \in Nat
    BY <1>1, ParentComesBefore
  <2>2. p \in ChainBlock /\ blockSlot[b] - 1 \in Int
    BY <1>1, <1>5
  <2> QED BY <1>1, <1>5, <2>1, <2>2
<1>6. \/ StepBack(walk) = walk \/ StepBack(walk) = [walk EXCEPT !.failed = TRUE]
      \/ /\ p \in blockArchive
         /\ \/ StepBack(walk) = Back(walk.prevFinalized)
            \/ /\ blockSlot[b] = walk.prevFinalized.slot
               /\ \/ StepBack(walk) = Back(ExtractPrevious(blockArchive, blockSlot[b]))
                  \/ /\ blockSlot[p] = blockSlot[b] - 1
                     /\ StepBack(walk) = Back([root |-> p, slot |-> blockSlot[b] - 1])
  <2>1. p \in blockArchive => AtRoot(p) = p
    BY AtItsRoot
  <2>2. StepBack(walk) =
          IF walk.failed \/ p \notin blockArchive THEN walk
          ELSE IF \/ blockSlot[b] < walk.prevFinalized.slot
                  \/ /\ blockSlot[b] = walk.prevFinalized.slot
                     /\ walk.root # walk.prevFinalized.root
          THEN [walk EXCEPT !.failed = TRUE]
          ELSE [block |-> AtRoot(p), root |-> p, failed |-> FALSE,
                prevFinalized |->
                  IF blockSlot[b] # walk.prevFinalized.slot THEN walk.prevFinalized
                  ELSE IF blockSlot[p] = blockSlot[b] - 1
                  THEN [root |-> p, slot |-> blockSlot[b] - 1]
                  ELSE ExtractPrevious(blockArchive, blockSlot[b])]
    BY DEF StepBack, HasRoot, Aligned
  <2> DEFINE found == ExtractPrevious(blockArchive, blockSlot[b])
             parent == [root |-> p, slot |-> blockSlot[b] - 1]
             at == AtRoot(p)
  <2> HIDE DEF p, b, found, parent, at
  <2>3. StepBack(walk) =
          IF walk.failed \/ p \notin blockArchive THEN walk
          ELSE IF \/ blockSlot[b] < walk.prevFinalized.slot
                  \/ /\ blockSlot[b] = walk.prevFinalized.slot
                     /\ walk.root # walk.prevFinalized.root
          THEN [walk EXCEPT !.failed = TRUE]
          ELSE [block |-> at, root |-> p, failed |-> FALSE,
                prevFinalized |->
                  IF blockSlot[b] # walk.prevFinalized.slot THEN walk.prevFinalized
                  ELSE IF blockSlot[p] = blockSlot[b] - 1 THEN parent ELSE found]
    BY <2>2 DEF found, parent, at
  <2>4. p \in blockArchive => at = p
    BY <2>1 DEF at
  <2>5. \/ StepBack(walk) = walk \/ StepBack(walk) = [walk EXCEPT !.failed = TRUE]
        \/ /\ p \in blockArchive
           /\ \/ StepBack(walk) = Back(walk.prevFinalized)
              \/ /\ blockSlot[b] = walk.prevFinalized.slot
                 /\ \/ StepBack(walk) = Back(found)
                    \/ blockSlot[p] = blockSlot[b] - 1 /\ StepBack(walk) = Back(parent)
    BY <2>3, <2>4
  <2> QED BY <2>5 DEF found, parent
<1> HIDE DEF Below, Back, b, p, s
<1> QED BY <1>2, <1>3, <1>4, <1>5, <1>6

\* So the walk as a whole.
LEMMA WalkBackHolds ==
  ASSUME BackfillTypes, OneOfASlot, Aligned, PrevFinalizedIsNext,
         NEW first \in blockArchive, first \in Lineage[backfill.startFrom],
         \A c \in Lineage[backfill.startFrom] :
           blockSlot[c] > blockSlot[first] => c \in blockArchive
  PROVE  WalkHolds(WalkBack(first))
<1> DEFINE size == backfillBatchSize - 1
           Good == {n \in 0..size : WalkHolds(Walked(first)[n])}
<1>1. size \in Nat
  BY BackfillAssumption
<1> HIDE DEF size
<1>2. 0 \in Good
  <2>1. /\ Walked(first)[0].block = first /\ Walked(first)[0].root = first
        /\ Walked(first)[0].prevFinalized = backfill.prevFinalized
    <3>1. Walked(first)[0] = [block |-> AtRoot(first), root |-> first, failed |-> FALSE,
                              prevFinalized |-> backfill.prevFinalized]
      BY WalkedSteps
    <3> QED BY <3>1, AtItsRoot
  <2>2. backfill.prevFinalized \in [root : ChainBlock \union {NoBlock}, slot : Int]
    BY DEF BackfillTypes, Backfills
  <2>3. WalkHolds(Walked(first)[0])
    BY <2>1, <2>2 DEF WalkHolds, PrevFinalizedIsNext
  <2> QED BY <1>1, <2>3
<1>3. ASSUME NEW n \in 0..(size - 1), n \in Good PROVE n + 1 \in Good
  <2>1. n + 1 \in 1..size /\ n + 1 \in 0..size /\ (n + 1) - 1 = n
    BY <1>1
  <2>2. Walked(first)[n + 1] = StepBack(Walked(first)[n])
    BY <2>1, WalkedSteps DEF size
  <2>3. WalkHolds(Walked(first)[n])
    BY <1>3
  <2>4. WalkHolds(StepBack(Walked(first)[n]))
    BY <2>3, StepBackHolds
  <2> QED BY <2>1, <2>2, <2>4
<1>4. size \in Good
  <2> HIDE DEF Good
  <2>1. 0..size \subseteq Good
    BY <1>1, <1>2, <1>3, Induction
  <2> QED BY <1>1, <2>1
<1> QED BY <1>4, WalkedSteps DEF size

\* FastBackfillDb keeps the invariant.
LEMMA FastBackfillDbStep ==
  ASSUME BackfillInv, Aligned, FastBackfillDb
  PROVE  /\ BackfillInv' /\ blockArchive \subseteq blockArchive'
         /\ backfill'.lastRoot = backfill'.lastBackSynced
<1> DEFINE first == IF backfill.anchorBlock # NoBlock THEN blockParent[backfill.anchorBlock]
                    ELSE backfill.anchorBlockRoot
           end == WalkBack(first)
           l == backfill.lastBackSynced
           s == backfill.startFrom
<1>1. /\ backfill \in Backfills /\ backfill.step = "db"
      /\ InDatabase /\ InBackfill
      /\ BackfillTypes /\ OneOfASlot /\ PrevFinalizedIsNext /\ Synced /\ RangesHold
      /\ backfill.status # "completed" /\ s \in ChainBlock
  BY NotCompleted DEF FastBackfillDb, BackfillInv, BackfillTypes, Backfills
<1>2. CASE backfill' = [backfill EXCEPT !.step = "network"]
  <2>1. /\ backfill' \in Backfills
        /\ backfill'.startFrom = backfill.startFrom
        /\ backfill'.wsCheckpoint = backfill.wsCheckpoint
        /\ backfill'.prevFinalized = backfill.prevFinalized
        /\ backfill'.lastBackSynced = backfill.lastBackSynced
        /\ backfill'.anchorBlock = backfill.anchorBlock
        /\ backfill'.anchorBlockRoot = backfill.anchorBlockRoot
        /\ backfill'.status = backfill.status
        /\ backfill'.step = "network" /\ backfill'.lastRoot = backfill.lastRoot
    BY <1>1, <1>2 DEF Backfills
  <2>2. Synced'
    BY <1>1, <2>1 DEF Synced, InDatabase, InArchive
  <2>3. BackfillInv' /\ blockArchive \subseteq blockArchive'
    BY <1>1, <2>1, <2>2, LoopWaits
  <2> QED BY <2>1, <2>3 DEF Aligned
<1>3. CASE backfill' = AbortedLoop
  <2>1. BackfillInv' /\ blockArchive \subseteq blockArchive'
    BY <1>1, <1>3, AbortedStep
  <2> QED BY <1>1, <1>3, <2>1 DEF AbortedLoop, Backfills, Aligned
<1>4. CASE /\ first \in blockArchive
           /\ backfill' = [backfill EXCEPT
                             !.anchorBlock = end.block, !.anchorBlockRoot = end.root,
                             !.lastBackSynced = end.block, !.lastRoot = end.root,
                             !.prevFinalized = end.prevFinalized,
                             !.step = "next", !.triggered = TRUE]
  <2>1. first = s \/ (l # NoBlock /\ first = blockParent[l])
    BY <1>1 DEF Synced
  <2>2. first \in Lineage[s] /\ s \in blockArchive
        /\ \A c \in Lineage[s] : blockSlot[c] > blockSlot[first] => c \in blockArchive
    <3>1. CASE first = s
      <4>1. \A c \in Lineage[s] : ~(blockSlot[c] > blockSlot[s])
        BY <1>1, LineageHolds, ParentComesBefore
      <4> QED BY <1>1, <1>4, <3>1, <4>1, LineageHolds
    <3>2. CASE l # NoBlock /\ first = blockParent[l]
      <4>1. /\ l \in Lineage[s] /\ l # genesisBlock /\ l \in blockArchive /\ s \in blockArchive
            /\ \A c \in Lineage[s] : blockSlot[c] > blockSlot[l] => c \in blockArchive
        BY <1>1, <3>2 DEF Synced
      <4> HIDE DEF l, s
      <4> QED BY <1>1, <3>2, <4>1, ParentIsReached
    <3> QED BY <2>1, <3>1, <3>2
  <2> HIDE DEF first
  <2>3. WalkHolds(end)
    BY <1>1, <1>4, <2>2, WalkBackHolds
  <2> HIDE DEF end
  <2>4. /\ end.root = end.block
        /\ end.block \in ChainBlock /\ end.block # NoBlock /\ end.block \in blockArchive
        /\ end.block \in Lineage[s]
        /\ end.prevFinalized \in [root : ChainBlock \union {NoBlock}, slot : Int]
    BY <1>1, <2>3, BackfillAssumption DEF WalkHolds, BackfillTypes
  <2>5. /\ backfill' \in Backfills
        /\ backfill'.startFrom = backfill.startFrom
        /\ backfill'.wsCheckpoint = backfill.wsCheckpoint
        /\ backfill'.prevFinalized = end.prevFinalized
        /\ backfill'.lastBackSynced = end.block /\ backfill'.lastRoot = end.block
        /\ backfill'.anchorBlock = end.block
        /\ backfill'.anchorBlockRoot = end.block
        /\ backfill'.status = backfill.status
        /\ backfill'.step = "next"
    BY <1>1, <1>4, <2>4 DEF Backfills
  <2>6. UNCHANGED <<blockArchive, backfilledRanges, storedState, archiver>>
    BY <1>1 DEF InDatabase, InArchive, InBackfill
  <2>7. Synced'
    BY <2>2, <2>3, <2>4, <2>5, <2>6 DEF Synced, WalkHolds
  <2>8. PrevFinalizedIsNext'
    BY <2>3, <2>4, <2>5, <2>6 DEF PrevFinalizedIsNext, WalkHolds, AnchorSlot
  <2>9. Completed'
    BY <1>1, <2>5 DEF Completed, BackfillInv
  <2>10. RangesHold' /\ DOMAIN backfilledRanges' \subseteq Nat
         /\ \A k \in DOMAIN backfilledRanges' : backfilledRanges'[k] \in Nat
    BY <1>1, <2>6 DEF RangesHold, RangeHolds, BackfillTypes
  <2>11. BackfillInv' /\ blockArchive \subseteq blockArchive'
    BY <2>5, <2>6, <2>7, <2>8, <2>9, <2>10, LoopKeeps
  <2> QED BY <2>5, <2>11
<1>5. \/ backfill' = [backfill EXCEPT !.step = "network"]
      \/ backfill' = AbortedLoop
      \/ /\ first \in blockArchive
         /\ backfill' = [backfill EXCEPT
                           !.anchorBlock = end.block, !.anchorBlockRoot = end.root,
                           !.lastBackSynced = end.block, !.lastRoot = end.root,
                           !.prevFinalized = end.prevFinalized,
                           !.step = "next", !.triggered = TRUE]
  <2> HIDE DEF end, first
  <2> QED BY DEF FastBackfillDb, HasRoot, Aligned, end, first
<1> QED BY <1>2, <1>3, <1>4, <1>5

-----------------------------------------------------------------------------
(* The network *)

\* Blocks after the checkpoint to be met next are archived and disturb nothing.
LEMMA NetworkKeeps ==
  ASSUME BackfillInv, UNCHANGED <<backfilledRanges, storedState, archiver>>,
         backfill.step # "ended",
         NEW blocks \in SUBSET Lineage[backfill.startFrom],
         \A n \in blocks : blockSlot[n] > backfill.prevFinalized.slot,
         blockArchive' = Archived(blocks),
         backfill' \in Backfills,
         backfill'.startFrom = backfill.startFrom,
         backfill'.wsCheckpoint = backfill.wsCheckpoint,
         backfill'.prevFinalized = backfill.prevFinalized,
         backfill'.lastBackSynced = NoBlock => backfill.lastBackSynced = NoBlock,
         backfill'.status = backfill.status
  PROVE  /\ blockArchive' = blockArchive \union blocks
         /\ Synced' => BackfillInv' /\ blockArchive \subseteq blockArchive'
<1>1. FitArchive(blocks, backfill.startFrom)
  BY SyncedBlocksFit DEF BackfillInv
<1>2. blockArchive' = blockArchive \union blocks
  BY <1>1, ArchivedReplacesNone DEF BackfillInv
<1>3. OneOfASlot' /\ blockArchive' \subseteq ChainBlock
  BY <1>1, <1>2, GrownArchive DEF BackfillInv
<1>4. RangesHold'
  BY <1>1, <1>2, GrownRangesHold DEF BackfillInv
<1>5. Finalized'
  BY <1>2, SyncedFinalized DEF BackfillInv
<1>6. BackfillTypes'
  BY <1>3 DEF BackfillInv, BackfillTypes
<1>7. PrevFinalizedIsNext'
  BY <1>2 DEF BackfillInv, PrevFinalizedIsNext, AnchorSlot
<1>8. Completed'
  BY NotCompleted DEF BackfillInv, Completed
<1> QED BY <1>2, <1>3, <1>4, <1>5, <1>6, <1>7, <1>8 DEF BackfillInv

\* SyncBlockByRoot keeps the invariant.
LEMMA SyncBlockByRootStep ==
  ASSUME BackfillInv, ~Misled, ~Misled', otherBlocks \in Nat,
         NEW answer \in ChainBlock, SyncBlockByRoot(answer)
  PROVE  BackfillInv' /\ blockArchive \subseteq blockArchive'
<1> DEFINE b == backfill.anchorBlockRoot
           l == backfill.lastBackSynced
           s == backfill.startFrom
           blocks == IF answer # genesisBlock /\ backfill.prevFinalized.slot < blockSlot[answer]
                     THEN {answer} ELSE {}
<1>1. /\ backfill \in Backfills /\ backfill.step = "byRoot"
      /\ UNCHANGED <<backfilledRanges, storedState, archiver>>
      /\ BackfillTypes /\ PrevFinalizedIsNext /\ Synced
      /\ s \in ChainBlock /\ backfill.anchorBlock = NoBlock
  BY DEF SyncBlockByRoot, BackfillInv, BackfillTypes, Backfills, Synced
<1>0. answer = b \/ answer = genesisBlock
  BY DEF SyncBlockByRoot, Misled
<1>2. \/ l = NoBlock /\ b = s
      \/ /\ l # NoBlock /\ b = blockParent[l] /\ l # genesisBlock /\ l \in blockArchive
         /\ l \in Lineage[s] /\ s \in blockArchive
         /\ \A c \in Lineage[s] : blockSlot[c] > blockSlot[l] => c \in blockArchive
  BY <1>1 DEF Synced
<1>3. /\ b \in Lineage[s]
      /\ \A c \in Lineage[s] : blockSlot[c] > blockSlot[b] => c \in blockArchive
  <2>1. CASE l = NoBlock /\ b = s
    <3>1. \A c \in Lineage[s] : ~(blockSlot[c] > blockSlot[s])
      BY <1>1, LineageHolds, ParentComesBefore
    <3> QED BY <1>1, <2>1, <3>1, LineageHolds
  <2>2. CASE l # NoBlock
    <3> HIDE DEF b, l, s
    <3> QED BY <1>1, <1>2, <2>2, ParentIsReached
  <2> QED BY <1>2, <2>1, <2>2
<1>4. b \in ChainBlock /\ b # NoBlock
  BY <1>1, <1>3, LineageHolds, BackfillAssumption
<1>5. l = NoBlock => b = s /\ backfill.prevFinalized.slot < blockSlot[b]
  BY <1>1, <1>2 DEF PrevFinalizedIsNext, AnchorSlot
<1>6. /\ blockArchive' = Archived(blocks) /\ blocks \in SUBSET Lineage[s]
      /\ \A n \in blocks : blockSlot[n] > backfill.prevFinalized.slot
  <2>1. backfill.prevFinalized.slot \in Int /\ blockSlot[b] \in Nat
    BY <1>1, <1>4, ParentComesBefore DEF Backfills
  <2>2. blocks \in SUBSET Lineage[s] /\ \A n \in blocks : blockSlot[n] > backfill.prevFinalized.slot
    BY <1>0, <1>3, <2>1
  <2>3. blockArchive' = Archived(blocks)
    BY DEF SyncBlockByRoot, Store
  <2> QED BY <2>2, <2>3
<1>7. CASE answer = genesisBlock
  <2>1. backfill' = NextRound(backfill)
    BY <1>7 DEF SyncBlockByRoot
  <2>2. /\ backfill' \in Backfills
        /\ backfill'.startFrom = s
        /\ backfill'.wsCheckpoint = backfill.wsCheckpoint
        /\ backfill'.prevFinalized = backfill.prevFinalized
        /\ backfill'.lastBackSynced = l
        /\ backfill'.anchorBlock = backfill.anchorBlock
        /\ backfill'.anchorBlockRoot = b
        /\ backfill'.status = backfill.status
        /\ backfill'.step = "next"
    BY <1>1, <2>1 DEF NextRound, Backfills
  <2>3. /\ blockArchive' = blockArchive \union blocks
        /\ Synced' => BackfillInv' /\ blockArchive \subseteq blockArchive'
    <3> HIDE DEF blocks
    <3> QED BY <1>1, <1>6, <2>2, NetworkKeeps
  <2>4. Synced'
    BY <1>1, <1>2, <2>2, <2>3 DEF Synced
  <2> QED BY <2>3, <2>4
<1>8. CASE answer # genesisBlock
  <2>0. answer = b
    BY <1>0, <1>8
  <2>1. backfill' = NextRound([backfill EXCEPT !.anchorBlock = b, !.lastBackSynced = b,
                                               !.lastRoot = b])
    BY <1>8, <2>0 DEF SyncBlockByRoot
  <2>2. /\ backfill' \in Backfills
        /\ backfill'.startFrom = s
        /\ backfill'.wsCheckpoint = backfill.wsCheckpoint
        /\ backfill'.prevFinalized = backfill.prevFinalized
        /\ backfill'.lastBackSynced = b
        /\ backfill'.anchorBlock = b
        /\ backfill'.anchorBlockRoot = b
        /\ backfill'.status = backfill.status
        /\ backfill'.step = "next"
    BY <1>1, <1>4, <2>1 DEF NextRound, Backfills
  <2>3. /\ blockArchive' = blockArchive \union blocks
        /\ Synced' => BackfillInv' /\ blockArchive \subseteq blockArchive'
    <3> HIDE DEF blocks
    <3> QED BY <1>1, <1>4, <1>6, <2>2, NetworkKeeps
  <2>4. b \in blocks \/ ~(blockSlot[b] > backfill.prevFinalized.slot)
    <3>1. backfill.prevFinalized.slot \in Int /\ blockSlot[b] \in Nat
      BY <1>1, <1>4, ParentComesBefore DEF Backfills
    <3> QED BY <1>8, <2>0, <3>1
  <2>5. s \in blockArchive'
    BY <1>2, <1>5, <1>8, <2>0, <2>3
  <2>6. Synced'
    BY <1>1, <1>3, <1>4, <2>2, <2>3, <2>4, <2>5 DEF Synced
  <2> QED BY <2>3, <2>6
<1> QED BY <1>7, <1>8

\* The blocks that SyncRange verifies, and the one at their end.
Verified(count) ==
  {b \in RequestedBlocks :
     Cardinality({c \in RequestedBlocks : blockSlot[c] > blockSlot[b]}) < count}

OldestOf(blocks) == CHOOSE b \in blocks : \A c \in blocks : blockSlot[b] <= blockSlot[c]

\* The blocks of a range that were verified: all that was asked for, down to
\* the oldest of them, which is none before the checkpoint to be met next.
LEMMA VerifiedBlocks ==
  ASSUME BackfillTypes, NEW a, a = backfill.anchorBlock, a \in ChainBlock,
         NEW count \in Nat \ {0}, count <= Cardinality(RequestedBlocks),
         NEW verified, verified = Verified(count), NEW oldest, oldest = OldestOf(verified)
  PROVE  /\ verified \subseteq Lineage[a] /\ oldest \in verified
         /\ \A c \in verified : blockSlot[c] >= blockSlot[oldest]
         /\ \A c \in verified : blockSlot[c] >= backfill.prevFinalized.slot
         /\ \A c \in Lineage[a] :
              blockSlot[oldest] < blockSlot[c] /\ blockSlot[c] < blockSlot[a] => c \in verified
<1> DEFINE R == RequestedBlocks
           prevSlot == backfill.prevFinalized.slot
           from == Max({blockSlot[a] - backfillBatchSize, prevSlot, 0})
           Newer(b) == {c \in R : blockSlot[c] > blockSlot[b]}
<1>1. blockSlot[a] \in Nat /\ backfillBatchSize \in Nat /\ prevSlot \in Int
      /\ Lineage[a] \subseteq ChainBlock /\ IsFiniteSet(Lineage[a])
      /\ \A c \in Lineage[a] : blockSlot[c] \in Nat
  BY LineageHolds, ParentComesBefore, BackfillAssumption DEF BackfillTypes, Backfills
<1>2. from \in Int /\ from >= prevSlot
  <2> DEFINE S == {blockSlot[a] - backfillBatchSize, prevSlot, 0}
             x == blockSlot[a] - backfillBatchSize
  <2>1. x \in Int /\ S = {x, prevSlot, 0}
    BY <1>1
  <2>2. \E m \in S : \A y \in S : m >= y
    <3> HIDE DEF x, S, prevSlot
    <3>1. CASE x >= prevSlot /\ x >= 0
      BY <1>1, <2>1, <3>1
    <3>2. CASE prevSlot >= x /\ prevSlot >= 0
      BY <1>1, <2>1, <3>2
    <3>3. CASE 0 >= x /\ 0 >= prevSlot
      BY <1>1, <2>1, <3>3
    <3> QED BY <1>1, <2>1, <3>1, <3>2, <3>3
  <2>3. Max(S) \in S /\ \A y \in S : Max(S) >= y
    <3> HIDE DEF S
    <3> QED BY <2>2 DEF Max
  <2> QED BY <1>1, <2>1, <2>3
<1>3. R = {b \in Lineage[a] : from <= blockSlot[b] /\ blockSlot[b] < blockSlot[a]}
  BY DEF RequestedBlocks
<1> HIDE DEF R, from
<1>4. R \subseteq Lineage[a] /\ IsFiniteSet(R) /\ \A c \in R : blockSlot[c] \in Nat
  <2>1. R \subseteq Lineage[a]
    BY <1>3
  <2> QED BY <1>1, <2>1, FS_Subset
<1>5. verified = {b \in R : Cardinality(Newer(b)) < count}
  BY DEF R, Verified
<1>6. verified # {}
  <2>1. R # {}
    BY FS_EmptySet DEF R
  <2> DEFINE slots == {blockSlot[c] : c \in R}
  <2>2. slots \in SUBSET Nat /\ slots # {} /\ \A k \in slots : k <= blockSlot[a]
    <3>1. \A c \in R : blockSlot[c] \in Nat /\ blockSlot[c] <= blockSlot[a]
      BY <1>1, <1>3, <1>4
    <3> QED BY <2>1, <3>1
  <2>3. \E m \in slots : \A k \in slots : k <= m
    <3> HIDE DEF slots
    <3> QED BY <1>1, <2>2, GreatestNatural
  <2>4. PICK b \in R : \A c \in R : blockSlot[c] <= blockSlot[b]
    BY <2>3
  <2>5. Newer(b) = {}
    BY <1>4, <2>4
  <2>6. Cardinality(Newer(b)) < count
    <3> HIDE DEF Newer
    <3>1. Cardinality(Newer(b)) = 0
      BY <2>5, FS_EmptySet
    <3> QED BY <3>1
  <2> QED BY <1>5, <2>6
<1>7. verified \subseteq R
  BY <1>5
<1>8. oldest \in verified /\ \A c \in verified : blockSlot[oldest] <= blockSlot[c]
  <2> DEFINE slots == {blockSlot[c] : c \in verified}
  <2>1. slots \in SUBSET Nat /\ slots # {}
    BY <1>4, <1>6, <1>7
  <2>2. \E m \in slots : \A k \in slots : m <= k
    <3> HIDE DEF slots
    <3> QED BY <2>1, LeastNatural
  <2>3. \E b \in verified : \A c \in verified : blockSlot[b] <= blockSlot[c]
    BY <2>2
  <2> QED BY <2>3 DEF OldestOf
<1>9. ASSUME NEW c \in Lineage[a], blockSlot[oldest] < blockSlot[c],
             blockSlot[c] < blockSlot[a]
      PROVE  c \in verified
  <2>1. blockSlot[c] \in Nat /\ blockSlot[oldest] \in Nat /\ from <= blockSlot[oldest]
        /\ oldest \in R
    BY <1>1, <1>3, <1>4, <1>7, <1>8
  <2>2. c \in R
    BY <1>2, <1>3, <1>9, <2>1
  <2>3. Newer(c) \subseteq Newer(oldest) /\ IsFiniteSet(Newer(oldest))
    <3>1. Newer(c) \subseteq Newer(oldest)
      <4> SUFFICES ASSUME NEW d \in R, blockSlot[d] > blockSlot[c]
                   PROVE  blockSlot[d] > blockSlot[oldest]
        OBVIOUS
      <4>1. blockSlot[d] \in Nat
        BY <1>4
      <4> QED BY <1>9, <2>1, <4>1
    <3>2. Newer(oldest) \subseteq R
      OBVIOUS
    <3> QED BY <1>4, <3>1, <3>2, FS_Subset
  <2>4. /\ Cardinality(Newer(c)) <= Cardinality(Newer(oldest))
        /\ Cardinality(Newer(c)) \in Nat /\ Cardinality(Newer(oldest)) \in Nat
    <3> HIDE DEF Newer
    <3>1. IsFiniteSet(Newer(c))
      BY <2>3, FS_Subset
    <3> QED BY <2>3, <3>1, FS_Subset, FS_CardinalityType
  <2>5. Cardinality(Newer(oldest)) < count
    BY <1>5, <1>8
  <2>6. Cardinality(Newer(c)) < count
    <3> HIDE DEF Newer
    <3> QED BY <2>4, <2>5
  <2> QED BY <1>5, <2>2, <2>6
<1>10. \A c \in verified : /\ blockSlot[c] >= prevSlot
                           /\ blockSlot[c] >= blockSlot[oldest]
  <2> SUFFICES ASSUME NEW c \in verified
               PROVE  blockSlot[c] >= prevSlot /\ blockSlot[c] >= blockSlot[oldest]
    OBVIOUS
  <2>1. /\ from <= blockSlot[c] /\ blockSlot[c] \in Nat /\ blockSlot[oldest] \in Nat
        /\ blockSlot[oldest] <= blockSlot[c]
    BY <1>3, <1>4, <1>7, <1>8
  <2> QED BY <1>1, <1>2, <2>1
<1> QED BY <1>4, <1>7, <1>8, <1>9, <1>10

\* SyncRange keeps the invariant.
LEMMA SyncRangeStep ==
  ASSUME BackfillInv, NEW count \in 0..backfillBatchSize, NEW linear \in BOOLEAN,
         SyncRange(count, linear)
  PROVE  BackfillInv' /\ blockArchive \subseteq blockArchive'
<1> DEFINE a == backfill.anchorBlock
           s == backfill.startFrom
           verified == Verified(count)
           oldest == OldestOf(verified)
           prevSlot == backfill.prevFinalized.slot
<1>1. /\ backfill \in Backfills /\ backfill.step = "byRange"
      /\ UNCHANGED <<backfilledRanges, storedState, archiver>>
      /\ BackfillTypes /\ PrevFinalizedIsNext /\ Synced
      /\ s \in ChainBlock /\ count <= Cardinality(RequestedBlocks)
      /\ backfill.step # "ended" /\ prevSlot \in Int
  BY DEF SyncRange, InBackfill, BackfillInv, BackfillTypes, Backfills
<1>2. /\ a # NoBlock /\ a = backfill.lastBackSynced /\ a \in blockArchive
      /\ a \in ChainBlock /\ blockSlot[a] \in Nat
      /\ a \in Lineage[s] /\ s \in blockArchive
      /\ \A c \in Lineage[s] : blockSlot[c] > blockSlot[a] => c \in blockArchive
      /\ backfill.anchorBlockRoot = a
  <2>1. a # NoBlock /\ a = backfill.lastBackSynced /\ backfill.anchorBlockRoot = a
    BY <1>1 DEF Synced
  <2>2. a \in blockArchive /\ a \in Lineage[s] /\ s \in blockArchive
        /\ \A c \in Lineage[s] : blockSlot[c] > blockSlot[a] => c \in blockArchive
    BY <1>1, <2>1 DEF Synced
  <2>3. a \in ChainBlock /\ blockSlot[a] \in Nat
    BY <1>1, <2>2, ParentComesBefore DEF BackfillTypes
  <2> QED BY <2>1, <2>2, <2>3
<1>3. CASE count = 0
  <2>1. /\ backfill' = NextRound(ToParent(backfill))
        /\ blockArchive' = Archived({})
    BY <1>3, ArchivedNothing DEF SyncRange, InArchive
  <2>2. /\ backfill' \in Backfills
        /\ backfill'.startFrom = s
        /\ backfill'.wsCheckpoint = backfill.wsCheckpoint
        /\ backfill'.prevFinalized = backfill.prevFinalized
        /\ backfill'.lastBackSynced = a
        /\ backfill'.anchorBlock = NoBlock
        /\ backfill'.anchorBlockRoot = blockParent[a]
        /\ backfill'.status = backfill.status
        /\ backfill'.step = "next"
    BY <1>1, <1>2, <2>1, BackfillAssumption DEF NextRound, ToParent, Backfills
  <2>3. /\ blockArchive' = blockArchive \union {}
        /\ Synced' => BackfillInv' /\ blockArchive \subseteq blockArchive'
    <3>1. {} \in SUBSET Lineage[s] /\ \A n \in {} : blockSlot[n] > prevSlot
      OBVIOUS
    <3> HIDE DEF a
    <3> QED BY <1>1, <1>2, <2>1, <2>2, <3>1, NetworkKeeps
  <2>4. Synced'
    BY <1>1, <1>2, <2>2, <2>3 DEF Synced
  <2> QED BY <2>3, <2>4
<1>4. CASE count # 0
  <2> DEFINE blocks == SavedBlocks(verified, oldest)
             synced == [backfill EXCEPT !.anchorBlock = oldest, !.anchorBlockRoot = oldest,
                                        !.lastBackSynced = oldest, !.lastRoot = oldest]
  <2>1. /\ verified \subseteq Lineage[a] /\ oldest \in verified
        /\ \A c \in verified : blockSlot[c] >= blockSlot[oldest]
        /\ \A c \in verified : blockSlot[c] >= prevSlot
        /\ \A c \in Lineage[a] :
             blockSlot[oldest] < blockSlot[c] /\ blockSlot[c] < blockSlot[a] => c \in verified
    <3>1. count \in Nat \ {0}
      BY <1>4
    <3>2. a = backfill.anchorBlock /\ verified = Verified(count) /\ oldest = OldestOf(verified)
      OBVIOUS
    <3> HIDE DEF verified, oldest, a
    <3> QED BY <1>1, <1>2, <3>1, <3>2, VerifiedBlocks
  <2>2. /\ backfill' = NextRound(IF linear THEN synced ELSE ToParent(synced))
        /\ blockArchive' = Archived(blocks)
    BY <1>4 DEF SyncRange, Verified, OldestOf, Store
  <2>3. /\ Lineage[a] \subseteq Lineage[s] /\ Lineage[s] \subseteq ChainBlock
        /\ oldest \in ChainBlock /\ oldest # NoBlock /\ oldest \in Lineage[s]
        /\ blockSlot[oldest] \in Nat
        /\ \A c \in Lineage[s] : blockSlot[c] \in Nat
    <3>1. Lineage[a] \subseteq Lineage[s] /\ Lineage[s] \subseteq ChainBlock
      BY <1>1, <1>2, LineageHolds
    <3> HIDE DEF verified, oldest, a
    <3>2. oldest \in ChainBlock /\ oldest \in Lineage[s]
      BY <2>1, <3>1
    <3> QED BY <3>1, <3>2, ParentComesBefore, BackfillAssumption
  <2> HIDE DEF verified, oldest
  <2>4. blocks \in SUBSET Lineage[s] /\ \A n \in blocks : blockSlot[n] > prevSlot
    <3>1. ASSUME NEW n \in blocks PROVE n \in Lineage[s] /\ blockSlot[n] > prevSlot
      <4>1. n \in verified /\ n \in Lineage[s] /\ n \in ChainBlock /\ blockSlot[n] \in Nat
            /\ blockSlot[n] >= blockSlot[oldest] /\ blockSlot[n] >= prevSlot
        BY <2>1, <2>3, <3>1 DEF SavedBlocks
      <4>2. CASE blockSlot[oldest] > prevSlot
        BY <1>1, <2>3, <4>1, <4>2
      <4>3. CASE n # oldest
        <5>1. blockSlot[n] # blockSlot[oldest]
          <6>1. ASSUME blockSlot[n] = blockSlot[oldest] PROVE FALSE
            <7>1. blockSlot[oldest] <= blockSlot[n]
              BY <2>3, <4>1, <6>1
            <7> HIDE DEF s
            <7>2. oldest \in Lineage[n]
              BY <1>1, <2>3, <4>1, <7>1, LineageIsChain
            <7>3. oldest = n
              BY <4>1, <6>1, <7>2, LineageHolds
            <7> QED BY <4>3, <7>3
          <6> QED BY <6>1
        <5>2. blockSlot[oldest] >= prevSlot
          BY <2>1
        <5> QED BY <1>1, <2>3, <4>1, <5>1, <5>2
      <4> QED BY <3>1, <4>2, <4>3 DEF SavedBlocks
    <3> QED BY <3>1
  <2>5. /\ backfill' \in Backfills
        /\ backfill'.startFrom = s
        /\ backfill'.wsCheckpoint = backfill.wsCheckpoint
        /\ backfill'.prevFinalized = backfill.prevFinalized
        /\ backfill'.lastBackSynced = oldest
        /\ \/ backfill'.anchorBlock = oldest /\ backfill'.anchorBlockRoot = oldest
           \/ backfill'.anchorBlock = NoBlock /\ backfill'.anchorBlockRoot = blockParent[oldest]
        /\ backfill'.status = backfill.status
        /\ backfill'.step = "next"
    <3>1. CASE linear
      <4>1. backfill' = NextRound(synced)
        BY <2>2, <3>1
      <4> QED BY <1>1, <2>3, <4>1 DEF NextRound, Backfills
    <3>2. CASE ~linear
      <4>1. backfill' = NextRound(ToParent(synced))
        BY <2>2, <3>2
      <4>2. blockParent[oldest] \in ChainBlock \union {NoBlock}
        BY <2>3, BackfillAssumption
      <4> QED BY <1>1, <2>3, <4>1, <4>2 DEF NextRound, ToParent, Backfills
    <3> QED BY <3>1, <3>2
  <2>6. /\ blockArchive' = blockArchive \union blocks
        /\ Synced' => BackfillInv' /\ blockArchive \subseteq blockArchive'
    <3> HIDE DEF blocks
    <3> QED BY <1>1, <2>2, <2>3, <2>4, <2>5, NetworkKeeps
  <2>7. ASSUME NEW c \in Lineage[s], blockSlot[c] > blockSlot[oldest]
        PROVE  c \in blockArchive'
    <3>1. c \in ChainBlock /\ blockSlot[c] \in Nat
      BY <2>3
    <3>2. CASE blockSlot[c] > blockSlot[a]
      BY <1>2, <2>6, <3>2
    <3>3. CASE blockSlot[c] <= blockSlot[a]
      <4>1. c \in Lineage[a]
        BY <1>1, <1>2, <3>3, LineageIsChain
      <4>2. CASE blockSlot[c] = blockSlot[a]
        <5>1. c = a
          BY <1>2, <4>1, <4>2, LineageHolds
        <5> QED BY <1>2, <2>6, <5>1
      <4>3. CASE blockSlot[c] < blockSlot[a]
        <5>1. c \in verified
          BY <2>1, <2>7, <4>1, <4>3
        <5>2. c # oldest
          BY <2>3, <2>7
        <5>3. c \in blocks
          BY <5>1, <5>2 DEF SavedBlocks
        <5> QED BY <2>6, <5>3
      <4> QED BY <1>2, <3>1, <3>3, <4>2, <4>3
    <3> QED BY <1>2, <3>1, <3>2, <3>3
  <2>8. blockSlot[oldest] > prevSlot => oldest \in blockArchive'
    BY <2>1, <2>6 DEF SavedBlocks
  <2>9. Synced'
    <3> HIDE DEF blocks
    <3> QED BY <1>1, <1>2, <2>3, <2>5, <2>6, <2>7, <2>8 DEF Synced
  <2> QED BY <2>6, <2>9
<1> QED BY <1>3, <1>4

-----------------------------------------------------------------------------
(* Start and restart *)

\* What a new BackfillSync object knows.
LEMMA NewBackfillHolds ==
  ASSUME NEW anchor \in ChainBlock, NEW ws \in ChainBlock \union {NoBlock},
         NEW archive \in SUBSET ChainBlock, NEW ranges,
         \A k \in DOMAIN ranges : ranges[k] \in Nat,
         \A c \in archive : blockSlot[c] >= blockSlot[anchor] => anchor \in Lineage[c],
         NEW b, b = NewBackfill(anchor, ws, archive, ranges)
  PROVE  /\ b \in Backfills
         /\ b.startFrom = anchor /\ b.lastBackSynced = NoBlock /\ b.lastRoot = NoBlock
         /\ b.anchorBlock = NoBlock /\ b.anchorBlockRoot = anchor
         /\ b.wsCheckpoint = ws /\ b.status = "pending" /\ b.step = "next"
         /\ b.prevFinalized.slot < blockSlot[anchor]
         /\ \/ /\ b.prevFinalized.root \in archive
               /\ blockSlot[b.prevFinalized.root] = b.prevFinalized.slot
            \/ b.prevFinalized.slot = -1
         /\ \A c \in archive :
              b.prevFinalized.slot < blockSlot[c] /\ blockSlot[c] <= blockSlot[anchor]
                => c \in Lineage[anchor]
         /\ \A c \in archive :
              blockSlot[c] = blockSlot[anchor] => c \in Lineage[anchor]
<1> DEFINE slot == blockSlot[anchor]
           prev == ExtractPrevious(archive, slot)
           written == IF slot \in DOMAIN ranges THEN ranges[slot] ELSE Unset
<1>1. slot \in Nat /\ written \in Int
  BY ParentComesBefore DEF Unset
<1>2. /\ prev \in [root : ChainBlock \union {NoBlock}, slot : Int]
      /\ prev.slot < slot
      /\ (prev.root \in archive /\ blockSlot[prev.root] = prev.slot) \/ prev.slot = -1
      /\ \A c \in archive : blockSlot[c] < slot => blockSlot[c] <= prev.slot
  <2> HIDE DEF prev
  <2> QED BY <1>1, ExtractPreviousFinds DEF prev
<1>3. b = [startFrom |-> anchor,
           anchorBlock |-> NoBlock, anchorBlockRoot |-> anchor,
           lastBackSynced |-> NoBlock, lastRoot |-> NoBlock,
           rangeWritten |-> written, prevFinalized |-> prev,
           wsCheckpoint |-> ws, wsValidated |-> FALSE,
           status |-> "pending", step |-> "next", triggered |-> TRUE,
           jumped |-> FALSE, seqs |-> {}]
  BY DEF NewBackfill
<1> HIDE DEF prev, written
<1>4. /\ b \in Backfills
      /\ b.startFrom = anchor /\ b.lastBackSynced = NoBlock /\ b.lastRoot = NoBlock
      /\ b.anchorBlock = NoBlock /\ b.anchorBlockRoot = anchor
      /\ b.wsCheckpoint = ws /\ b.status = "pending" /\ b.step = "next"
      /\ b.prevFinalized = prev
  BY <1>1, <1>2, <1>3 DEF Backfills
<1>5. ASSUME NEW c \in archive, blockSlot[c] = slot PROVE c \in Lineage[anchor]
  <2>1. c \in ChainBlock /\ anchor \in Lineage[c]
    BY <1>1, <1>5
  <2>2. c = anchor
    BY <1>5, <2>1, LineageHolds
  <2> QED BY <2>2, LineageHolds
<1>6. ASSUME NEW c \in archive, prev.slot < blockSlot[c], blockSlot[c] <= slot
      PROVE  c \in Lineage[anchor]
  <2>1. blockSlot[c] \in Nat /\ prev.slot \in Int
    BY <1>2, ParentComesBefore
  <2>2. blockSlot[c] = slot
    BY <1>1, <1>2, <1>6, <2>1
  <2> QED BY <1>5, <2>2
<1> QED BY <1>2, <1>4, <1>5, <1>6

\* The invariant holds at the start.
LEMMA BackfillStarts == BackfillInit => BackfillInv /\ Aligned
<1> SUFFICES ASSUME BackfillInit PROVE BackfillInv /\ Aligned
  OBVIOUS
<1> DEFINE anchor == storedState
           ws == IF storedState \in wsAnchors THEN storedState ELSE NoBlock
<1>1. /\ anchor \in ChainBlock /\ ws \in ChainBlock \union {NoBlock}
      /\ anchor \in Lineage[anchor] /\ ws \in Lineage[anchor] \union {NoBlock}
      /\ blockSlot[anchor] \in Nat
  <2>1. anchor \in ChainBlock /\ ws \in ChainBlock \union {NoBlock}
    BY BackfillAssumption DEF BackfillInit
  <2> QED BY <2>1, LineageHolds, ParentComesBefore
<1>2. blockArchive \subseteq {anchor}
  BY DEF BackfillInit, WithAnchor
<1>3. DOMAIN backfilledRanges = {}
  BY DEF BackfillInit
<1>4. backfill = NewBackfill(anchor, ws, blockArchive, backfilledRanges)
  BY DEF BackfillInit
<1>5. /\ backfill \in Backfills
      /\ backfill.startFrom = anchor
      /\ backfill.lastBackSynced = NoBlock /\ backfill.lastRoot = NoBlock
      /\ backfill.anchorBlock = NoBlock /\ backfill.anchorBlockRoot = anchor
      /\ backfill.wsCheckpoint = ws /\ backfill.status = "pending" /\ backfill.step = "next"
      /\ backfill.prevFinalized.slot < blockSlot[anchor]
      /\ \/ /\ backfill.prevFinalized.root \in blockArchive
            /\ blockSlot[backfill.prevFinalized.root] = backfill.prevFinalized.slot
         \/ backfill.prevFinalized.slot = -1
      /\ \A c \in blockArchive :
           backfill.prevFinalized.slot < blockSlot[c] /\ blockSlot[c] <= blockSlot[anchor]
             => c \in Lineage[anchor]
  <2>1. \A c \in blockArchive : blockSlot[c] >= blockSlot[anchor] => anchor \in Lineage[c]
    BY <1>1, <1>2
  <2>2. \A k \in DOMAIN backfilledRanges : backfilledRanges[k] \in Nat
    BY <1>3
  <2>3. blockArchive \in SUBSET ChainBlock
    BY <1>1, <1>2
  <2> HIDE DEF anchor, ws
  <2> QED BY <1>1, <1>4, <2>1, <2>2, <2>3, NewBackfillHolds
<1>6. archiver = [step |-> "idle", block |-> anchor]
  BY DEF BackfillInit, NewArchiver
<1>7. BackfillTypes
  BY <1>1, <1>2, <1>3, <1>5, <1>6 DEF BackfillTypes
<1>8. OneOfASlot /\ RangesHold
  BY <1>2, <1>3 DEF OneOfASlot, RangesHold
<1>9. Finalized
  <2>1. \A c \in Lineage[anchor] : ~(blockSlot[c] > blockSlot[anchor])
    BY <1>1, LineageHolds, ParentComesBefore
  <2>2. archiver.block = anchor /\ archiver.step = "idle"
    BY <1>6
  <2> QED BY <1>1, <1>2, <1>5, <2>1, <2>2 DEF Finalized, Above, AnchorSlot
<1>10. PrevFinalizedIsNext
  BY <1>5 DEF PrevFinalizedIsNext, AnchorSlot
<1>11. Synced /\ Completed
  BY <1>1, <1>5 DEF Synced, Completed
<1>12. Aligned
  BY <1>5 DEF BackfillInit, Aligned
<1> QED BY <1>7, <1>8, <1>9, <1>10, <1>11, <1>12 DEF BackfillInv

\* Restart keeps the invariant.
LEMMA RestartStep ==
  ASSUME BackfillInv, Aligned, ~Misled, NEW ws \in wsAnchors \union {NoBlock},
         NEW finalized \in ChainBlock \union {NoBlock}, Restart(ws, finalized)
  PROVE  BackfillInv' /\ Aligned' /\ blockArchive \subseteq blockArchive'
<1> DEFINE stored == IF finalized = NoBlock THEN storedState ELSE finalized
           anchor == IF ws = NoBlock \/ blockSlot[stored] > blockSlot[ws] THEN stored ELSE ws
           blocks == IF anchor = genesisBlock THEN {anchor} ELSE {}
<1>1. /\ finalized # NoBlock => CanBeFinalized(finalized)
      /\ ws # NoBlock => \A b \in blockArchive \union {stored} :
                           blockSlot[b] >= blockSlot[ws] => ws \in Lineage[b]
      /\ storedState' = anchor
      /\ blockArchive' = blockArchive \union blocks
      /\ rootIndex' = rootIndex \union blocks
      /\ backfill' = NewBackfill(anchor, ws, blockArchive', backfilledRanges)
      /\ archiver' = [step |-> "idle", block |-> anchor]
      /\ UNCHANGED backfilledRanges
  BY DEF Restart, FinalizedBefore, WithAnchor, NewArchiver
<1>2. /\ BackfillTypes /\ OneOfASlot /\ Finalized /\ RangesHold
      /\ storedState \in ChainBlock /\ archiver.block \in ChainBlock
      /\ blockSlot[archiver.block] \in Nat
  BY FinalizedSlots DEF BackfillInv
<1>3. stored \in ChainBlock /\ ws \in ChainBlock \union {NoBlock} /\ anchor \in ChainBlock
  BY <1>2, BackfillAssumption
<1>4. \A c \in blockArchive : c \in ChainBlock /\ blockSlot[c] \in Nat
  BY <1>2, ParentComesBefore DEF BackfillTypes
<1>5. ASSUME NEW c \in blockArchive, blockSlot[c] >= blockSlot[stored]
      PROVE  stored \in Lineage[c]
  <2>1. CASE finalized = NoBlock
    BY <1>2, <1>5, <2>1 DEF Finalized, Above
  <2>2. CASE finalized # NoBlock
    <3>1. /\ stored = finalized /\ archiver.block \in Lineage[finalized]
          /\ CanBeFinalized(finalized) /\ blockSlot[stored] \in Nat
      BY <1>1, <1>3, <2>2, ParentComesBefore DEF CanBeFinalized
    <3>2. blockSlot[archiver.block] <= blockSlot[finalized]
          /\ (blockSlot[archiver.block] = blockSlot[finalized] => archiver.block = finalized)
      BY <1>3, <3>1, LineageHolds
    <3>3. CASE blockSlot[c] > blockSlot[archiver.block]
      <4>1. c \in Lineage[finalized] \/ finalized \in Lineage[c]
        BY <3>1, <3>3 DEF CanBeFinalized, FinalizedBefore
      <4>2. CASE c \in Lineage[finalized]
        <5>1. c = finalized
          BY <1>3, <1>4, <1>5, <3>1, <4>2, LineageHolds
        <5> QED BY <1>3, <3>1, <5>1, LineageHolds
      <4> QED BY <3>1, <4>1, <4>2
    <3>4. CASE blockSlot[c] <= blockSlot[archiver.block]
      <4>1. archiver.block = stored
        BY <1>2, <1>4, <1>5, <3>1, <3>2, <3>4
      <4>2. Above(archiver.block)
        BY <1>2 DEF Finalized
      <4> QED BY <1>5, <4>1, <4>2 DEF Above
    <3> QED BY <1>2, <1>4, <3>3, <3>4
  <2> QED BY <2>1, <2>2
<1>6. \A c \in blockArchive : blockSlot[c] >= blockSlot[anchor] => anchor \in Lineage[c]
  BY <1>1, <1>5
<1>7. ws \in Lineage[anchor] \union {NoBlock}
  <2>1. CASE ws # NoBlock /\ anchor = stored
    <3>1. blockSlot[stored] >= blockSlot[ws] => ws \in Lineage[stored]
      BY <1>1, <2>1
    <3>2. blockSlot[stored] \in Nat /\ blockSlot[ws] \in Nat
      BY <1>3, <2>1, ParentComesBefore
    <3>3. blockSlot[stored] > blockSlot[ws] \/ stored = ws
      BY <2>1
    <3> QED BY <2>1, <3>1, <3>2, <3>3
  <2>2. CASE anchor = ws
    BY <1>3, <2>2, LineageHolds
  <2> QED BY <2>1, <2>2
<1> HIDE DEF anchor, stored
<1>8. /\ FitArchive(blocks, genesisBlock) /\ blocks \subseteq ChainBlock
      /\ blocks \subseteq {anchor}
  <2>1. genesisBlock \in ChainBlock
    BY BackfillAssumption
  <2>2. genesisBlock \in Lineage[genesisBlock]
        /\ \A b \in blockArchive : genesisBlock \in Lineage[b]
    BY <1>4, <2>1, LineageHolds
  <2> QED BY <2>1, <2>2 DEF FitArchive
<1> HIDE DEF blocks
<1>9. OneOfASlot' /\ blockArchive' \subseteq ChainBlock
  BY <1>1, <1>2, <1>8, GrownArchive
<1>10. RangesHold'
  BY <1>1, <1>2, <1>8, GrownRangesHold
<1>11. \A c \in blockArchive' : blockSlot[c] >= blockSlot[anchor] => anchor \in Lineage[c]
  <2>1. anchor \in Lineage[anchor]
    BY <1>3, LineageHolds
  <2> QED BY <1>1, <1>6, <1>8, <2>1
<1>12. /\ backfill' \in Backfills
       /\ backfill'.startFrom = anchor
       /\ backfill'.lastBackSynced = NoBlock /\ backfill'.lastRoot = NoBlock
       /\ backfill'.anchorBlock = NoBlock /\ backfill'.anchorBlockRoot = anchor
       /\ backfill'.wsCheckpoint = ws /\ backfill'.status = "pending"
       /\ backfill'.step = "next"
       /\ backfill'.prevFinalized.slot < blockSlot[anchor]
       /\ \/ /\ backfill'.prevFinalized.root \in blockArchive'
             /\ blockSlot[backfill'.prevFinalized.root] = backfill'.prevFinalized.slot
          \/ backfill'.prevFinalized.slot = -1
       /\ \A c \in blockArchive' :
            backfill'.prevFinalized.slot < blockSlot[c] /\ blockSlot[c] <= blockSlot[anchor]
              => c \in Lineage[anchor]
       /\ \A c \in blockArchive' :
            blockSlot[c] = blockSlot[anchor] => c \in Lineage[anchor]
  <2>1. \A k \in DOMAIN backfilledRanges : backfilledRanges[k] \in Nat
    BY <1>2 DEF BackfillTypes
  <2>2. blockArchive' \in SUBSET ChainBlock
    BY <1>9
  <2>3. backfill' = NewBackfill(anchor, ws, blockArchive', backfilledRanges)
    BY <1>1
  <2> QED BY <1>3, <1>11, <2>1, <2>2, <2>3, NewBackfillHolds
<1>13. archiver'.block = anchor /\ archiver'.step = "idle"
  BY <1>1
<1>14. BackfillTypes'
  BY <1>1, <1>2, <1>3, <1>9, <1>12 DEF BackfillTypes
<1>15. Finalized'
  <2>1. \A c \in Lineage[anchor] : ~(blockSlot[c] > blockSlot[anchor])
    BY <1>3, LineageHolds, ParentComesBefore
  <2>2. anchor \in Lineage[anchor] /\ blockSlot[anchor] \in Nat
    BY <1>3, LineageHolds, ParentComesBefore
  <2>3. Above(backfill.startFrom)' /\ Above(storedState)' /\ Above(archiver.block)'
    BY <1>1, <1>11, <1>12, <1>13 DEF Above
  <2>4. \A c \in blockArchive' :
          blockSlot[anchor] <= blockSlot[c] /\ blockSlot[c] <= blockSlot[anchor]
            => c \in Lineage[anchor]
    <3>1. \A c \in blockArchive' : blockSlot[c] \in Nat
      BY <1>9, ParentComesBefore
    <3> QED BY <1>12, <2>2, <3>1
  <2> QED BY <1>1, <1>12, <1>13, <2>1, <2>2, <2>3, <2>4 DEF Finalized, AnchorSlot
<1>16. PrevFinalizedIsNext'
  BY <1>12 DEF PrevFinalizedIsNext, AnchorSlot
<1>17. Synced' /\ Completed'
  BY <1>7, <1>12 DEF Synced, Completed
<1>18. Aligned'
  BY <1>1, <1>12 DEF Aligned
<1> QED BY <1>1, <1>18, <1>9, <1>10, <1>14, <1>15, <1>16, <1>17 DEF BackfillInv

-----------------------------------------------------------------------------
(* The results *)

\* Steps of the loop other than the one that reads the archive by roots.
LEMMA LoopAligned ==
  ASSUME BackfillInv, Aligned, blockArchive \subseteq blockArchive',
         Iterate \/ WriteRange \/ Jump \/ Cleanup \/ NoPeer \/ RequestBlocks
           \/ AddPeer \/ RequestFails
  PROVE  Aligned'
<1>1. backfill \in Backfills /\ rootIndex = blockArchive
      /\ backfill.lastRoot = backfill.lastBackSynced
  BY DEF BackfillInv, BackfillTypes, Aligned
<1>2. CASE Iterate
  <2>1. rootIndex' = blockArchive'
    <3>1. InDatabase \/ \E blocks : Store(blocks)
      BY <1>2 DEF Iterate
    <3>2. ASSUME NEW blocks, Store(blocks) PROVE rootIndex' = blockArchive'
      BY <1>1, <3>2, StoredAligned
    <3> QED BY <1>1, <3>1, <3>2 DEF InDatabase, InArchive
  <2>2. backfill'.lastRoot = backfill.lastRoot
        /\ backfill'.lastBackSynced = backfill.lastBackSynced
    BY <1>1, <1>2 DEF Iterate, AbortedLoop, Backfills
  <2> QED BY <1>1, <2>1, <2>2 DEF Aligned
<1>3. CASE Jump
  <2> DEFINE b == CHOOSE c \in blockArchive : blockSlot[c] = JumpBackTo
             seqs == {k \in FilteredSeqs : k < blockSlot[backfill.startFrom]}
             prev == IF backfill.prevFinalized.slot >= JumpBackTo
                     THEN ExtractPrevious(blockArchive, JumpBackTo)
                     ELSE backfill.prevFinalized
             reached == JumpBackTo
             jumps == CanJump
  <2>1. \/ backfill' = [backfill EXCEPT !.step = "cleanup", !.jumped = jumps, !.seqs = seqs]
        \/ backfill' = [backfill EXCEPT
                          !.step = "cleanup", !.jumped = jumps, !.seqs = seqs,
                          !.rangeWritten = reached,
                          !.anchorBlock = b, !.anchorBlockRoot = b,
                          !.lastBackSynced = b, !.lastRoot = b,
                          !.prevFinalized = prev]
    BY <1>1, <1>3 DEF Jump, Backfills
  <2>2. backfill'.lastRoot = backfill'.lastBackSynced
    <3> HIDE DEF b, seqs, prev, reached, jumps
    <3>1. CASE backfill' = [backfill EXCEPT !.step = "cleanup", !.jumped = jumps,
                                            !.seqs = seqs]
      BY <1>1, <3>1 DEF Backfills
    <3>2. CASE backfill' = [backfill EXCEPT
                              !.step = "cleanup", !.jumped = jumps, !.seqs = seqs,
                              !.rangeWritten = reached,
                              !.anchorBlock = b, !.anchorBlockRoot = b,
                              !.lastBackSynced = b, !.lastRoot = b,
                              !.prevFinalized = prev]
      BY <1>1, <3>2 DEF Backfills
    <3> QED BY <2>1, <3>1, <3>2
  <2> QED BY <1>1, <1>3, <2>2 DEF Jump, InArchive, Aligned
<1>4. CASE WriteRange
  BY <1>1, <1>4 DEF WriteRange, InArchive, Aligned, Backfills
<1>5. CASE Cleanup
  BY <1>1, <1>5 DEF Cleanup, InArchive, Aligned, Backfills
<1>6. CASE NoPeer \/ RequestBlocks \/ AddPeer \/ RequestFails
  BY <1>1, <1>6
     DEF NoPeer, RequestBlocks, AddPeer, RequestFails, NextRound, InDatabase, InArchive,
         Aligned, Backfills
<1> QED BY <1>2, <1>3, <1>4, <1>5, <1>6

\* The answers of peers, as long as none is another block.
LEMMA AnswersAligned ==
  ASSUME BackfillInv, Aligned, ~Misled', otherBlocks \in Nat,
         blockArchive \subseteq blockArchive',
         NEW answer, NEW count, NEW linear,
         SyncBlockByRoot(answer) \/ SyncRange(count, linear)
  PROVE  Aligned'
<1>1. backfill \in Backfills /\ rootIndex = blockArchive
      /\ backfill.lastRoot = backfill.lastBackSynced
  BY DEF BackfillInv, BackfillTypes, Aligned
<1>2. rootIndex' = blockArchive'
  <2>1. (\E blocks : Store(blocks)) \/ InArchive
    BY DEF SyncBlockByRoot, SyncRange
  <2>2. ASSUME NEW blocks, Store(blocks) PROVE rootIndex' = blockArchive'
    BY <1>1, <2>2, StoredAligned
  <2> QED BY <1>1, <2>1, <2>2 DEF InArchive
<1>3. CASE SyncBlockByRoot(answer)
  <2>1. answer = backfill.anchorBlockRoot \/ answer = genesisBlock
    BY <1>3 DEF SyncBlockByRoot, Misled
  <2>2. backfill'.lastRoot = backfill'.lastBackSynced
    BY <1>1, <1>3, <2>1 DEF SyncBlockByRoot, NextRound, Backfills
  <2> QED BY <1>2, <2>2 DEF Aligned
<1>4. CASE SyncRange(count, linear)
  <2> DEFINE oldest == OldestOf(Verified(count))
             synced == [backfill EXCEPT !.anchorBlock = oldest, !.anchorBlockRoot = oldest,
                                        !.lastBackSynced = oldest, !.lastRoot = oldest]
  <2>1. \/ backfill' = NextRound(ToParent(backfill))
        \/ backfill' = NextRound(synced)
        \/ backfill' = NextRound(ToParent(synced))
    BY <1>4 DEF SyncRange, Verified, OldestOf
  <2>2. backfill'.lastRoot = backfill'.lastBackSynced
    <3> HIDE DEF oldest
    <3>1. CASE backfill' = NextRound(ToParent(backfill))
      BY <1>1, <3>1 DEF NextRound, ToParent, Backfills
    <3>2. CASE backfill' = NextRound(synced)
      BY <1>1, <3>2 DEF NextRound, Backfills
    <3>3. CASE backfill' = NextRound(ToParent(synced))
      BY <1>1, <3>3 DEF NextRound, ToParent, Backfills
    <3> QED BY <2>1, <3>1, <3>2, <3>3
  <2> QED BY <1>2, <2>2 DEF Aligned
<1> QED BY <1>3, <1>4

\* The archiver's steps.
LEMMA ArchiverAligned ==
  ASSUME Aligned, Archive, blockArchive \subseteq blockArchive'
  PROVE  Aligned'
<1>1. UNCHANGED backfill /\ (InArchive \/ \E blocks : Store(blocks))
  BY DEF Archive, MigrateBlocks, MigrateFails, MaybeArchiveState, UpdateBackfillRange,
         ClearForwardRanges, InArchiver, InDatabase
<1>2. ASSUME NEW blocks, Store(blocks) PROVE rootIndex' = blockArchive'
  BY <1>2, StoredAligned DEF Aligned
<1> QED BY <1>1, <1>2 DEF Aligned, InArchive

\* An answer that is another block is counted, and never forgotten.
LEMMA OtherBlocksCounted ==
  ASSUME otherBlocks \in Nat, [BackfillNext]_backfillVars
  PROVE  otherBlocks' \in Nat /\ (Misled => Misled')
<1>1. otherBlocks' = otherBlocks \/ otherBlocks' = otherBlocks + 1
  <2>1. CASE UNCHANGED backfillVars
    BY <2>1 DEF backfillVars
  <2>2. CASE Loop \/ AddPeer \/ RequestFails
    BY <2>2 DEF Loop, Iterate, WriteRange, Jump, Cleanup, FastBackfillDb, NoPeer,
                RequestBlocks, AddPeer, RequestFails, InBackfill
  <2>3. CASE \E b \in ChainBlock : SyncBlockByRoot(b)
    BY <2>3 DEF SyncBlockByRoot
  <2>4. CASE \E count \in 0..backfillBatchSize, linear \in BOOLEAN : SyncRange(count, linear)
    BY <2>4 DEF SyncRange, InBackfill
  <2>5. CASE Archive
    BY <2>5 DEF Archive, MigrateBlocks, MigrateFails, MaybeArchiveState,
                UpdateBackfillRange, ClearForwardRanges, InArchiver
  <2>6. CASE \E ws \in wsAnchors \union {NoBlock}, finalized \in ChainBlock \union {NoBlock} :
               Restart(ws, finalized)
    BY <2>6 DEF Restart
  <2> QED BY <2>1, <2>2, <2>3, <2>4, <2>5, <2>6 DEF BackfillNext
<1> QED BY <1>1 DEF Misled

\* Every step keeps the invariant, and no block leaves the archive, unless an
\* answer by root was taken for another block.
LEMMA BackfillStep ==
  ASSUME BackfillInv, Aligned, otherBlocks \in Nat, ~Misled', [BackfillNext]_backfillVars
  PROVE  BackfillInv' /\ Aligned' /\ blockArchive \subseteq blockArchive'
<1>0. ~Misled
  BY OtherBlocksCounted
<1>1. CASE UNCHANGED backfillVars
  <2>1. BackfillTypes' /\ OneOfASlot' /\ RangesHold' /\ Aligned'
    BY <1>1 DEF backfillVars, BackfillInv, BackfillTypes, OneOfASlot, RangesHold, RangeHolds,
                Aligned
  <2>2. Finalized'
    BY <1>1 DEF backfillVars, BackfillInv, Finalized, Above, AnchorSlot
  <2>3. PrevFinalizedIsNext' /\ Synced' /\ Completed'
    BY <1>1 DEF backfillVars, BackfillInv, PrevFinalizedIsNext, Synced, Completed, AnchorSlot
  <2> QED BY <1>1, <2>1, <2>2, <2>3 DEF BackfillInv, backfillVars
<1>2. CASE Loop \/ AddPeer \/ RequestFails
  <2>1. CASE FastBackfillDb
    <3>1. BackfillInv' /\ blockArchive \subseteq blockArchive'
          /\ backfill'.lastRoot = backfill'.lastBackSynced
      BY <2>1, FastBackfillDbStep
    <3>2. UNCHANGED <<blockArchive, rootIndex>>
      BY <2>1 DEF FastBackfillDb, InDatabase, InArchive
    <3> QED BY <3>1, <3>2 DEF Aligned
  <2>2. CASE Iterate \/ WriteRange \/ Jump \/ Cleanup \/ NoPeer \/ RequestBlocks
               \/ AddPeer \/ RequestFails
    <3>1. BackfillInv' /\ blockArchive \subseteq blockArchive'
      BY <2>2, IterateStep, WriteRangeStep, JumpStep, CleanupStep, WaitingSteps, AddPeerStep
    <3> QED BY <2>2, <3>1, LoopAligned
  <2> QED BY <1>2, <2>1, <2>2 DEF Loop
<1>3. ASSUME NEW b \in ChainBlock, SyncBlockByRoot(b)
      PROVE  BackfillInv' /\ Aligned' /\ blockArchive \subseteq blockArchive'
  <2>1. BackfillInv' /\ blockArchive \subseteq blockArchive'
    BY <1>0, <1>3, SyncBlockByRootStep
  <2> QED BY <1>3, <2>1, AnswersAligned
<1>4. ASSUME NEW count \in 0..backfillBatchSize, NEW linear \in BOOLEAN,
             SyncRange(count, linear)
      PROVE  BackfillInv' /\ Aligned' /\ blockArchive \subseteq blockArchive'
  <2>1. BackfillInv' /\ blockArchive \subseteq blockArchive'
    BY <1>4, SyncRangeStep
  <2> QED BY <1>4, <2>1, AnswersAligned
<1>5. CASE Archive
  <2>1. ASSUME NEW b \in ChainBlock, MigrateBlocks(b)
        PROVE  BackfillInv' /\ blockArchive \subseteq blockArchive'
    BY <1>0, <2>1, MigrateBlocksStep
  <2>2. ASSUME NEW b \in ChainBlock, NEW slot \in SlotsOfBlocks(ChainBlock),
               MigrateFails(b, slot)
        PROVE  BackfillInv' /\ blockArchive \subseteq blockArchive'
    BY <1>0, <2>2, MigrateFailsStep
  <2>3. ASSUME NEW stores \in BOOLEAN, NEW step \in {"failed", "put"},
               MaybeArchiveState(stores, step)
        PROVE  BackfillInv' /\ blockArchive \subseteq blockArchive'
    BY <2>3, MaybeArchiveStateStep
  <2>4. ASSUME UpdateBackfillRange
        PROVE  BackfillInv' /\ blockArchive \subseteq blockArchive'
    BY <2>4, UpdateBackfillRangeStep
  <2>5. ASSUME ClearForwardRanges
        PROVE  BackfillInv' /\ blockArchive \subseteq blockArchive'
    BY <2>5, ClearForwardRangesStep
  <2>6. \/ \E b \in ChainBlock : MigrateBlocks(b)
        \/ \E b \in ChainBlock, slot \in SlotsOfBlocks(ChainBlock) : MigrateFails(b, slot)
        \/ \E stores \in BOOLEAN, step \in {"failed", "put"} : MaybeArchiveState(stores, step)
        \/ UpdateBackfillRange
        \/ ClearForwardRanges
    BY <1>5 DEF Archive
  <2>7. BackfillInv' /\ blockArchive \subseteq blockArchive'
    BY <2>1, <2>2, <2>3, <2>4, <2>5, <2>6
  <2> QED BY <1>5, <2>7, ArchiverAligned
<1>6. ASSUME NEW ws \in wsAnchors \union {NoBlock},
             NEW finalized \in ChainBlock \union {NoBlock}, Restart(ws, finalized)
      PROVE  BackfillInv' /\ Aligned' /\ blockArchive \subseteq blockArchive'
  BY <1>0, <1>6, RestartStep
<1> QED BY <1>1, <1>2, <1>3, <1>4, <1>5, <1>6 DEF BackfillNext

\* The invariant of backfill sync and the archiver of blocks holds until
\* syncBlockByRoot takes another block for the one it asked for (the code does
\* not compare them); from then on nothing is claimed.
THEOREM BackfillStays == BackfillSpec => [](Misled \/ (BackfillInv /\ Aligned))
<1> DEFINE Inv == otherBlocks \in Nat /\ (Misled \/ (BackfillInv /\ Aligned))
<1>1. BackfillInit => Inv
  BY BackfillStarts DEF BackfillInit
<1>2. Inv /\ [BackfillNext]_backfillVars => Inv'
  BY BackfillStep, OtherBlocksCounted
<1>3. Inv => Misled \/ (BackfillInv /\ Aligned)
  OBVIOUS
<1> HIDE DEF Inv
<1> QED BY <1>1, <1>2, <1>3, PTL DEF BackfillSpec

\* Every stretch that backfilledRanges records is in the archive, whatever
\* crashes, jumps, wrong answers by range and failed migrations came before,
\* and a sync that says it is completed has every block back to genesis; except
\* once syncBlockByRoot took another block for the one it asked for.
THEOREM ClaimsHold == BackfillSpec => []ClaimsAreStored
<1>1. Misled \/ (BackfillInv /\ Aligned) => ClaimsAreStored
  <2> SUFFICES ASSUME BackfillInv PROVE RangesAreComplete
    BY DEF ClaimsAreStored
  <2>1. ASSUME NEW k \in DOMAIN backfilledRanges
        PROVE  \E b \in blockArchive :
                 /\ blockSlot[b] = k
                 /\ {c \in Lineage[b] : blockSlot[c] > backfilledRanges[k]} \subseteq blockArchive
    BY DEF BackfillInv, RangesHold, RangeHolds
  <2>2. backfill.status = "completed" =>
          /\ Lineage[backfill.startFrom] \subseteq blockArchive
          /\ backfill.wsCheckpoint \in Lineage[backfill.startFrom] \union {NoBlock}
    BY DEF BackfillInv, Completed
  <2> QED BY <2>1, <2>2 DEF RangesAreComplete
<1> QED BY <1>1, BackfillStays, PTL

\* Nothing that is written to the archive replaces a block of it, until
\* syncBlockByRoot takes another block for the one it asked for: that one goes
\* to its own slot, whatever is there.
THEOREM ArchiveGrows ==
  BackfillSpec => [][Misled' \/ blockArchive \subseteq blockArchive']_backfillVars
<1> DEFINE Inv == otherBlocks \in Nat /\ (Misled \/ (BackfillInv /\ Aligned))
<1>1. BackfillInit => Inv
  BY BackfillStarts DEF BackfillInit
<1>2. Inv /\ [BackfillNext]_backfillVars => Inv'
  BY BackfillStep, OtherBlocksCounted
<1>3. Inv /\ [BackfillNext]_backfillVars
        => [Misled' \/ blockArchive \subseteq blockArchive']_backfillVars
  BY BackfillStep, OtherBlocksCounted
<1> HIDE DEF Inv
<1> QED BY <1>1, <1>2, <1>3, PTL DEF BackfillSpec

=============================================================================
