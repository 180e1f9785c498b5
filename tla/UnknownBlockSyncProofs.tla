----------------------- MODULE UnknownBlockSyncProofs -----------------------
(***************************************************************************)
(* No handler of UnknownBlockSync calls processBlock before the parent is  *)
(* imported.  Every step but two only forgets objects, changes their       *)
(* status or starts fetches; the two that start processings are the fetch  *)
(* of a block whose parent was looked up and the import of a parent.  The  *)
(* fork choice never forgets a block, and a handler keeps its object when  *)
(* the map forgets it, so the promise holds for objects, not for the map.  *)
(***************************************************************************)
EXTENDS UnknownBlockSync, RecursionProofs

\* Every object that a processBlock handler holds has its parent in `imported`.
Ready(blocks, imported) ==
  /\ blocks \in Seq(PendingBlock)
  /\ \A i \in DOMAIN blocks :
       blocks[i].processings > 0 => parentRoot[blocks[i].root] \in imported

UnknownBlockInv == Ready(pending, forkChoice)

UnknownBlockSpec == UnknownBlockInit /\ [][UnknownBlockNext]_unknownBlockVars

\* Changing objects one by one, without starting a processing.
LEMMA UpdateReady ==
  ASSUME NEW imported, NEW blocks, Ready(blocks, imported), NEW updated,
         updated \in [DOMAIN blocks -> PendingBlock],
         \A i \in DOMAIN blocks :
           /\ updated[i].root = blocks[i].root
           /\ updated[i].processings > 0 =>
                \/ blocks[i].processings > 0
                \/ parentRoot[blocks[i].root] \in imported
  PROVE  Ready(updated, imported)
<1>1. blocks \in Seq(PendingBlock) /\ DOMAIN blocks = 1..Len(blocks) /\ Len(blocks) \in Nat
  BY DEF Ready
<1>2. updated \in Seq(PendingBlock) /\ DOMAIN updated = DOMAIN blocks
  BY <1>1, SeqDef
<1> QED BY <1>1, <1>2 DEF Ready

\* A new status keeps the rest of an object.
LEMMA StatusOnly ==
  ASSUME NEW block \in PendingBlock,
         NEW status \in {"pending", "fetching", "processing"}
  PROVE  LET changed == WithStatus(block, status)
         IN  /\ changed \in PendingBlock /\ changed.root = block.root
             /\ changed.fetches = block.fetches
             /\ changed.processings = block.processings
BY DEF WithStatus, PendingBlock

\* What handlers do to an object keeps its type and its root, and only the
\* start of a processing adds one.
LEMMA ObjectSteps ==
  ASSUME NEW block \in PendingBlock
  PROVE  /\ block.root \in Root
         /\ StartFetch(block) \in PendingBlock
         /\ StartFetch(block).root = block.root
         /\ StartFetch(block).processings = block.processings
         /\ StartProcessing(block) \in PendingBlock
         /\ StartProcessing(block).root = block.root
         /\ block.fetches > 0 => FetchEnded(block) \in PendingBlock
         /\ FetchEnded(block).root = block.root
         /\ FetchEnded(block).processings = block.processings
         /\ block.processings > 0 => ProcessingEnded(block) \in PendingBlock
         /\ ProcessingEnded(block).root = block.root
<1>1. \A b \in PendingBlock :
        /\ b.root \in Root
        /\ [b EXCEPT !.fetches = @ + 1] \in PendingBlock
        /\ [b EXCEPT !.fetches = @ + 1].root = b.root
        /\ [b EXCEPT !.fetches = @ + 1].processings = b.processings
        /\ [b EXCEPT !.processings = @ + 1] \in PendingBlock
        /\ [b EXCEPT !.processings = @ + 1].root = b.root
  BY DEF PendingBlock
<1>2. \A b \in PendingBlock :
        /\ b.fetches > 0 => [b EXCEPT !.fetches = @ - 1] \in PendingBlock
        /\ [b EXCEPT !.fetches = @ - 1].root = b.root
        /\ [b EXCEPT !.fetches = @ - 1].processings = b.processings
        /\ b.processings > 0 => [b EXCEPT !.processings = @ - 1] \in PendingBlock
        /\ [b EXCEPT !.processings = @ - 1].root = b.root
  BY DEF PendingBlock
<1>3. PICK f \in PendingBlock : /\ f = WithStatus(block, "fetching")
                               /\ f.root = block.root /\ f.processings = block.processings
  BY StatusOnly
<1>4. PICK p \in PendingBlock : /\ p = WithStatus(block, "processing")
                               /\ p.root = block.root
  BY StatusOnly
<1>5. PICK e \in PendingBlock : /\ e = WithStatus(block, "pending")
                               /\ e.root = block.root /\ e.fetches = block.fetches
                               /\ e.processings = block.processings
  BY StatusOnly
<1>6. /\ StartFetch(block) = [f EXCEPT !.fetches = @ + 1]
      /\ StartProcessing(block) = [p EXCEPT !.processings = @ + 1]
      /\ FetchEnded(block) = [e EXCEPT !.fetches = @ - 1]
      /\ ProcessingEnded(block) = [e EXCEPT !.processings = @ - 1]
  BY <1>3, <1>4, <1>5 DEF StartFetch, StartProcessing, FetchEnded, ProcessingEnded
<1>7. /\ block.root \in Root
      /\ StartFetch(block) \in PendingBlock
      /\ StartFetch(block).root = block.root
      /\ StartFetch(block).processings = block.processings
  BY <1>1, <1>3, <1>6
<1>8. /\ StartProcessing(block) \in PendingBlock
      /\ StartProcessing(block).root = block.root
  BY <1>1, <1>4, <1>6
<1>9. /\ block.fetches > 0 => FetchEnded(block) \in PendingBlock
      /\ FetchEnded(block).root = block.root
      /\ FetchEnded(block).processings = block.processings
  BY <1>2, <1>5, <1>6
<1>10. /\ block.processings > 0 => ProcessingEnded(block) \in PendingBlock
       /\ ProcessingEnded(block).root = block.root
  BY <1>2, <1>5, <1>6
<1> QED BY <1>7, <1>8, <1>9, <1>10

\* Nor do objects that go.
LEMMA HeldReady ==
  ASSUME NEW imported, NEW blocks, Ready(blocks, imported)
  PROVE  Ready(Held(blocks), imported)
<1> DEFINE held == Held(blocks)
           indices == {i \in DOMAIN blocks : IsHeld(blocks[i])}
<1>1. blocks \in Seq(PendingBlock) /\ DOMAIN blocks = 1..Len(blocks)
  BY DEF Ready
<1>2. /\ held \in Seq(PendingBlock)
      /\ \E at \in [1..Len(held) -> 1..Len(blocks)] :
           \A j \in 1..Len(held) : held[j] = blocks[at[j]]
  <2>1. held = Selection(blocks, indices)
    BY DEF Held
  <2> HIDE DEF held, indices
  <2>2. held \in Seq(PendingBlock) /\ IsSelection(held, blocks, Len(blocks), indices)
    BY <1>1, <2>1, SelectionSelects
  <2> QED BY <2>2 DEF IsSelection
<1>3. DOMAIN held = 1..Len(held)
  BY <1>2
<1> HIDE DEF held
<1>4. Ready(held, imported)
  BY <1>1, <1>2, <1>3 DEF Ready
<1> QED BY <1>4 DEF held

\* So a step that sets the blocks to ready ones, without those that are gone,
\* keeps the invariant.
LEMMA BecomesReady ==
  ASSUME NEW blocks, Ready(blocks, forkChoice'), PendingBecomes(blocks)
  PROVE  UnknownBlockInv'
<1>1. pending' = Held(blocks)
  BY DEF PendingBecomes
<1>2. Ready(Held(blocks), forkChoice')
  BY HeldReady
<1> QED BY <1>1, <1>2 DEF UnknownBlockInv

\* Delete takes objects out of the map, whatever the roots.
LEMMA DeleteReady ==
  ASSUME NEW imported, NEW blocks, Ready(blocks, imported), NEW roots
  PROVE  Ready(Delete(blocks, roots), imported)
<1> DEFINE updated == Delete(blocks, roots)
<1>1. \A i \in DOMAIN blocks : blocks[i] \in PendingBlock
  BY DEF Ready
<1>2. \A i \in DOMAIN blocks :
        /\ updated[i] \in PendingBlock
        /\ updated[i].root = blocks[i].root
        /\ updated[i].processings = blocks[i].processings
  BY <1>1 DEF Delete, PendingBlock
<1>3. updated \in [DOMAIN blocks -> PendingBlock]
  BY <1>2 DEF Delete
<1> QED BY <1>2, <1>3, UpdateReady

\* A block that is added is not processed yet; pruning takes one out.
LEMMA AddReady ==
  ASSUME NEW imported, NEW blocks, Ready(blocks, imported), NEW root \in Root
  PROVE  Ready(AddToPendingBlocks(blocks, root), imported)
<1> DEFINE new == [root |-> root, inMap |-> TRUE, status |-> "pending",
                   downloadAttempts |-> 0, fetches |-> 0, processings |-> 0]
           added == IF IsIn(blocks, root) THEN blocks ELSE Append(blocks, new)
<1>1. new \in PendingBlock /\ new.processings = 0
  BY DEF PendingBlock
<1>2. blocks \in Seq(PendingBlock) /\ Len(blocks) \in Nat /\ DOMAIN blocks = 1..Len(blocks)
  BY DEF Ready
<1>3. Ready(Append(blocks, new), imported)
  <2> HIDE DEF new
  <2>1. /\ Append(blocks, new) \in Seq(PendingBlock)
        /\ DOMAIN Append(blocks, new) = 1..(Len(blocks) + 1)
        /\ \A i \in 1..Len(blocks) : Append(blocks, new)[i] = blocks[i]
        /\ Append(blocks, new)[Len(blocks) + 1] = new
    BY <1>1, <1>2, AppendProperties
  <2>2. \A i \in 1..(Len(blocks) + 1) : i \in 1..Len(blocks) \/ i = Len(blocks) + 1
    BY <1>2
  <2> QED BY <1>1, <1>2, <2>1, <2>2 DEF Ready
<1>4. Ready(added, imported)
  BY <1>3
<1> HIDE DEF added
<1>5. Ready(PruneSetToMax(added), imported)
  BY <1>4, DeleteReady DEF PruneSetToMax
<1> QED BY <1>5 DEF AddToPendingBlocks, added, new

\* A search starts fetches only.
LEMMA SearchReady ==
  ASSUME NEW imported, NEW blocks, Ready(blocks, imported)
  PROVE  /\ Ready(Search(blocks), imported)
         /\ Ready(TriggerUnknownBlockSearch(blocks), imported)
<1>1. \A i \in DOMAIN blocks : blocks[i] \in PendingBlock
  BY DEF Ready
<1>2. \A i \in DOMAIN blocks :
        /\ Search(blocks)[i] \in PendingBlock
        /\ Search(blocks)[i].root = blocks[i].root
        /\ Search(blocks)[i].processings = blocks[i].processings
  BY <1>1, ObjectSteps DEF Search
<1>3. Search(blocks) \in [DOMAIN blocks -> PendingBlock]
  BY <1>2 DEF Search
<1>4. Ready(Search(blocks), imported)
  BY <1>2, <1>3, UpdateReady
<1> QED BY <1>4 DEF TriggerUnknownBlockSearch

\* processBlock is called for blocks with an imported parent.
LEMMA ProcessBlocksReady ==
  ASSUME NEW imported, NEW blocks, Ready(blocks, imported),
         NEW roots, \A r \in roots : parentRoot[r] \in imported
  PROVE  Ready(ProcessBlocks(blocks, roots), imported)
<1> DEFINE updated == ProcessBlocks(blocks, roots)
<1>1. \A i \in DOMAIN blocks : blocks[i] \in PendingBlock
  BY DEF Ready
<1>2. \A i \in DOMAIN blocks :
        /\ updated[i] \in PendingBlock
        /\ updated[i].root = blocks[i].root
        /\ updated[i].processings > 0 =>
             \/ blocks[i].processings > 0
             \/ parentRoot[blocks[i].root] \in imported
  BY <1>1, ObjectSteps DEF ProcessBlocks
<1>3. updated \in [DOMAIN blocks -> PendingBlock]
  BY <1>2 DEF ProcessBlocks
<1> QED BY <1>2, <1>3, UpdateReady

\* The end of a fetch or of a processing.
LEMMA EndReady ==
  ASSUME UnknownBlockInv, NEW i \in DOMAIN pending
  PROVE  /\ pending[i].root \in Root
         /\ pending[i].fetches > 0 => Ready(EndFetch(i), forkChoice)
         /\ pending[i].processings > 0 => Ready(EndProcessing(i), forkChoice)
<1>1. \A j \in DOMAIN pending : pending[j] \in PendingBlock
  BY DEF UnknownBlockInv, Ready
<1>2. ASSUME pending[i].fetches > 0 PROVE Ready(EndFetch(i), forkChoice)
  <2>1. \A j \in DOMAIN pending :
          /\ EndFetch(i)[j] \in PendingBlock
          /\ EndFetch(i)[j].root = pending[j].root
          /\ EndFetch(i)[j].processings = pending[j].processings
    BY <1>1, <1>2, ObjectSteps DEF EndFetch
  <2>2. EndFetch(i) \in [DOMAIN pending -> PendingBlock]
    BY <2>1 DEF EndFetch
  <2> QED BY <2>1, <2>2, UpdateReady DEF UnknownBlockInv
<1>3. ASSUME pending[i].processings > 0 PROVE Ready(EndProcessing(i), forkChoice)
  <2>1. \A j \in DOMAIN pending :
          /\ EndProcessing(i)[j] \in PendingBlock
          /\ EndProcessing(i)[j].root = pending[j].root
          /\ EndProcessing(i)[j].processings > 0 => pending[j].processings > 0
    BY <1>1, <1>3, ObjectSteps DEF EndProcessing
  <2>2. EndProcessing(i) \in [DOMAIN pending -> PendingBlock]
    BY <2>1 DEF EndProcessing
  <2> QED BY <2>1, <2>2, UpdateReady DEF UnknownBlockInv
<1> QED BY <1>1, <1>2, <1>3 DEF PendingBlock

\* The fork choice only grows.
LEMMA MoreImported ==
  ASSUME NEW imported, NEW more, imported \subseteq more,
         NEW blocks, Ready(blocks, imported)
  PROVE  Ready(blocks, more)
BY DEF Ready

\* A fetched block is processed only when its parent was looked up.
LEMMA FetchSucceedsReady ==
  ASSUME UnknownBlockInv, NEW i \in DOMAIN pending, FetchSucceeds(i)
  PROVE  UnknownBlockInv'
<1> DEFINE parent == parentRoot[pending[i].root]
           added == AddToPendingBlocks(EndFetch(i), parent)
<1>1. pending[i].root \in Root /\ Ready(EndFetch(i), forkChoice)
  BY EndReady DEF FetchSucceeds
<1>2. parent \in Root
  BY <1>1, UnknownBlockAssumption DEF FetchSucceeds
<1>3. Ready(added, forkChoice)
  BY <1>1, <1>2, AddReady
<1>4. Ready(Fetched(EndFetch(i), parent), forkChoice)
  <2>1. Ready(TriggerUnknownBlockSearch(added), forkChoice)
    BY <1>3, SearchReady
  <2>2. ParentIsImported(parent) => Ready(ProcessBlocks(added, {parent}), forkChoice)
    BY <1>3, ProcessBlocksReady DEF ParentIsImported
  <2> QED BY <2>1, <2>2 DEF Fetched
<1> QED BY <1>4, BecomesReady DEF FetchSucceeds

\* A fetch that fails counts an attempt or gives the block up.
LEMMA FetchFailsReady ==
  ASSUME UnknownBlockInv, NEW i \in DOMAIN pending, FetchFails(i)
  PROVE  UnknownBlockInv'
<1> DEFINE ended == [EndFetch(i) EXCEPT ![i].downloadAttempts = @ + 1]
<1>1. Ready(EndFetch(i), forkChoice) /\ DOMAIN EndFetch(i) = DOMAIN pending
  BY EndReady DEF FetchFails, EndFetch
<1>2. Ready(ended, forkChoice)
  <2>1. \A j \in DOMAIN pending : EndFetch(i)[j] \in PendingBlock
    BY <1>1 DEF Ready
  <2>2. \A j \in DOMAIN pending :
          /\ ended[j] \in PendingBlock
          /\ ended[j].root = EndFetch(i)[j].root
          /\ ended[j].processings = EndFetch(i)[j].processings
    BY <1>1, <2>1 DEF PendingBlock
  <2>3. ended \in [DOMAIN pending -> PendingBlock]
    BY <1>1, <2>2
  <2> HIDE DEF ended
  <2> QED BY <1>1, <2>2, <2>3, UpdateReady
<1> HIDE DEF ended
<1>3. Ready(RemoveAllDescendants(ended, pending[i].root), forkChoice)
  BY <1>2, DeleteReady DEF RemoveAllDescendants
<1>4. forkChoice' = forkChoice
  BY DEF FetchFails
<1>5. PICK blocks \in {ended, RemoveAllDescendants(ended, pending[i].root)} :
        PendingBecomes(blocks)
  BY DEF FetchFails, ended
<1> QED BY <1>2, <1>3, <1>4, <1>5, BecomesReady

\* The children of an imported block are processed after it.
LEMMA ProcessSucceedsReady ==
  ASSUME UnknownBlockInv, NEW i \in DOMAIN pending, ProcessSucceeds(i)
  PROVE  UnknownBlockInv'
<1> DEFINE root == pending[i].root
           left == Delete(EndProcessing(i), {root})
<1>1. Ready(EndProcessing(i), forkChoice)
  BY EndReady DEF ProcessSucceeds
<1>2. Ready(left, forkChoice)
  BY <1>1, DeleteReady
<1>3. /\ forkChoice' = forkChoice \union {root}
      /\ PendingBecomes(ProcessChildren(left, root))
  BY DEF ProcessSucceeds
<1> HIDE DEF left, root
<1>4. Ready(left, forkChoice')
  BY <1>2, <1>3, MoreImported
<1>5. Ready(ProcessChildren(left, root), forkChoice')
  BY <1>3, <1>4, ProcessBlocksReady DEF ProcessChildren
<1> QED BY <1>3, <1>5, BecomesReady

\* A refused block goes with its descendants, or waits to be tried again.
LEMMA ProcessEndsOtherwiseReady ==
  ASSUME UnknownBlockInv, NEW i \in DOMAIN pending,
         ProcessRefused(i) \/ ProcessEngineError(i) \/ ProcessFails(i)
  PROVE  UnknownBlockInv'
<1>1. Ready(EndProcessing(i), forkChoice)
  BY EndReady DEF ProcessRefused, ProcessEngineError, ProcessFails
<1>2. Ready(RemoveAllDescendants(EndProcessing(i), pending[i].root), forkChoice)
  BY <1>1, DeleteReady DEF RemoveAllDescendants
<1>3. forkChoice' = forkChoice
  BY DEF ProcessRefused, ProcessEngineError, ProcessFails
<1>4. PICK blocks \in {EndProcessing(i),
                      RemoveAllDescendants(EndProcessing(i), pending[i].root)} :
        PendingBecomes(blocks)
  BY DEF ProcessRefused, ProcessEngineError, ProcessFails
<1> QED BY <1>1, <1>2, <1>3, <1>4, BecomesReady

\* Every step keeps the invariant.
LEMMA UnknownBlockStep ==
  ASSUME UnknownBlockInv, [UnknownBlockNext]_unknownBlockVars
  PROVE  UnknownBlockInv'
<1>1. ASSUME NEW root \in Root, OnUnknownBlock(root) PROVE UnknownBlockInv'
  <2>1. Ready(TriggerUnknownBlockSearch(AddToPendingBlocks(pending, root)), forkChoice)
    BY AddReady, SearchReady DEF UnknownBlockInv
  <2> QED BY <1>1, <2>1, BecomesReady DEF OnUnknownBlock
<1>2. CASE PeerConnected
  BY <1>2, SearchReady DEF PeerConnected, UnknownBlockInv
<1>3. CASE PeersLost
  BY <1>3 DEF PeersLost, UnknownBlockInv
<1>4. ASSUME NEW root \in Root, ImportElsewhere(root) PROVE UnknownBlockInv'
  <2>1. forkChoice \subseteq forkChoice' /\ pending' = pending
    BY <1>4 DEF ImportElsewhere
  <2> QED BY <2>1, MoreImported DEF UnknownBlockInv
<1>5. ASSUME NEW root \in Root, FetchEnds(root) PROVE UnknownBlockInv'
  BY <1>5, FetchSucceedsReady, FetchFailsReady DEF FetchEnds
<1>6. ASSUME NEW root \in Root, ProcessEnds(root) PROVE UnknownBlockInv'
  BY <1>6, ProcessSucceedsReady, ProcessEndsOtherwiseReady DEF ProcessEnds
<1>7. CASE UNCHANGED unknownBlockVars
  BY <1>7 DEF unknownBlockVars, UnknownBlockInv
<1> QED BY <1>1, <1>2, <1>3, <1>4, <1>5, <1>6, <1>7 DEF UnknownBlockNext

\* In every state, every handler that imports a block has its parent imported.
THEOREM ParentsAreImported == UnknownBlockSpec => []ParentsComeFirst
<1>1. UnknownBlockInit => UnknownBlockInv
  BY DEF UnknownBlockInit, UnknownBlockInv, Ready
<1>2. UnknownBlockInv /\ [UnknownBlockNext]_unknownBlockVars => UnknownBlockInv'
  BY UnknownBlockStep
<1>3. UnknownBlockInv => ParentsComeFirst
  BY DEF UnknownBlockInv, Ready, ParentsComeFirst
<1> QED BY <1>1, <1>2, <1>3, PTL DEF UnknownBlockSpec

=============================================================================
