-------------------------- MODULE UnknownBlockSync --------------------------
(***************************************************************************)
(* UnknownBlockSync: blocks whose parent is unknown wait in pendingBlocks  *)
(* while the node fetches their ancestors one by one from its peers, and   *)
(* are imported from the oldest on.                                        *)
(*                                                                         *)
(* A PendingBlock is an object that the map and awaiting handlers share: a *)
(* block may be deleted from the map while its parent is fetched, and then *)
(* be added again as another object.  So `pending` holds the objects in    *)
(* the map in insertion order and those that only a handler still holds.   *)
(* knownBadBlocks and the reports of peers are left out: this class never  *)
(* reads them.                                                             *)
(***************************************************************************)
EXTENDS Integers, FiniteSetsExt, Selection

CONSTANTS
  Root,            \* the roots of blocks
  parentRoot,      \* [Root -> Root \cup {NoRoot}]
  NoRoot,          \* the parent of the oldest block: no peer has it
  anchorRoots,     \* the blocks that the fork choice has at start
  invalidRoots,    \* blocks that the state transition refuses
  MAX_ATTEMPTS_PER_BLOCK, MAX_PENDING_BLOCKS,
  MaxEvents,       \* bound: gossip of a block with an unknown parent
  MaxErrors,       \* bound: errors that are not the block's fault
  MaxRunning       \* bound: handlers of one object that await at a time

ASSUME UnknownBlockAssumption ==
  /\ NoRoot \notin Root
  /\ parentRoot \in [Root -> Root \union {NoRoot}]
  /\ anchorRoots \subseteq Root /\ invalidRoots \subseteq Root \ anchorRoots
  /\ MAX_ATTEMPTS_PER_BLOCK \in Nat /\ MAX_PENDING_BLOCKS \in Nat \ {0}
  /\ MaxEvents \in Nat /\ MaxErrors \in Nat /\ MaxRunning \in Nat

VARIABLES
  pending,         \* PendingBlock objects
  forkChoice,      \* the roots that forkChoice.hasBlock knows
  peersConnected,  \* does getConnectedPeers() return any peer?
  events, errors   \* of MaxEvents and MaxErrors

unknownBlockVars == <<pending, forkChoice, peersConnected, events, errors>>

PendingBlock ==
  [root : Root, inMap : BOOLEAN, status : {"pending", "fetching", "processing"},
   downloadAttempts : Nat,
   fetches : Nat, processings : Nat]   \* handlers that await, by what they await

-----------------------------------------------------------------------------
(* pendingBlocks, a Map from roots *)

IsIn(blocks, root) ==
  \E i \in DOMAIN blocks : blocks[i].inMap /\ blocks[i].root = root

IsHeld(block) == block.inMap \/ block.fetches > 0 \/ block.processings > 0

\* Objects that nothing refers to any more are gone.
Held(blocks) == Selection(blocks, {i \in DOMAIN blocks : IsHeld(blocks[i])})

\* (The quantifier makes TLC evaluate the blocks once.)
PendingBecomes(blocks) == \E b \in {blocks} : pending' = Held(b)

Delete(blocks, roots) ==
  [i \in DOMAIN blocks |->
     IF blocks[i].root \in roots THEN [blocks[i] EXCEPT !.inMap = FALSE]
     ELSE blocks[i]]

\* One block is added at a time, so at most the first one has to go.
PruneSetToMax(blocks) ==
  LET inMap == {i \in DOMAIN blocks : blocks[i].inMap}
  IN  IF Cardinality(inMap) <= MAX_PENDING_BLOCKS THEN blocks
      ELSE Delete(blocks, {blocks[Min(inMap)].root})

AddToPendingBlocks(blocks, root) ==
  PruneSetToMax(
    IF IsIn(blocks, root) THEN blocks
    ELSE Append(blocks, [root |-> root, inMap |-> TRUE, status |-> "pending",
                         downloadAttempts |-> 0, fetches |-> 0, processings |-> 0]))

AncestorsOf[root \in Root] ==
  IF parentRoot[root] = NoRoot THEN {}
  ELSE {parentRoot[root]} \union AncestorsOf[parentRoot[root]]

\* getAllDescendantBlocks: links to the root through parents in the map.
DescendsFrom(blocks, r, root) ==
  /\ root \in AncestorsOf[r]
  /\ \A a \in AncestorsOf[r] \union {r} :
       root \in AncestorsOf[a] => IsIn(blocks, a)

RemoveAllDescendants(blocks, root) ==
  Delete(blocks, {root} \union {r \in Root : DescendsFrom(blocks, r, root)})

-----------------------------------------------------------------------------
(* Handlers up to their await *)

\* The handlers of an object share its status.
WithStatus(block, status) == [block EXCEPT !.status = status]

StartFetch(block) == [WithStatus(block, "fetching") EXCEPT !.fetches = @ + 1]

StartProcessing(block) == [WithStatus(block, "processing") EXCEPT !.processings = @ + 1]

FetchEnded(block) == [WithStatus(block, "pending") EXCEPT !.fetches = @ - 1]

ProcessingEnded(block) == [WithStatus(block, "pending") EXCEPT !.processings = @ - 1]

\* triggerUnknownBlockSearch, with some peer connected: every pending block
\* that has no parent in the map fetches it.
Search(blocks) ==
  [i \in DOMAIN blocks |->
     IF /\ blocks[i].inMap /\ blocks[i].status = "pending"
        /\ ~IsIn(blocks, parentRoot[blocks[i].root])
     THEN StartFetch(blocks[i])
     ELSE blocks[i]]

TriggerUnknownBlockSearch(blocks) ==
  IF peersConnected THEN Search(blocks) ELSE blocks

\* processBlock of the blocks in the map that have one of the roots.
ProcessBlocks(blocks, roots) ==
  [i \in DOMAIN blocks |->
     IF blocks[i].inMap /\ blocks[i].root \in roots /\ blocks[i].status # "processing"
     THEN StartProcessing(blocks[i])
     ELSE blocks[i]]

\* Every handler goes back to pending when its await ends, whatever else the
\* block is doing.
EndFetch(i) == [pending EXCEPT ![i] = FetchEnded(@)]

EndProcessing(i) == [pending EXCEPT ![i] = ProcessingEnded(@)]

-----------------------------------------------------------------------------
(* What happens *)

WithinBounds ==
  \A i \in DOMAIN pending' :
    pending'[i].fetches + pending'[i].processings <= MaxRunning

UnknownBlockInit ==
  /\ pending = <<>>
  /\ forkChoice = anchorRoots
  /\ peersConnected = TRUE
  /\ events = 0
  /\ errors = 0

\* onUnknownBlock, from gossip.
OnUnknownBlock(root) ==
  /\ events < MaxEvents
  /\ root \notin forkChoice /\ parentRoot[root] \notin forkChoice
  /\ PendingBecomes(TriggerUnknownBlockSearch(AddToPendingBlocks(pending, root)))
  /\ WithinBounds
  /\ events' = events + 1
  /\ UNCHANGED <<forkChoice, peersConnected, errors>>

PeerConnected ==
  /\ peersConnected' = TRUE
  /\ pending' = Search(pending)
  /\ WithinBounds
  /\ UNCHANGED <<forkChoice, events, errors>>

PeersLost ==
  /\ errors < MaxErrors
  /\ peersConnected
  /\ peersConnected' = FALSE
  /\ errors' = errors + 1
  /\ UNCHANGED <<pending, forkChoice, events>>

\* Gossip or range sync import a block.
ImportElsewhere(root) ==
  /\ root \notin forkChoice \union invalidRoots
  /\ parentRoot[root] \in forkChoice
  /\ forkChoice' = forkChoice \union {root}
  /\ UNCHANGED <<pending, peersConnected, events, errors>>

\* Variation: the parent of the fetched block is not looked up.
ParentIsImportedUnchecked(root) == TRUE

ParentIsImported(root) == parentRoot[root] \in forkChoice

\* A fetched block is processed when its parent is known and waits otherwise.
Fetched(blocks, root) ==
  LET added == AddToPendingBlocks(blocks, root)
  IN  IF ParentIsImported(root) THEN ProcessBlocks(added, {root})
      ELSE TriggerUnknownBlockSearch(added)

\* downloadParentBlock, after fetchUnknownBlockRoot returned the parent.
FetchSucceeds(i) ==
  LET parent == parentRoot[pending[i].root]
  IN  /\ pending[i].fetches > 0
      /\ parent # NoRoot
      /\ PendingBecomes(Fetched(EndFetch(i), parent))
      /\ WithinBounds
      /\ UNCHANGED <<forkChoice, peersConnected, events, errors>>

\* downloadParentBlock, after no peer sent the parent.
FetchFails(i) ==
  LET ended == [EndFetch(i) EXCEPT ![i].downloadAttempts = @ + 1]
  IN  /\ pending[i].fetches > 0
      /\ PendingBecomes(IF ended[i].downloadAttempts > MAX_ATTEMPTS_PER_BLOCK
                        THEN RemoveAllDescendants(ended, pending[i].root) ELSE ended)
      /\ UNCHANGED <<forkChoice, peersConnected, events, errors>>

\* Variation: the children of the imported block are left alone.
ChildrenWait(blocks, root) == blocks

ProcessChildren(blocks, root) ==
  ProcessBlocks(blocks, {r \in Root : parentRoot[r] = root})

\* processBlock, imported or already known (ignoreIfKnown).
ProcessSucceeds(i) ==
  LET root == pending[i].root
  IN  /\ pending[i].processings > 0
      /\ root \notin invalidRoots
      /\ root \in forkChoice \/ parentRoot[root] \in forkChoice
      /\ forkChoice' = forkChoice \union {root}
      /\ PendingBecomes(ProcessChildren(Delete(EndProcessing(i), {root}), root))
      /\ WithinBounds
      /\ UNCHANGED <<peersConnected, events, errors>>

\* processBlock, the block is invalid.
ProcessRefused(i) ==
  /\ pending[i].processings > 0
  /\ pending[i].root \in invalidRoots
  /\ PendingBecomes(RemoveAllDescendants(EndProcessing(i), pending[i].root))
  /\ UNCHANGED <<forkChoice, peersConnected, events, errors>>

\* processBlock, EXECUTION_ENGINE_ERROR.
ProcessEngineError(i) ==
  /\ errors < MaxErrors
  /\ pending[i].processings > 0
  /\ pending[i].root \notin forkChoice
  /\ PendingBecomes(RemoveAllDescendants(EndProcessing(i), pending[i].root))
  /\ errors' = errors + 1
  /\ UNCHANGED <<forkChoice, peersConnected, events>>

\* processBlock, PRESTATE_MISSING or an error of the queue: to be tried again.
\* (PARENT_UNKNOWN has the same effect; ParentsComeFirst says it never comes.)
ProcessFails(i) ==
  /\ errors < MaxErrors
  /\ pending[i].processings > 0
  /\ PendingBecomes(EndProcessing(i))
  /\ errors' = errors + 1
  /\ UNCHANGED <<forkChoice, peersConnected, events>>

FetchEnds(root) ==
  \E i \in DOMAIN pending :
    /\ pending[i].root = root
    /\ FetchSucceeds(i) \/ FetchFails(i)

ProcessEnds(root) ==
  \E i \in DOMAIN pending :
    /\ pending[i].root = root
    /\ ProcessSucceeds(i) \/ ProcessRefused(i) \/ ProcessEngineError(i) \/ ProcessFails(i)

UnknownBlockNext ==
  \/ PeerConnected
  \/ PeersLost
  \/ \E root \in Root : OnUnknownBlock(root)
  \/ \E root \in Root : ImportElsewhere(root)
  \/ \E root \in Root : FetchEnds(root)
  \/ \E root \in Root : ProcessEnds(root)

-----------------------------------------------------------------------------
(* Properties *)

\* processBlock is only called for a block whose parent is imported, as "Should
\* no happen" says of PARENT_UNKNOWN: the fetched block is looked up, and
\* children follow an import, even of a block that was deleted meanwhile.
ParentsComeFirst ==
  \A i \in DOMAIN pending :
    pending[i].processings > 0 => parentRoot[pending[i].root] \in forkChoice

\* No block waits for ever: when blocks stop coming in and peers connect again
\* and again, every pending block is imported or given up.
EventuallyDrained == <>[](pending = <<>>)

=============================================================================
