----------------------------- MODULE ProtoArray -----------------------------
(***************************************************************************)
(* The block DAG of the fork choice: an array of nodes, children after     *)
(* their parents, each with its weight and a link to its best child and    *)
(* its best descendant.  The operators take the array and return the       *)
(* changed one.  Positions start at 1, 0 stands for `undefined`.           *)
(***************************************************************************)
EXTENDS Integers, Sequences, SequencesExt

CONSTANTS
  Block,           \* blocks, named by their roots; roots are ordered
  slotOf,          \* [Block -> Nat]
  parentOf,        \* [Block -> Block], the anchor is its own parent
  justifiedOf,     \* the justified checkpoint of the post state
  finalizedOf,     \* the finalized checkpoint of the post state
  Validator,
  ZERO_HASH        \* not the root of a block

Checkpoint == [epoch : Nat, root : Block \union {ZERO_HASH}]

ASSUME ProtoArrayAssumption ==
  /\ Block \subseteq Nat \ {0}
  /\ slotOf \in [Block -> Nat]
  /\ parentOf \in [Block -> Block]
  /\ justifiedOf \in [Block -> Checkpoint]
  /\ finalizedOf \in [Block -> Checkpoint]
  /\ ZERO_HASH = 0
  /\ \A b \in Block : parentOf[b] # b => slotOf[parentOf[b]] < slotOf[b]

Undefined == 0

\* No proposer boost.
NoBoost == [root |-> ZERO_HASH, score |-> 0]

-----------------------------------------------------------------------------
(* Lookups *)

Known(pa) == DOMAIN pa.indices

\* The positions from i back to the oldest node, i first.
PathFrom(pa, i) ==
  LET path[j \in DOMAIN pa.nodes] ==
        IF pa.nodes[j].parent = Undefined THEN <<j>>
        ELSE <<j>> \o path[pa.nodes[j].parent]
  IN  path[i]

\* iterateAncestorNodes, with the node itself.
PathOfRoots(pa, root) ==
  LET path == PathFrom(pa, pa.indices[root])
  IN  [k \in DOMAIN path |-> pa.nodes[path[k]].root]

IsDescendant(pa, ancestor, root) ==
  {ancestor, root} \subseteq Known(pa) /\ ancestor \in ToSet(PathOfRoots(pa, root))

\* getAncestor; ZERO_HASH where the code throws.
Ancestor(pa, root, slot) ==
  IF root \notin Known(pa) THEN ZERO_HASH
  ELSE LET older == SelectSeq(PathOfRoots(pa, root),
                              LAMBDA r : slotOf[r] <= slot)
       IN  IF older = <<>> THEN ZERO_HASH ELSE Head(older)

-----------------------------------------------------------------------------
(* Best children *)

NodeIsViableForHead(pa, i) ==
  LET b == pa.nodes[i].root
  IN  /\ pa.justified.epoch = 0 \/ justifiedOf[b] = pa.justified
      /\ pa.finalized.epoch = 0 \/ finalizedOf[b] = pa.finalized

NodeLeadsToViableHead(pa, i) ==
  \/ NodeIsViableForHead(pa, i)
  \/ /\ pa.nodes[i].bestDescendant # Undefined
     /\ NodeIsViableForHead(pa, pa.nodes[i].bestDescendant)

\* Heavier, or as heavy and of the larger root.
Outweighs(node, other) ==
  \/ node.weight > other.weight
  \/ node.weight = other.weight /\ node.root >= other.root

\* Whether a child that is not the best child takes its place.
TakesOver(pa, child, best) ==
  IF NodeLeadsToViableHead(pa, child) # NodeLeadsToViableHead(pa, best)
    THEN NodeLeadsToViableHead(pa, child)
    ELSE Outweighs(pa.nodes[child], pa.nodes[best])

MaybeUpdateBestChildAndDescendant(pa, parent, child) ==
  LET best == pa.nodes[parent].bestChild
      descendant == IF pa.nodes[child].bestDescendant # Undefined
                      THEN pa.nodes[child].bestDescendant ELSE child
      becomes == IF best \in {Undefined, child}
                   THEN NodeLeadsToViableHead(pa, child)
                   ELSE TakesOver(pa, child, best)
      link(c, d) == [pa EXCEPT !.nodes[parent].bestChild = c,
                               !.nodes[parent].bestDescendant = d]
  IN  CASE becomes -> link(child, descendant)
        [] ~becomes /\ best = child -> link(Undefined, Undefined)
        [] OTHER -> pa

\* The same, for a node that may have no parent.
UpdateParentOf(pa, i) ==
  IF pa.nodes[i].parent = Undefined THEN pa
  ELSE MaybeUpdateBestChildAndDescendant(pa, pa.nodes[i].parent, i)

-----------------------------------------------------------------------------
(* Changes *)

EmptyArray(justified, finalized) ==
  [nodes |-> <<>>, indices |-> <<>>, justified |-> justified,
   finalized |-> finalized, previousBoost |-> NoBoost]

\* onBlock: append the block, then look at its ancestors from it upwards.
AddNode(pa, b) ==
  LET i == Len(pa.nodes) + 1
      node == [root |-> b, weight |-> 0, bestChild |-> Undefined,
               bestDescendant |-> Undefined,
               parent |-> IF parentOf[b] \in Known(pa)
                            THEN pa.indices[parentOf[b]] ELSE Undefined]
      added == [pa EXCEPT !.nodes = Append(@, node),
                          !.indices = [r \in DOMAIN @ \union {b} |->
                                         IF r = b THEN i ELSE @[r]]]
  IN  IF b \in Known(pa) THEN pa
      ELSE FoldLeft(UpdateParentOf, added, PathFrom(added, i))

BoostAt(boost, root) == IF boost.root = root THEN boost.score ELSE 0

\* Variation: the boost of the previous slot is never taken back.
AddWeightKeepingBoost(boost, previous, i, acc) ==
  LET node == acc.nodes[i]
      delta == acc.deltas[i] + BoostAt(boost, node.root)
  IN  [nodes |-> [acc.nodes EXCEPT ![i].weight = @ + delta],
       deltas |-> IF node.parent = Undefined THEN acc.deltas
                  ELSE [acc.deltas EXCEPT ![node.parent] = @ + delta]]

\* The first loop of applyScoreChanges: weights, from the children up.
AddWeight(boost, previous, i, acc) ==
  LET node == acc.nodes[i]
      delta == acc.deltas[i] + BoostAt(boost, node.root)
                             - BoostAt(previous, node.root)
  IN  [nodes |-> [acc.nodes EXCEPT ![i].weight = @ + delta],
       deltas |-> IF node.parent = Undefined THEN acc.deltas
                  ELSE [acc.deltas EXCEPT ![node.parent] = @ + delta]]

ApplyScoreChanges(pa, deltas, boost, justified, finalized) ==
  LET weighed == FoldRightDomain(
                   LAMBDA i, acc : AddWeight(boost, pa.previousBoost, i, acc),
                   pa.nodes, [nodes |-> pa.nodes, deltas |-> deltas])
      before == [pa EXCEPT !.nodes = weighed.nodes, !.justified = justified,
                           !.finalized = finalized]
      after == FoldRightDomain(LAMBDA i, acc : UpdateParentOf(acc, i),
                               pa.nodes, before)
  IN  [after EXCEPT !.previousBoost = boost]

\* findHead; ZERO_HASH where the code throws.
FindHead(pa, justifiedRoot) ==
  IF justifiedRoot \notin Known(pa) THEN ZERO_HASH
  ELSE LET i == pa.indices[justifiedRoot]
           best == pa.nodes[i].bestDescendant
       IN  CASE best = Undefined -> justifiedRoot
             [] best # Undefined /\ NodeIsViableForHead(pa, best) ->
                  pa.nodes[best].root
             [] OTHER -> ZERO_HASH

Shift(i, by) == IF i <= by THEN Undefined ELSE i - by

\* Variation: the index is not adjusted to the shorter array.
MaybePruneKeepingIndices(pa, root) ==
  LET dropped == pa.indices[root] - 1
      kept == SubSeq(pa.nodes, dropped + 1, Len(pa.nodes))
      moved(n) == [n EXCEPT !.parent = Shift(@, dropped),
                            !.bestChild = Shift(@, dropped),
                            !.bestDescendant = Shift(@, dropped)]
  IN  [pa EXCEPT !.nodes = [i \in DOMAIN kept |-> moved(kept[i])]]

\* Variation: the finalized block is dropped with the blocks before it.
MaybePruneOneMore(pa, root) ==
  LET dropped == pa.indices[root]
      kept == SubSeq(pa.nodes, dropped + 1, Len(pa.nodes))
      moved(n) == [n EXCEPT !.parent = Shift(@, dropped),
                            !.bestChild = Shift(@, dropped),
                            !.bestDescendant = Shift(@, dropped)]
  IN  [pa EXCEPT
         !.nodes = [i \in DOMAIN kept |-> moved(kept[i])],
         !.indices = [r \in {s \in DOMAIN @ : @[s] > dropped} |-> @[r] - dropped]]

\* maybePrune, for a threshold of 0 and a root that is known.
MaybePrune(pa, root) ==
  LET dropped == pa.indices[root] - 1
      kept == SubSeq(pa.nodes, dropped + 1, Len(pa.nodes))
      moved(n) == [n EXCEPT !.parent = Shift(@, dropped),
                            !.bestChild = Shift(@, dropped),
                            !.bestDescendant = Shift(@, dropped)]
  IN  [pa EXCEPT
         !.nodes = [i \in DOMAIN kept |-> moved(kept[i])],
         !.indices = [r \in {s \in DOMAIN @ : @[s] > dropped} |-> @[r] - dropped]]

=============================================================================
