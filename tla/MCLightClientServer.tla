------------------------ MODULE MCLightClientServer -------------------------
(***************************************************************************)
(* Small block trees with epochs of three slots and periods of four.  A    *)
(* post state finalizes an epoch at the earliest two epochs later.         *)
(* Committees are named by their period, `p2x` is the one of another       *)
(* branch.                                                                 *)
(***************************************************************************)
EXTENDS LightClientServer

Cp(epoch, root) == [epoch |-> epoch, root |-> root]

None == Cp(0, "zero")

MCCommittee == {"p0", "p1", "p2", "p2x"}

-----------------------------------------------------------------------------
(* Crossing, from g: c2 and x2 are the first blocks of period 1 after      *)
(* different blocks of period 0, so that their states have different next  *)
(* committees.  The states of c3 and c4 finalize c2, so that the archiver  *)
(* prunes x2 and, of the finalized chain, c1; c5's finalizes it as the     *)
(* checkpoint of the next epoch, which has no block of its own.            *)

CrossingSlot ==
  [g |-> 0, c0 |-> 9, c1 |-> 10, c2 |-> 12, x2 |-> 13, c3 |-> 18, c4 |-> 19,
   c5 |-> 21]

CrossingBlocks == DOMAIN CrossingSlot

CrossingParent ==
  [g |-> "g", c0 |-> "g", c1 |-> "c0", c2 |-> "c1", x2 |-> "c0", c3 |-> "c2",
   c4 |-> "c3", c5 |-> "c4"]

CrossingFinalized ==
  [b \in CrossingBlocks |->
     CASE b \in {"c3", "c4"} -> Cp(4, "c2")
       [] b = "c5" -> Cp(5, "c2")
       [] OTHER -> None]

CrossingBits ==
  [g |-> 0, c0 |-> 2, c1 |-> 2, c2 |-> 2, x2 |-> 2, c3 |-> 2, c4 |-> 3,
   c5 |-> 4]

CrossingCurrent ==
  [b \in CrossingBlocks |-> IF CrossingSlot[b] < 12 THEN "p0" ELSE "p1"]

CrossingNext ==
  [b \in CrossingBlocks |->
     CASE CrossingSlot[b] < 12 -> "p1" [] b = "x2" -> "p2x" [] OTHER -> "p2"]

-----------------------------------------------------------------------------
(* With faults.  From h, over the border of a period.  From i: f4's state  *)
(* finalizes f3, and f2 is pruned.                                         *)

FaultSlot ==
  [h |-> 0, e1 |-> 10, e2 |-> 12, e3 |-> 14,
   i |-> 0, f1 |-> 1, f2 |-> 2, f3 |-> 3, f4 |-> 9, f5 |-> 10]

FaultBlocks == DOMAIN FaultSlot

FaultParent ==
  [h |-> "h", e1 |-> "h", e2 |-> "e1", e3 |-> "e2",
   i |-> "i", f1 |-> "i", f2 |-> "f1", f3 |-> "f2", f4 |-> "f3", f5 |-> "f4"]

FaultFinalized ==
  [b \in FaultBlocks |-> IF b \in {"f4", "f5"} THEN Cp(1, "f3") ELSE None]

FaultBits == [b \in FaultBlocks |-> IF b = "f5" THEN 3 ELSE 2]

FaultCurrent == [b \in FaultBlocks |-> IF FaultSlot[b] < 12 THEN "p0" ELSE "p1"]

FaultNext ==
  [b \in FaultBlocks |-> IF FaultSlot[b] < 12 THEN "p1" ELSE "p2"]

-----------------------------------------------------------------------------
(* All three.                                                              *)

ForestSlot == CrossingSlot @@ FaultSlot

ForestBlocks == DOMAIN ForestSlot

ForestParent == CrossingParent @@ FaultParent

ForestFinalized == CrossingFinalized @@ FaultFinalized

ForestBits == CrossingBits @@ FaultBits

ForestCurrent == CrossingCurrent @@ FaultCurrent

ForestNext == CrossingNext @@ FaultNext

ForestFaults == [g |-> 0, h |-> 2, i |-> 1]

NoFaults == [g |-> 0]

-----------------------------------------------------------------------------
(* Skipped: one branch; slot 6 has no block, c2 is the checkpoint of epoch 2. *)

SkippedSlot == [g |-> 0, c1 |-> 3, c2 |-> 5, c3 |-> 7, c4 |-> 9, c5 |-> 12]

SkippedBlocks == DOMAIN SkippedSlot

SkippedParent ==
  [g |-> "g", c1 |-> "g", c2 |-> "c1", c3 |-> "c2", c4 |-> "c3", c5 |-> "c4"]

SkippedFinalized ==
  [b \in SkippedBlocks |-> IF b = "c5" THEN Cp(2, "c2") ELSE None]

SkippedBits == [b \in SkippedBlocks |-> 3]

SkippedCurrent == [b \in SkippedBlocks |-> "p0"]

SkippedNext == [b \in SkippedBlocks |-> "p1"]

=============================================================================
