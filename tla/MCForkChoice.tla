---------------------------- MODULE MCForkChoice ----------------------------
(***************************************************************************)
(* A tree with epochs of two slots that no validator is slashable for.     *)
(*                                                                         *)
(*   slot   0    2    3    6    7    8    9    10   11                     *)
(*          1 -- 2 ------- 3            epoch 1 justified at 2             *)
(*          1 ------- 9 ------- 4 -- 5  epoch 2 justified at 9, by others  *)
(*                                   5 ------- 8 -- 10                     *)
(*                                   5 -- 6 -- 7                           *)
(*                                                                         *)
(* 4 justifies epoch 2 with the genesis as source.  8 and 7 justify epoch  *)
(* 4 with epoch 2 as source; the chain of 7 has late votes for epoch 3 in  *)
(* block 6, so that only 7 finalizes epoch 2.                              *)
(***************************************************************************)
EXTENDS ForkChoice

Cp(epoch, root) == [epoch |-> epoch, root |-> root]

MCBlock == 1..10

MCSlot == <<0, 2, 6, 7, 8, 9, 10, 10, 3, 11>>

MCParent == <<1, 1, 2, 9, 4, 5, 6, 5, 1, 8>>

MCJustified ==
  [b \in MCBlock |->
     CASE b = 1 -> Cp(0, 1)
       [] b = 3 -> Cp(1, 2)
       [] b \in {4, 5, 6} -> Cp(2, 9)
       [] b \in {7, 8, 10} -> Cp(4, 5)
       [] OTHER -> Cp(0, 0)]

MCFinalized ==
  [b \in MCBlock |->
     CASE b = 1 -> Cp(0, 1) [] b = 7 -> Cp(2, 9) [] OTHER -> Cp(0, 0)]

Vote(slot, target, root, indices) ==
  [slot |-> slot, targetEpoch |-> slot \div 2, targetRoot |-> target,
   root |-> root, indices |-> indices]

\* Block 5 carries a vote for 4, block 6 one for 5.
MCAttestationsOf ==
  [b \in MCBlock |->
     CASE b = 5 -> <<Vote(7, 9, 4, {"v1"})>>
       [] b = 6 -> <<Vote(8, 5, 5, {"v2"})>>
       [] OTHER -> <<>>]

\* Gossip: votes for both sides of each fork.
MCGossip ==
  {Vote(6, 2, 2, {"v3"}), Vote(6, 3, 3, {"v1", "v2"}), Vote(9, 5, 6, {"v1"}),
   Vote(10, 8, 8, {"v2"})}

MCCheckpoint == {MCJustified[b] : b \in MCBlock}

EqualBalances == [c \in MCCheckpoint |-> [v \in Validator |-> 10]]

\* The balance of one validator is lower in the later justified state.
PenalizedBalances ==
  [c \in MCCheckpoint |->
     [v \in Validator |-> IF c.epoch > 1 /\ v = "v1" THEN 9 ELSE 10]]

=============================================================================
