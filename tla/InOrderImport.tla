--------------------------- MODULE InOrderImport ----------------------------
(***************************************************************************)
(* What a sync promises to the chain: blocks are imported in the order of  *)
(* the chain, without a gap and never taken back, the point up to which    *)
(* the chain is validated only moves forward and never past a block that   *)
(* is missing, and a sync that says it is done leaves the chain alone.     *)
(***************************************************************************)
EXTENDS Naturals

CONSTANT Chain          \* the slots that have a block

VARIABLES
  imported,             \* the slots whose block is imported
  validated,            \* a slot
  synced

UpTo(slot) == {s \in Chain : s <= slot}

IsPrefix(slots) == \A s \in slots : UpTo(s) \subseteq slots

Init ==
  /\ validated \in Nat
  /\ imported = UpTo(validated)
  /\ synced = FALSE

Advance ==
  /\ ~synced /\ UNCHANGED synced
  /\ imported \subseteq imported' /\ IsPrefix(imported')
  /\ validated <= validated' /\ UpTo(validated') \subseteq imported'

Finish == ~synced /\ synced' /\ UNCHANGED <<imported, validated>>

Spec == Init /\ [][Advance \/ Finish]_<<imported, validated, synced>>

=============================================================================
