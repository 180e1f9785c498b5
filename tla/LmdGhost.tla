------------------------------ MODULE LmdGhost ------------------------------
(***************************************************************************)
(* What the fork choice promises: the head that an import leaves behind is *)
(* the one that the greedy heaviest observed sub-tree rule picks from the  *)
(* latest messages, computed from nothing.                                 *)
(***************************************************************************)
EXTENDS Integers, FiniteSets, FiniteSetsExt

CONSTANTS
  Block, slotOf, parentOf, justifiedOf, finalizedOf, Validator, balancesAt,
  SLOTS_PER_EPOCH, PROPOSER_SCORE_BOOST

VARIABLES
  known,       \* the blocks of the tree
  message,     \* [Validator -> [root, epoch]]: the latest messages
  justified, finalized,
  boosted,     \* the root of the timely block of this slot, or 0
  head

-----------------------------------------------------------------------------
(* The rule *)

\* The blocks of S from which b descends, with b.
AncestorsIn(S, b) ==
  LET up[c \in Block] ==
        IF parentOf[c] = c \/ parentOf[c] \notin S THEN {c}
        ELSE {c} \union up[parentOf[c]]
  IN  up[b]

Viable(b, j, f) ==
  /\ j.epoch = 0 \/ justifiedOf[b] = j
  /\ f.epoch = 0 \/ finalizedOf[b] = f

\* The blocks that are viable or have a viable descendant.
Filtered(S, j, f) == UNION {AncestorsIn(S, b) : b \in {c \in S : Viable(c, j, f)}}

BoostFor(balances) ==
  LET active == {v \in Validator : balances[v] > 0}
  IN  (((Cardinality(active) \div SLOTS_PER_EPOCH)
          * (MapThenSumSet(LAMBDA v : balances[v], active) \div Cardinality(active)))
        * PROPOSER_SCORE_BOOST) \div 100

\* get_latest_attesting_balance
Weight(S, b, msgs, balances, boost) ==
  LET supports(r) == r \in S /\ b \in AncestorsIn(S, r)
  IN  MapThenSumSet(LAMBDA v : balances[v],
                    {v \in Validator : supports(msgs[v].root)})
      + (IF supports(boost) THEN BoostFor(balances) ELSE 0)

\* get_head
GetHead(S, msgs, j, f, boost) ==
  LET balances == balancesAt[j]
      weight == [b \in S |-> Weight(S, b, msgs, balances, boost)]
      heavier(b, c) == \/ weight[b] > weight[c]
                       \/ weight[b] = weight[c] /\ b >= c
      filtered == Filtered(S, j, f)
      children(b) == {c \in filtered \ {b} : parentOf[c] = b}
      walk[b \in S] ==
        IF children(b) = {} THEN b
        ELSE walk[CHOOSE c \in children(b) : \A d \in children(b) : heavier(c, d)]
  IN  walk[j.root]

\* Nothing below the justified block may be the head.
NoCandidate(S, j, f) ==
  {b \in S \ {j.root} : j.root \in AncestorsIn(S, b) /\ Viable(b, j, f)} = {}

-----------------------------------------------------------------------------
(* Steps *)

Newer(msgs) ==
  \A v \in Validator : msgs[v] = message[v] \/ msgs[v].epoch > message[v].epoch

\* The checkpoints of the store never go back.
Forward == justified'.epoch >= justified.epoch /\ finalized'.epoch >= finalized.epoch

\* A block is added and the head is the one that the rule picks.
Import(b) ==
  /\ b \notin known /\ known' = known \union {b}
  /\ Newer(message') /\ Forward
  /\ boosted' \in {boosted, b}
  /\ head' = GetHead(known', message', justified', finalized', boosted')

\* No head is found: the block is added, the head stays.
ImportWithoutHead(b) ==
  /\ b \notin known /\ known' = known \union {b}
  /\ Newer(message') /\ Forward
  /\ boosted' \in {boosted, b}
  /\ NoCandidate(known', justified', finalized')
  /\ head' = head

\* An import that fails moves the finalized checkpoint and nothing else.
FailedImport ==
  /\ finalized'.epoch > finalized.epoch
  /\ UNCHANGED <<known, message, justified, boosted, head>>

\* Votes arrive and time passes; the head is not computed again.
Learn ==
  /\ Newer(message') /\ Forward
  /\ boosted' \in {boosted, 0}
  /\ UNCHANGED <<known, finalized, head>>

\* Blocks that do not descend from the finalized one are forgotten.
Forget ==
  /\ known' \subseteq known
  /\ \A b \in known : finalized.root \in AncestorsIn(known, b) => b \in known'
  /\ UNCHANGED <<message, justified, finalized, boosted, head>>

Next ==
  \/ \E b \in Block : Import(b) \/ ImportWithoutHead(b)
  \/ FailedImport
  \/ Learn
  \/ Forget

Init ==
  /\ \E b \in Block : known = {b} /\ head = b
  /\ \A v \in Validator : message[v].root = 0
  /\ boosted = 0
  /\ justified = [epoch |-> 0, root |-> head] /\ finalized = justified

Spec == Init /\ [][Next]_<<known, message, justified, finalized, boosted, head>>

=============================================================================
