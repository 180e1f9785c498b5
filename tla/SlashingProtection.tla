------------------------- MODULE SlashingProtection -------------------------
(***************************************************************************)
(* SlashingProtection of the validator, for one public key: what it has    *)
(* signed, in a database of attestations by target, of spans of epochs     *)
(* that find surrounding votes without looking at all attestations, and of *)
(* blocks by slot.  A vote is recorded by three writes, and the process    *)
(* may stop between them; a vote is signed after the last one.             *)
(* Spans are updated over all epochs, since the constructor is given no    *)
(* maxEpochLookback; with one, the walk of updateMinSpan would be cut.     *)
(***************************************************************************)
EXTENDS Integers, FiniteSetsExt, SequencesExt

CONSTANTS
  MaxEpoch,            \* bound
  SigningRoot,         \* tells apart what is signed for the same epochs
  ZERO_ROOT,           \* the root in an import that does not give it
  Votes, Proposals,    \* the attestations and blocks that may have to be signed
  Interchanges,        \* sequences of attestations that may be imported
  MaxCrashes           \* bound

Attestations(roots) ==
  [sourceEpoch : 0..MaxEpoch, targetEpoch : 0..MaxEpoch, signingRoot : roots]

Blocks(roots) == [slot : Nat, signingRoot : roots]

\* No node accepts an attestation whose source is later than its target, so a
\* file holds none, and no distance is 0, which stands for no distance.
ASSUME SlashingAssumption ==
  /\ MaxEpoch \in Nat /\ MaxCrashes \in Nat
  /\ Votes \subseteq Attestations(SigningRoot)
  /\ Proposals \subseteq Blocks(SigningRoot)
  /\ ZERO_ROOT \notin SigningRoot
  /\ Interchanges \subseteq Seq(Attestations(SigningRoot \union {ZERO_ROOT}))
  /\ \A atts \in Interchanges : \A i \in DOMAIN atts :
       atts[i].sourceEpoch <= atts[i].targetEpoch

VARIABLES
  attestationByTarget, \* a set with at most one attestation of a target
  minSpan, maxSpan,    \* distance by epoch, 0 when there is none
  lowerBound,          \* minSourceEpoch and minTargetEpoch, or none
  blockBySlot,         \* a set with at most one block of a slot
  signedVotes, signedBlocks,      \* what was signed
  importedVotes, importedBlocks,  \* what was signed elsewhere
  minSpanVotes, maxSpanVotes,     \* what was entered into each kind of span
  torn,                \* attestations whose record was interrupted
  leftOut,             \* attestations an import did not enter, as it threw
  crashes

spanVars == <<minSpan, maxSpan, minSpanVotes, maxSpanVotes>>

slashingVars == <<attestationByTarget, spanVars, lowerBound, blockBySlot,
                  signedVotes, signedBlocks, importedVotes, importedBlocks, torn,
                  leftOut, crashes>>

blockVars == <<blockBySlot, signedBlocks, importedBlocks>>

voteVars == <<attestationByTarget, spanVars, lowerBound, signedVotes,
              importedVotes, torn, leftOut, crashes>>

-----------------------------------------------------------------------------
(* MinMaxSurround *)

Distance(att) == att.targetEpoch - att.sourceEpoch

IsSurrounding(mins, att) ==
  mins[att.sourceEpoch] > 0 /\ mins[att.sourceEpoch] < Distance(att)

IsSurrounded(maxs, att) ==
  maxs[att.sourceEpoch] > 0 /\ maxs[att.sourceEpoch] > Distance(att)

\* Variation: the walk ends one epoch early.
UpdateMinSpanShort(mins, att) ==
  [epoch \in DOMAIN mins |->
     IF /\ epoch < att.sourceEpoch - 1
        /\ \A e \in epoch..(att.sourceEpoch - 1) :
             mins[e] = 0 \/ att.targetEpoch - e < mins[e]
     THEN att.targetEpoch - epoch ELSE mins[epoch]]

\* From the epoch before the source down, until a span is not improved.
UpdateMinSpan(mins, att) ==
  [epoch \in DOMAIN mins |->
     IF /\ epoch < att.sourceEpoch
        /\ \A e \in epoch..(att.sourceEpoch - 1) :
             mins[e] = 0 \/ att.targetEpoch - e < mins[e]
     THEN att.targetEpoch - epoch ELSE mins[epoch]]

\* Variation: every epoch below the target is overwritten.
UpdateMaxSpanAlways(maxs, att) ==
  [epoch \in DOMAIN maxs |->
     IF att.sourceEpoch < epoch /\ epoch < att.targetEpoch
     THEN att.targetEpoch - epoch ELSE maxs[epoch]]

\* From the epoch after the source up, until a span is not improved.
UpdateMaxSpan(maxs, att) ==
  [epoch \in DOMAIN maxs |->
     IF /\ att.sourceEpoch < epoch /\ epoch < att.targetEpoch
        /\ \A e \in (att.sourceEpoch + 1)..epoch : att.targetEpoch - e > maxs[e]
     THEN att.targetEpoch - epoch ELSE maxs[epoch]]

-----------------------------------------------------------------------------
(* The checks *)

\* A root commits to what is signed, so roots are equal with the data only.
IsEqualNonZeroRoot(data1, data2) ==
  data1.signingRoot # ZERO_ROOT /\ data1 = data2

NoBound == [minSourceEpoch |-> -1, minTargetEpoch |-> -1]

SameTarget(att) ==
  {a \in attestationByTarget : a.targetEpoch = att.targetEpoch}

\* SAFE_STATUS_SAME_DATA
IsSameVote(att) ==
  /\ att.sourceEpoch <= att.targetEpoch
  /\ \E a \in SameTarget(att) : IsEqualNonZeroRoot(a, att)

\* SAFE_STATUS_OK
IsSafeVote(att) ==
  /\ att.sourceEpoch <= att.targetEpoch
  /\ SameTarget(att) = {}
  /\ ~IsSurrounding(minSpan, att) /\ ~IsSurrounded(maxSpan, att)
  /\ att.sourceEpoch >= lowerBound.minSourceEpoch
  /\ att.targetEpoch > lowerBound.minTargetEpoch

SameSlot(block) == {b \in blockBySlot : b.slot = block.slot}

IsSameBlock(block) ==
  \E b \in SameSlot(block) : IsEqualNonZeroRoot(b, block)

\* The first block of the database is the one with the lowest slot.
IsSafeBlock(block) ==
  /\ SameSlot(block) = {}
  /\ blockBySlot # {} => block.slot > Min({b.slot : b \in blockBySlot})

-----------------------------------------------------------------------------
(* What happens *)

\* batchPut: later values replace earlier ones of the same key.
PutVotes(db, atts) ==
  {a \in db : \A i \in DOMAIN atts : atts[i].targetEpoch # a.targetEpoch} \union
  {atts[i] : i \in {j \in DOMAIN atts :
                    \A k \in DOMAIN atts :
                      j < k => atts[k].targetEpoch # atts[j].targetEpoch}}

SlashingInit ==
  /\ attestationByTarget = {}
  /\ minSpan = [epoch \in 0..MaxEpoch |-> 0]
  /\ maxSpan = [epoch \in 0..MaxEpoch |-> 0]
  /\ lowerBound = NoBound
  /\ blockBySlot = {}
  /\ signedVotes = {} /\ signedBlocks = {}
  /\ importedVotes = {} /\ importedBlocks = {}
  /\ minSpanVotes = {} /\ maxSpanVotes = {}
  /\ torn = {} /\ leftOut = {}
  /\ crashes = 0

\* checkAndInsertAttestation of a vote that is recorded, and its signature.
SignAttestation(att) ==
  /\ IsSafeVote(att)
  /\ attestationByTarget' = PutVotes(attestationByTarget, <<att>>)
  /\ minSpan' = UpdateMinSpan(minSpan, att)
  /\ maxSpan' = UpdateMaxSpan(maxSpan, att)
  /\ minSpanVotes' = minSpanVotes \union {att}
  /\ maxSpanVotes' = maxSpanVotes \union {att}
  /\ signedVotes' = signedVotes \union {att}
  /\ UNCHANGED <<lowerBound, importedVotes, torn, leftOut, crashes>>
  /\ UNCHANGED blockVars

\* The vote is on record: it is signed again and nothing is written.
SignSameAttestation(att) ==
  /\ IsSameVote(att)
  /\ signedVotes' = signedVotes \union {att}
  /\ UNCHANGED <<attestationByTarget, spanVars, lowerBound, importedVotes, torn,
                 leftOut, crashes>>
  /\ UNCHANGED blockVars

\* The process stops after the first write, or after the second.
CrashInInsert(att, minWritten) ==
  /\ crashes < MaxCrashes
  /\ IsSafeVote(att)
  /\ attestationByTarget' = PutVotes(attestationByTarget, <<att>>)
  /\ IF minWritten
     THEN /\ minSpan' = UpdateMinSpan(minSpan, att)
          /\ minSpanVotes' = minSpanVotes \union {att}
     ELSE UNCHANGED <<minSpan, minSpanVotes>>
  /\ torn' = torn \union {att}
  /\ crashes' = crashes + 1
  /\ UNCHANGED <<maxSpan, maxSpanVotes, lowerBound, signedVotes, importedVotes,
                 leftOut>>
  /\ UNCHANGED blockVars

\* An attestation of a file; one that surrounds or is surrounded throws, the
\* latter after its first write, and the rest of the file is left out.
InsertNext(spans, att) ==
  IF spans.left # {} \/ IsSurrounding(spans.min, att)
  THEN [spans EXCEPT !.left = @ \union {att}]
  ELSE IF IsSurrounded(spans.max, att)
  THEN [spans EXCEPT !.left = @ \union {att},
                     !.min = UpdateMinSpan(@, att),
                     !.inMin = @ \union {att}]
  ELSE [spans EXCEPT !.min = UpdateMinSpan(@, att),
                     !.max = UpdateMaxSpan(@, att),
                     !.inMin = @ \union {att},
                     !.inMax = @ \union {att}]

InsertAll(atts) ==
  LET inserted[n \in 0..Len(atts)] ==
        IF n = 0 THEN [min |-> minSpan, max |-> maxSpan, inMin |-> minSpanVotes,
                       inMax |-> maxSpanVotes, left |-> {}]
        ELSE InsertNext(inserted[n - 1], atts[n])
  IN  inserted[Len(atts)]

\* importAttestations; the lower bound is that of the last file.
ImportAttestations(atts) ==
  LET inserted == InsertAll(atts)
  IN  /\ attestationByTarget' = PutVotes(attestationByTarget, atts)
      /\ minSpan' = inserted.min /\ minSpanVotes' = inserted.inMin
      /\ maxSpan' = inserted.max /\ maxSpanVotes' = inserted.inMax
      /\ leftOut' = leftOut \union inserted.left
      /\ lowerBound' =
           IF inserted.left # {} \/ atts = <<>> THEN lowerBound
           ELSE [minSourceEpoch |-> Min({a.sourceEpoch : a \in ToSet(atts)}),
                 minTargetEpoch |-> Min({a.targetEpoch : a \in ToSet(atts)})]
      /\ importedVotes' = importedVotes \union ToSet(atts)
      /\ UNCHANGED <<signedVotes, torn, crashes>>
      /\ UNCHANGED blockVars

\* checkAndInsertBlockProposal, and the signature.
SignBlock(block) ==
  /\ IsSameBlock(block) \/ IsSafeBlock(block)
  /\ blockBySlot' = IF IsSameBlock(block) THEN blockBySlot
                    ELSE blockBySlot \union {block}
  /\ signedBlocks' = signedBlocks \union {block}
  /\ UNCHANGED importedBlocks
  /\ UNCHANGED voteVars

\* importBlocks, one block at a time; the root may be missing.
ImportBlock(block, root) ==
  /\ blockBySlot' = (blockBySlot \ SameSlot(block)) \union
                    {[block EXCEPT !.signingRoot = root]}
  /\ importedBlocks' = importedBlocks \union {block}
  /\ UNCHANGED signedBlocks
  /\ UNCHANGED voteVars

VoteNext ==
  \/ \E att \in Votes :
       \/ SignAttestation(att)
       \/ SignSameAttestation(att)
       \/ \E minWritten \in BOOLEAN : CrashInInsert(att, minWritten)
  \/ \E atts \in Interchanges : ImportAttestations(atts)

ProposalNext ==
  \E block \in Proposals :
    \/ SignBlock(block)
    \/ \E root \in {block.signingRoot, ZERO_ROOT} : ImportBlock(block, root)

SlashingNext == VoteNext \/ ProposalNext

SlashingSpec == SlashingInit /\ [][SlashingNext]_slashingVars

-----------------------------------------------------------------------------
(* Properties *)

Surrounds(a, b) == a.sourceEpoch < b.sourceEpoch /\ b.targetEpoch < a.targetEpoch

Voted == signedVotes \union importedVotes

IsNew(data, signed, imported) == data \notin signed \union imported

\* "This is the safe, externally-callable interface": of what it lets the
\* validator sign, no vote has the target of another one and no block the slot
\* of another one that was signed or imported before, crashes and imports that
\* throw included.  No vote surrounds another one either, as far as the spans go
\* that tell: one of the two is missing in the span the other is checked with.
\* A crash between two writes leaves a vote out of a span, and the vote is
\* signed afterwards as SAME_DATA; an import that throws does too.
NothingSlashableSigned ==
  [][/\ \A a \in signedVotes' : IsNew(a, signedVotes, importedVotes) =>
          \A b \in Voted :
            /\ a.targetEpoch # b.targetEpoch
            /\ Surrounds(a, b) => b \notin minSpanVotes \/ a \notin maxSpanVotes'
            /\ Surrounds(b, a) => a \notin minSpanVotes' \/ b \notin maxSpanVotes
     /\ \A a \in signedBlocks' : IsNew(a, signedBlocks, importedBlocks) =>
          \A b \in signedBlocks \union importedBlocks : a.slot # b.slot
    ]_slashingVars

\* The distances that start later, and those of votes around an epoch.
LaterDistances(votes, epoch) ==
  {a.targetEpoch - epoch : a \in {v \in votes : v.sourceEpoch > epoch}}

EarlierDistances(votes, epoch) ==
  {a.targetEpoch - epoch :
     a \in {v \in votes : v.sourceEpoch < epoch /\ epoch < v.targetEpoch}}

\* The spans are what they stand for: the closest target of a vote that
\* starts later, the farthest target of a vote that starts earlier.  Too far
\* or too near, they let a surrounding vote pass or refuse a safe one.  They
\* stand for what was entered into each, also after a crash between the two
\* writes and after an import that throws: all votes that were signed or
\* imported but for what a crash cut or a throwing import left out.
SpansExact ==
  /\ Voted \ (torn \union leftOut) \subseteq minSpanVotes \intersect maxSpanVotes
  /\ \A epoch \in 0..MaxEpoch :
       LET later == LaterDistances(minSpanVotes, epoch)
           earlier == EarlierDistances(maxSpanVotes, epoch)
       IN  /\ minSpan[epoch] = IF later = {} THEN 0 ELSE Min(later)
           /\ maxSpan[epoch] = IF earlier = {} THEN 0 ELSE Max(earlier)

=============================================================================
