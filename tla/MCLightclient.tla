--------------------------- MODULE MCLightclient ----------------------------
(***************************************************************************)
(* Instances of Lightclient with two slots in a period.  `Adversarial` is  *)
(* what a malicious server can send: forged signers, broken branches, a    *)
(* committee of a fork, finalized headers of another period, old updates.  *)
(* `Honest` is what a correct server of the chain c0, c1, ... sends.       *)
(***************************************************************************)
EXTENDS Lightclient, FiniteSets

Update(slot, attested, finalized, ok, signer, next, bits) ==
  [slot |-> slot, attestedSlot |-> attested, isFinalized |-> finalized,
   proofOk |-> ok, signer |-> signer, next |-> next, participation |-> bits]

Header(slot, signer, bits) ==
  [slot |-> slot, signer |-> signer, participation |-> bits]

AllCommittees == {"c0", "c1", "fork1", "c2", "c3"}

Adversarial ==
  {Update(0, 0, FALSE, TRUE, "c0", "c1", 1),
   Update(0, 1, TRUE, TRUE, "c0", "c1", 4),
   Update(1, 1, FALSE, TRUE, "c0", "fork1", 2),
   Update(0, 2, TRUE, TRUE, "c0", "fork1", 4),
   Update(2, 2, FALSE, TRUE, "c1", "c2", 4),
   Update(2, 2, FALSE, FALSE, "c1", "fork1", 4),
   Update(4, 4, FALSE, TRUE, "c1", "c3", 4),
   Update(4, 4, FALSE, TRUE, "c2", "c3", 2),
   Update(0, 0, FALSE, TRUE, "c3", "fork1", 4)}

AdversarialHeaders ==
  {Header(1, "c0", 2), Header(2, "c1", 4), Header(3, "c1", 1),
   Header(3, "fork1", 4), Header(4, "c2", 1), Header(4, "c1", 4)}

\* The least set that satisfies TrustAssumption, period by period.
TrustedAt[period \in PeriodAtSlot(SnapshotSlot)..PeriodAtSlot(MaxSlot) + 1] ==
  IF period = PeriodAtSlot(SnapshotSlot)
  THEN {SnapshotCommittee}
  ELSE {u.next : u \in {v \in Updates :
                          /\ PeriodAtSlot(v.slot) = period - 1
                          /\ ValidUpdate(v.signer, v)
                          /\ v.signer \in TrustedAt[period - 1]}}

MCTrusted ==
  UNION {{<<period, committee>> : committee \in TrustedAt[period]} :
           period \in DOMAIN TrustedAt}

\* The committee of a period of the honest chain.
OfPeriod(period) == <<"c0", "c1", "c2", "c3", "c4", "c5">>[period + 1]

\* An update is there from the second slot of a period on.
Honest ==
  {Update(slot, slot, FALSE, TRUE, OfPeriod(PeriodAtSlot(slot)),
          OfPeriod(PeriodAtSlot(slot) + 1), 4) :
     slot \in {s \in 0..MaxSlot : s % 2 = 1}}

HonestHeaders ==
  {Header(slot, OfPeriod(PeriodAtSlot(slot)), 4) : slot \in 0..MaxSlot}

HonestCommittees == {OfPeriod(period) : period \in 0..5}

=============================================================================
