------------------------- MODULE LightclientProofs --------------------------
(***************************************************************************)
(* Proofs about Lightclient, for every number of run loops, every set of   *)
(* updates and headers a server may send and every length of a period.     *)
(*                                                                         *)
(* The safety of the client rests on one inductive invariant: the cache is *)
(* a run of consecutive periods, every committee in it and the signer of   *)
(* the head belong to Trusted, and only a started client has loops that    *)
(* sleep.                                                                  *)
(*                                                                         *)
(* The last part is about the head: inside a period it is never replaced   *)
(* by one with less than half of its participation.  The check against     *)
(* MinSafeParticipation says so only while the participation of the head   *)
(* is on record, and the record drops periods in the order of their        *)
(* insertion, which a server can influence.  HeadInv is why the right ones *)
(* go: the cached committees, and so the periods of the headers that are   *)
(* accepted, are at most one period behind the head, and so at most the    *)
(* period before it is inserted after a period.                            *)
(***************************************************************************)
EXTENDS Lightclient, Integers, SequenceTheorems, TLAPS

(* Maps: setting and pruning keep types, and in a map of one or two        *)
(* consecutive keys the successor of a known key ends up last, after the   *)
(* entry of that key.                                                      *)

\* Reading a key that is there gives the value of one of the entries with it.
LEMMA MapGetIsEntry ==
  ASSUME NEW m, NEW k \in MapKeys(m)
  PROVE  \E i \in DOMAIN m : m[i].key = k /\ MapGet(m, k) = m[i].value
BY DEF MapKeys, MapGet

\* Setting a key keeps the type of a map.
LEMMA MapSetTyped ==
  ASSUME NEW V, NEW m \in Seq([key : Nat, value : V]), NEW k \in Nat, NEW v \in V
  PROVE  MapSet(m, k, v) \in Seq([key : Nat, value : V])
<1>1. CASE k \in MapKeys(m)
  BY <1>1 DEF MapSet, MapKeys, Entry
<1>2. CASE k \notin MapKeys(m)
  BY <1>2 DEF MapSet, Entry
<1> QED BY <1>1, <1>2

\* So does pruning.
LEMMA PruneTyped ==
  ASSUME NEW S, NEW m \in Seq(S), NEW n \in Nat \ {0}
  PROVE  PruneSetToMax(m, n) \in Seq(S)
BY DEF PruneSetToMax

\* One or two entries, the key of the second following the key of the first.
TwoConsecutive(m) ==
  \/ Len(m) = 1
  \/ Len(m) = 2 /\ m[2].key = m[1].key + 1

\* The fields of an entry.
LEMMA EntryFields ==
  ASSUME NEW k, NEW v
  PROVE  Entry(k, v).key = k /\ Entry(k, v).value = v
BY DEF Entry

\* Append, for sequences of any length, of one and of two entries.
LEMMA AppendToMap ==
  ASSUME NEW S, NEW old \in Seq(S), NEW e \in S
  PROVE  /\ Append(old, e) \in Seq(S)
         /\ Len(Append(old, e)) = Len(old) + 1
         /\ \A i \in 1..Len(old) : Append(old, e)[i] = old[i]
         /\ Append(old, e)[Len(old) + 1] = e
BY AppendProperties

\* Append to one entry.
LEMMA AppendToOne ==
  ASSUME NEW S, NEW old \in Seq(S), Len(old) = 1, NEW e \in S
  PROVE  /\ Append(old, e) \in Seq(S)
         /\ Len(Append(old, e)) = 2
         /\ Append(old, e)[1] = old[1]
         /\ Append(old, e)[2] = e
<1>1. /\ Append(old, e) \in Seq(S)
      /\ Len(Append(old, e)) = Len(old) + 1
      /\ \A i \in 1..Len(old) : Append(old, e)[i] = old[i]
      /\ Append(old, e)[Len(old) + 1] = e
  BY AppendToMap, Zenon
<1>2. Len(Append(old, e)) = 2
  BY <1>1
<1>3. Append(old, e)[1] = old[1]
  BY <1>1
<1>4. Append(old, e)[2] = e
  BY <1>1
<1> QED BY <1>1, <1>2, <1>3, <1>4

\* Append to two entries.
LEMMA AppendToTwo ==
  ASSUME NEW S, NEW old \in Seq(S), Len(old) = 2, NEW e \in S
  PROVE  /\ Append(old, e) \in Seq(S)
         /\ Len(Append(old, e)) = 3
         /\ Append(old, e)[2] = old[2]
         /\ Append(old, e)[3] = e
<1>1. /\ Append(old, e) \in Seq(S)
      /\ Len(Append(old, e)) = Len(old) + 1
      /\ \A i \in 1..Len(old) : Append(old, e)[i] = old[i]
      /\ Append(old, e)[Len(old) + 1] = e
  BY AppendToMap, Zenon
<1>2. Len(Append(old, e)) = 3
  BY <1>1
<1>3. Append(old, e)[2] = old[2]
  BY <1>1
<1>4. Append(old, e)[3] = e
  BY <1>1
<1> QED BY <1>1, <1>2, <1>3, <1>4

\* Replacing the second of two entries.
LEMMA ReplaceSecond ==
  ASSUME NEW S, NEW old \in Seq(S), Len(old) = 2, NEW e \in S
  PROVE  /\ [old EXCEPT ![2] = e] \in Seq(S)
         /\ Len([old EXCEPT ![2] = e]) = 2
         /\ [old EXCEPT ![2] = e][1] = old[1]
         /\ [old EXCEPT ![2] = e][2] = e
<1>1. 1 \in 1..Len(old) /\ 2 \in 1..Len(old)
  OBVIOUS
<1>2. [old EXCEPT ![2] = e] \in Seq(S)
  BY <1>1, ExceptSeq
<1>3. Len([old EXCEPT ![2] = e]) = 2
  BY <1>1, ExceptSeq
<1>4. [old EXCEPT ![2] = e][1] = old[1]
  BY <1>1
<1>5. [old EXCEPT ![2] = e][2] = e
  BY <1>1
<1> QED BY <1>2, <1>3, <1>4, <1>5

\* Pruning to two leaves two entries alone.
LEMMA PruneTwo ==
  ASSUME NEW m, Len(m) = 2
  PROVE  PruneSetToMax(m, 2) = m
BY DEF PruneSetToMax

\* Pruning to two drops the first of three entries.
LEMMA PruneThree ==
  ASSUME NEW S, NEW m \in Seq(S), Len(m) = 3
  PROVE  /\ PruneSetToMax(m, 2) \in Seq(S)
         /\ Len(PruneSetToMax(m, 2)) = 2
         /\ PruneSetToMax(m, 2)[1] = m[2]
         /\ PruneSetToMax(m, 2)[2] = m[3]
<1>1. PruneSetToMax(m, 2) = SubSeq(m, 2, 3)
  BY DEF PruneSetToMax
<1>2. /\ SubSeq(m, 2, 3) \in Seq(S)
      /\ Len(SubSeq(m, 2, 3)) = 2
      /\ SubSeq(m, 2, 3)[1] = m[2]
      /\ SubSeq(m, 2, 3)[2] = m[3]
  OBVIOUS
<1> QED BY <1>1, <1>2

\* Setting the successor of a known key and pruning to two: the entry of the
\* known key comes first, the new entry second, whatever the map held.
LEMMA SetSuccessor ==
  ASSUME NEW S, \A e \in S : e.key \in Nat, NEW old \in Seq(S),
         TwoConsecutive(old), NEW k \in MapKeys(old), NEW v,
         Entry(k + 1, v) \in S
  PROVE  /\ PruneSetToMax(MapSet(old, k + 1, v), 2) \in Seq(S)
         /\ Len(PruneSetToMax(MapSet(old, k + 1, v), 2)) = 2
         /\ \E i \in DOMAIN old : /\ old[i].key = k
                                  /\ PruneSetToMax(MapSet(old, k + 1, v), 2)[1] = old[i]
         /\ PruneSetToMax(MapSet(old, k + 1, v), 2)[2] = Entry(k + 1, v)
<1>1. \A i \in DOMAIN old : old[i].key \in Nat
  BY ElementOfSeq
<1>2. CASE Len(old) = 1
  <2>1. old[1].key = k /\ k \in Nat /\ DOMAIN old = {1}
    BY <1>1, <1>2 DEF MapKeys
  <2>2. k + 1 \notin MapKeys(old)
    BY <2>1 DEF MapKeys
  <2>3. MapSet(old, k + 1, v) = Append(old, Entry(k + 1, v))
    BY <2>2 DEF MapSet
  <2>5. /\ Append(old, Entry(k + 1, v)) \in Seq(S)
        /\ Len(Append(old, Entry(k + 1, v))) = 2
        /\ Append(old, Entry(k + 1, v))[1] = old[1]
        /\ Append(old, Entry(k + 1, v))[2] = Entry(k + 1, v)
    BY <1>2, AppendToOne
  <2> QED BY <2>1, <2>3, <2>5, PruneTwo
<1>3. CASE Len(old) = 2 /\ old[1].key = k
  <2>1. k \in Nat /\ DOMAIN old = {1, 2} /\ old[2].key = k + 1
    BY <1>1, <1>3 DEF TwoConsecutive
  <2>2. k + 1 \in MapKeys(old)
    BY <2>1 DEF MapKeys
  <2>3. MapSet(old, k + 1, v)
          = [i \in DOMAIN old |-> IF old[i].key = k + 1 THEN Entry(k + 1, v) ELSE old[i]]
    BY <2>2 DEF MapSet
  <2>4. \A i \in DOMAIN old : old[i].key = k + 1 <=> i = 2
    BY <1>3, <2>1
  <2>5. MapSet(old, k + 1, v) = [old EXCEPT ![2] = Entry(k + 1, v)]
    BY <2>3, <2>4
  <2>6. /\ [old EXCEPT ![2] = Entry(k + 1, v)] \in Seq(S)
        /\ Len([old EXCEPT ![2] = Entry(k + 1, v)]) = 2
        /\ [old EXCEPT ![2] = Entry(k + 1, v)][1] = old[1]
        /\ [old EXCEPT ![2] = Entry(k + 1, v)][2] = Entry(k + 1, v)
    BY <1>3, ReplaceSecond
  <2> QED BY <1>3, <2>1, <2>5, <2>6, PruneTwo
<1>4. CASE Len(old) = 2 /\ old[2].key = k
  <2>1. k \in Nat /\ DOMAIN old = {1, 2} /\ old[1].key + 1 = k /\ old[1].key \in Nat
    BY <1>1, <1>4 DEF TwoConsecutive
  <2>2. k + 1 \notin MapKeys(old)
    BY <1>4, <2>1 DEF MapKeys
  <2>3. MapSet(old, k + 1, v) = Append(old, Entry(k + 1, v))
    BY <2>2 DEF MapSet
  <2>5. /\ Append(old, Entry(k + 1, v)) \in Seq(S)
        /\ Len(Append(old, Entry(k + 1, v))) = 3
        /\ Append(old, Entry(k + 1, v))[2] = old[2]
        /\ Append(old, Entry(k + 1, v))[3] = Entry(k + 1, v)
    BY <1>4, AppendToTwo
  <2>6. /\ PruneSetToMax(Append(old, Entry(k + 1, v)), 2) \in Seq(S)
        /\ Len(PruneSetToMax(Append(old, Entry(k + 1, v)), 2)) = 2
        /\ PruneSetToMax(Append(old, Entry(k + 1, v)), 2)[1] = old[2]
        /\ PruneSetToMax(Append(old, Entry(k + 1, v)), 2)[2] = Entry(k + 1, v)
    BY <2>5, PruneThree
  <2> QED BY <1>4, <2>1, <2>3, <2>6
<1>5. Len(old) = 1 \/ (Len(old) = 2 /\ (old[1].key = k \/ old[2].key = k))
  <2>1. CASE Len(old) = 2
    <3>1. DOMAIN old = {1, 2}
      BY <2>1
    <3> QED BY <2>1, <3>1 DEF MapKeys
  <2> QED BY <2>1 DEF TwoConsecutive
<1> QED BY <1>2, <1>3, <1>4, <1>5

\* Setting a key that is there changes its value and keeps its place.
LEMMA SetKnownKey ==
  ASSUME NEW S, NEW m \in Seq(S), NEW n \in Nat, Len(m) <= n,
         NEW k \in MapKeys(m), NEW v
  PROVE  /\ Len(PruneSetToMax(MapSet(m, k, v), n)) = Len(m)
         /\ \A i \in 1..Len(m) :
              PruneSetToMax(MapSet(m, k, v), n)[i]
                = IF m[i].key = k THEN Entry(k, v) ELSE m[i]
<1> DEFINE new == [i \in DOMAIN m |-> IF m[i].key = k THEN Entry(k, v) ELSE m[i]]
<1>1. MapSet(m, k, v) = new
  BY DEF MapSet
<1>2. DOMAIN m = 1..Len(m) /\ Len(m) \in Nat
  OBVIOUS
<1>3. Len(new) = Len(m)
  BY <1>2
<1>4. PruneSetToMax(new, n) = new
  BY <1>3 DEF PruneSetToMax
<1> QED BY <1>1, <1>2, <1>3, <1>4

\* A new key comes last; the first key goes when the map is full.
LEMMA SetNewKey ==
  ASSUME NEW S, NEW m \in Seq(S), NEW n \in Nat \ {0},
         Len(m) <= n, NEW k, k \notin MapKeys(m), NEW v, Entry(k, v) \in S
  PROVE  \E d \in {0, 1} :
           /\ d = 1 <=> Len(m) = n
           /\ Len(PruneSetToMax(MapSet(m, k, v), n)) = Len(m) + 1 - d
           /\ \A i \in 1..(Len(m) - d) :
                PruneSetToMax(MapSet(m, k, v), n)[i] = m[i + d]
           /\ PruneSetToMax(MapSet(m, k, v), n)[Len(m) + 1 - d] = Entry(k, v)
<1> DEFINE new == Append(m, Entry(k, v))
           size == Len(m)
<1>1. MapSet(m, k, v) = new
  BY DEF MapSet
<1>2. /\ new \in Seq(S)
      /\ Len(new) = size + 1
      /\ \A i \in 1..size : new[i] = m[i]
      /\ new[size + 1] = Entry(k, v)
  BY AppendToMap, Zenon
<1>3. size \in Nat
  OBVIOUS
<1>4. CASE size < n
  <2>1. PruneSetToMax(new, n) = new
    BY <1>2, <1>3, <1>4 DEF PruneSetToMax
  <2> HIDE DEF new, size
  <2>2. /\ (0 = 1 <=> size = n)
        /\ Len(PruneSetToMax(new, n)) = size + 1 - 0
        /\ \A i \in 1..(size - 0) : PruneSetToMax(new, n)[i] = m[i + 0]
        /\ PruneSetToMax(new, n)[size + 1 - 0] = Entry(k, v)
    BY <1>2, <1>3, <1>4, <2>1
  <2> QED BY <1>1, <2>2 DEF size
<1>5. CASE size = n
  <2>1. PruneSetToMax(new, n) = SubSeq(new, 2, size + 1)
    BY <1>2, <1>3, <1>5 DEF PruneSetToMax
  <2> HIDE DEF new, size
  <2>2. /\ Len(SubSeq(new, 2, size + 1)) = size
        /\ \A i \in 1..size : SubSeq(new, 2, size + 1)[i] = new[i + 1]
    BY <1>2, <1>3
  <2>3. size >= 1
    BY <1>3, <1>5
  <2>4. /\ (1 = 1 <=> size = n)
        /\ Len(PruneSetToMax(new, n)) = size + 1 - 1
        /\ \A i \in 1..(size - 1) : PruneSetToMax(new, n)[i] = m[i + 1]
        /\ PruneSetToMax(new, n)[size + 1 - 1] = Entry(k, v)
    BY <1>2, <1>3, <1>5, <2>1, <2>2, <2>3
  <2> QED BY <1>1, <2>4 DEF size
<1> QED BY <1>3, <1>4, <1>5

-----------------------------------------------------------------------------
(* Time *)

\* A quotient of natural numbers is a natural number.
LEMMA QuotientInNat ==
  ASSUME NEW a \in Nat, NEW b \in Nat \ {0}
  PROVE  a \div b \in Nat
OBVIOUS

\* The period of a slot is a natural number.
LEMMA PeriodInNat == \A slot \in Nat : PeriodAtSlot(slot) \in Nat /\ EpochAtSlot(slot) \in Nat
BY QuotientInNat, ConstantsAssumption DEF PeriodAtSlot, PeriodAtEpoch, EpochAtSlot

(* Committee updates *)

\* An accepted update extends the chain of trust by the committee it carries.
LEMMA AcceptedUpdateIsTrusted ==
  ASSUME AnchoredTrust, NEW u \in Updates, AcceptsUpdate(u)
  PROVE  /\ PeriodAtSlot(u.slot) \in MapKeys(syncCommitteeByPeriod)
         /\ <<PeriodAtSlot(u.slot) + 1, u.next>> \in Trusted
<1>1. PeriodAtSlot(u.slot) \in MapKeys(syncCommitteeByPeriod)
  BY DEF AcceptsUpdate, HasCommittee
<1>2. PICK i \in DOMAIN syncCommitteeByPeriod :
        /\ syncCommitteeByPeriod[i].key = PeriodAtSlot(u.slot)
        /\ MapGet(syncCommitteeByPeriod, PeriodAtSlot(u.slot))
             = syncCommitteeByPeriod[i].value
  BY <1>1, MapGetIsEntry
<1>3. /\ ValidUpdate(CommitteeOf(PeriodAtSlot(u.slot)), u)
      /\ CommitteeOf(PeriodAtSlot(u.slot)) = u.signer
  BY DEF AcceptsUpdate, ValidUpdate, ValidSignature
<1>4. ValidUpdate(u.signer, u)
  BY <1>3
<1>5. syncCommitteeByPeriod[i].value.committee = u.signer
  BY <1>2, <1>3 DEF CommitteeOf
<1>6. <<PeriodAtSlot(u.slot), u.signer>> \in Trusted
  BY <1>2, <1>5 DEF AnchoredTrust
<1> QED BY <1>1, <1>4, <1>6, TrustAssumption

\* The cache after an update is the one before, or the entry of the update's
\* period followed by the entry the update brings.
LEMMA UpdatedCache ==
  ASSUME TypeOK, ConsecutivePeriods, NEW u \in Updates,
         PeriodAtSlot(u.slot) \in MapKeys(syncCommitteeByPeriod),
         StoreNextCommittee(u)
  PROVE  /\ syncCommitteeByPeriod' \in Seq([key : Nat, value : CommitteeStats])
         /\ \/ syncCommitteeByPeriod' = syncCommitteeByPeriod
            \/ /\ Len(syncCommitteeByPeriod') = 2
               /\ \E i \in DOMAIN syncCommitteeByPeriod :
                    /\ syncCommitteeByPeriod[i].key = PeriodAtSlot(u.slot)
                    /\ syncCommitteeByPeriod'[1] = syncCommitteeByPeriod[i]
               /\ syncCommitteeByPeriod'[2]
                    = Entry(PeriodAtSlot(u.slot) + 1, CommitteeEntry(u))
<1>1. /\ syncCommitteeByPeriod \in Seq([key : Nat, value : CommitteeStats])
      /\ TwoConsecutive(syncCommitteeByPeriod)
  BY DEF TypeOK, ConsecutivePeriods, MAX_STORED_SYNC_COMMITTEES, TwoConsecutive
<1>2. Entry(PeriodAtSlot(u.slot) + 1, CommitteeEntry(u))
        \in [key : Nat, value : CommitteeStats]
  BY PeriodInNat, ConstantsAssumption
     DEF Entry, CommitteeEntry, CommitteeStats, UpdateType
<1>3. \A e \in [key : Nat, value : CommitteeStats] : e.key \in Nat
  OBVIOUS
<1>4. CASE KeepsKnownCommittee(u)
  BY <1>1, <1>4 DEF StoreNextCommittee
<1>5. CASE ~KeepsKnownCommittee(u)
  <2>1. syncCommitteeByPeriod'
          = PruneSetToMax(MapSet(syncCommitteeByPeriod, PeriodAtSlot(u.slot) + 1,
                                 CommitteeEntry(u)), 2)
    BY <1>5 DEF StoreNextCommittee, MAX_STORED_SYNC_COMMITTEES
  <2> DEFINE E == [key : Nat, value : CommitteeStats]
             k == PeriodAtSlot(u.slot)
             new == PruneSetToMax(MapSet(syncCommitteeByPeriod, k + 1,
                                         CommitteeEntry(u)), 2)
  <2>2. k \in MapKeys(syncCommitteeByPeriod)
    OBVIOUS
  <2>3. /\ syncCommitteeByPeriod \in Seq(E)
        /\ Entry(k + 1, CommitteeEntry(u)) \in E
        /\ \A e \in E : e.key \in Nat
    BY <1>1, <1>2, <1>3
  <2>4. /\ new \in Seq(E)
        /\ Len(new) = 2
        /\ \E i \in DOMAIN syncCommitteeByPeriod :
             syncCommitteeByPeriod[i].key = k /\ new[1] = syncCommitteeByPeriod[i]
        /\ new[2] = Entry(k + 1, CommitteeEntry(u))
    <3> HIDE DEF E, k
    <3> QED BY <1>1, <2>2, <2>3, SetSuccessor
  <2> QED BY <2>1, <2>4
<1> QED BY <1>4, <1>5

(* The invariant, in its two halves: what the client stores and where its  *)
(* loops are.                                                              *)

StoreOK ==
  /\ syncCommitteeByPeriod \in Seq([key : Nat, value : CommitteeStats])
  /\ maxParticipationByPeriod \in Seq([key : Nat, value : Nat])
  /\ head \in HeaderType
  /\ ConsecutivePeriods
  /\ AnchoredTrust
  /\ HeadTrusted

LoopOK ==
  /\ status \in {"stopped", "syncing", "started"}
  /\ loop \in [Loops -> LoopState]
  /\ SleepersTracked

IInv == currentSlot \in Slot /\ StoreOK /\ LoopOK

\* An accepted update keeps what is stored in order.
LEMMA StoreNextCommitteeOK ==
  ASSUME TypeOK, StoreOK, NEW u \in Updates, AcceptsUpdate(u),
         StoreNextCommittee(u), UNCHANGED <<maxParticipationByPeriod, head>>
  PROVE  StoreOK'
<1>1. /\ PeriodAtSlot(u.slot) \in MapKeys(syncCommitteeByPeriod)
      /\ <<PeriodAtSlot(u.slot) + 1, u.next>> \in Trusted
  BY AcceptedUpdateIsTrusted DEF StoreOK
<1>2. /\ syncCommitteeByPeriod' \in Seq([key : Nat, value : CommitteeStats])
      /\ \/ syncCommitteeByPeriod' = syncCommitteeByPeriod
         \/ /\ Len(syncCommitteeByPeriod') = 2
            /\ \E i \in DOMAIN syncCommitteeByPeriod :
                 /\ syncCommitteeByPeriod[i].key = PeriodAtSlot(u.slot)
                 /\ syncCommitteeByPeriod'[1] = syncCommitteeByPeriod[i]
            /\ syncCommitteeByPeriod'[2]
                 = Entry(PeriodAtSlot(u.slot) + 1, CommitteeEntry(u))
  BY <1>1, UpdatedCache DEF StoreOK
<1>3. CASE syncCommitteeByPeriod' = syncCommitteeByPeriod
  BY <1>3 DEF StoreOK, ConsecutivePeriods, AnchoredTrust, HeadTrusted
<1>4. CASE syncCommitteeByPeriod' # syncCommitteeByPeriod
  <2>1. PICK i \in DOMAIN syncCommitteeByPeriod :
          /\ syncCommitteeByPeriod[i].key = PeriodAtSlot(u.slot)
          /\ syncCommitteeByPeriod'[1] = syncCommitteeByPeriod[i]
    BY <1>2, <1>4
  <2>2. /\ Len(syncCommitteeByPeriod') = 2
        /\ syncCommitteeByPeriod'[2]
             = Entry(PeriodAtSlot(u.slot) + 1, CommitteeEntry(u))
    BY <1>2, <1>4
  <2>3. /\ syncCommitteeByPeriod'[2].key = PeriodAtSlot(u.slot) + 1
        /\ syncCommitteeByPeriod'[2].value.committee = u.next
    BY <2>2 DEF Entry, CommitteeEntry
  <2>4. ConsecutivePeriods'
    BY <2>1, <2>2, <2>3 DEF ConsecutivePeriods, MAX_STORED_SYNC_COMMITTEES
  <2>5. AnchoredTrust'
    <3>1. <<syncCommitteeByPeriod'[1].key, syncCommitteeByPeriod'[1].value.committee>>
            \in Trusted
      BY <2>1 DEF StoreOK, AnchoredTrust
    <3>2. <<syncCommitteeByPeriod'[2].key, syncCommitteeByPeriod'[2].value.committee>>
            \in Trusted
      BY <1>1, <2>3
    <3>3. DOMAIN syncCommitteeByPeriod' = {1, 2}
      BY <1>2, <2>2
    <3> QED BY <3>1, <3>2, <3>3 DEF AnchoredTrust
  <2> QED BY <1>2, <2>4, <2>5 DEF StoreOK, HeadTrusted
<1> QED BY <1>3, <1>4

\* A header update keeps what is stored in order: the head is signed by the
\* cached, hence trusted, committee of its period.
LEMMA ProcessHeaderUpdateOK ==
  ASSUME StoreOK, NEW h \in Headers, ProcessHeaderUpdate(h)
  PROVE  StoreOK'
<1>1. CASE ~AcceptsHeader(h)
  BY <1>1 DEF ProcessHeaderUpdate, StoreOK, ConsecutivePeriods, AnchoredTrust,
              HeadTrusted
<1>2. CASE AcceptsHeader(h)
  <2>1. h \in HeaderType /\ PeriodAtSlot(h.slot) \in Nat /\ h.participation \in Nat
    BY ConstantsAssumption, PeriodInNat DEF HeaderType
  <2>2. maxParticipationByPeriod' \in Seq([key : Nat, value : Nat])
    <3>1. MapSet(maxParticipationByPeriod, PeriodAtSlot(h.slot), h.participation)
            \in Seq([key : Nat, value : Nat])
      BY <2>1, MapSetTyped DEF StoreOK
    <3>2. PruneSetToMax(
            MapSet(maxParticipationByPeriod, PeriodAtSlot(h.slot), h.participation),
            MAX_STORED_PARTICIPATION) \in Seq([key : Nat, value : Nat])
      BY <3>1, PruneTyped DEF MAX_STORED_PARTICIPATION
    <3> QED BY <1>2, <3>2 DEF ProcessHeaderUpdate, RecordParticipation, StoreOK
  <2>3. <<PeriodAtSlot(h.slot), h.signer>> \in Trusted
    <3>1. PICK i \in DOMAIN syncCommitteeByPeriod :
            /\ syncCommitteeByPeriod[i].key = PeriodAtSlot(h.slot)
            /\ MapGet(syncCommitteeByPeriod, PeriodAtSlot(h.slot))
                 = syncCommitteeByPeriod[i].value
      BY <1>2, MapGetIsEntry DEF AcceptsHeader, HasCommittee
    <3>2. CommitteeOf(PeriodAtSlot(h.slot)) = h.signer
      BY <1>2 DEF AcceptsHeader, ValidSignature
    <3> QED BY <3>1, <3>2 DEF StoreOK, AnchoredTrust, CommitteeOf
  <2>4. head' = h \/ head' = head
    BY <1>2 DEF ProcessHeaderUpdate
  <2>5. UNCHANGED syncCommitteeByPeriod
    BY DEF ProcessHeaderUpdate
  <2> QED BY <2>1, <2>2, <2>3, <2>4, <2>5
          DEF StoreOK, ConsecutivePeriods, AnchoredTrust, HeadTrusted
<1> QED BY <1>1, <1>2

\* The states a loop is put into.
LEMMA LoopStates ==
  ASSUME currentSlot \in Slot
  PROVE  /\ Idle \in LoopState
         /\ [Idle EXCEPT !.pc = "retry"] \in LoopState
         /\ [Idle EXCEPT !.pc = "head"] \in LoopState
         /\ Sleeping \in LoopState
         /\ \A purpose \in {"none", "sync", "lookahead"}, from, to \in Nat :
              /\ RequestChunk(purpose, from, to) \in LoopState
              /\ RequestChunk(purpose, from, to).pc = "request"
<1>1. EpochAtSlot(currentSlot) \in Nat
  BY PeriodInNat, ConstantsAssumption DEF Slot
<1>2. \A from, to \in Nat : Smaller(from + MAX_PERIODS_PER_REQUEST - 1, to) \in Nat
  BY ConstantsAssumption DEF Smaller
<1> QED BY <1>1, <1>2 DEF Idle, Sleeping, RequestChunk, LoopState

\* Moving one loop to a state in which it does not sleep.
LEMMA MoveLoop ==
  ASSUME LoopOK, NEW l \in Loops, NEW s \in LoopState, s.pc # "sleep",
         status' = status, loop' = [loop EXCEPT ![l] = s]
  PROVE  LoopOK'
BY DEF LoopOK, SleepersTracked

\* runLoop from its top keeps the loops in order.
LEMMA EnterSyncOK ==
  ASSUME currentSlot \in Slot, head \in HeaderType, LoopOK, NEW l \in Loops,
         EnterSync(l)
  PROVE  LoopOK'
<1>1. /\ PeriodAtSlot(head.slot) \in Nat
      /\ PeriodAtSlot(currentSlot) \in Nat
  BY PeriodInNat, ConstantsAssumption DEF HeaderType, Slot
<1>2. PICK s \in LoopState : /\ s.pc = "request"
                             /\ loop' = [Aborted EXCEPT ![l] = s]
  BY <1>1, LoopStates DEF EnterSync
<1>3. /\ Aborted \in [Loops -> LoopState]
      /\ \A k \in Loops : Aborted[k].pc # "sleep"
  BY LoopStates DEF Aborted, LoopOK, Idle
<1> QED BY <1>2, <1>3 DEF EnterSync, LoopOK, SleepersTracked

\* So does starting to track the head.
LEMMA TrackHeadOK ==
  ASSUME currentSlot \in Slot, LoopOK, NEW l \in Loops, TrackHead(l)
  PROVE  LoopOK'
<1>1. PeriodAtSlot(currentSlot) \in Nat
  BY PeriodInNat, ConstantsAssumption DEF Slot
<1>2. PICK s \in LoopState : loop' = [loop EXCEPT ![l] = s]
  BY <1>1, LoopStates DEF TrackHead
<1> QED BY <1>2 DEF TrackHead, LoopOK, SleepersTracked

\* So does waiting for the next epoch.
LEMMA WaitForEpochOK ==
  ASSUME currentSlot \in Slot, LoopOK, NEW l \in Loops, WaitForEpoch(l)
  PROVE  LoopOK'
<1>1. PICK s \in LoopState : /\ loop' = [loop EXCEPT ![l] = s]
                             /\ status # "started" => s.pc # "sleep"
  BY LoopStates DEF WaitForEpoch, Idle
<1> QED BY <1>1 DEF WaitForEpoch, LoopOK, SleepersTracked

\* The end of a sync, with or without an error, keeps the loops in order.
LEMMA SyncEndOK ==
  ASSUME currentSlot \in Slot, LoopOK, NEW l \in Loops,
         SyncFailed(l) \/ SyncDone(l)
  PROVE  LoopOK'
<1>1. CASE WaitForEpoch(l)
  BY <1>1, WaitForEpochOK
<1>2. CASE /\ UNCHANGED status
           /\ \/ loop' = [loop EXCEPT ![l] = [Idle EXCEPT !.pc = "retry"]]
              \/ loop' = [loop EXCEPT ![l] = [Idle EXCEPT !.pc = "head"]]
  <2>1. PICK s \in LoopState : s.pc # "sleep" /\ loop' = [loop EXCEPT ![l] = s]
    BY <1>2, LoopStates DEF Idle
  <2> QED BY <1>2, <2>1, MoveLoop
<1> QED BY <1>1, <1>2 DEF SyncFailed, SyncDone

\* runLoop from its top, whatever it finds.
LEMMA RunFromOK ==
  ASSUME currentSlot \in Slot, head \in HeaderType, LoopOK, NEW l \in Loops,
         RunFrom(l)
  PROVE  LoopOK'
BY EnterSyncOK, TrackHeadOK DEF RunFrom

\* What is stored does not depend on the clock and the loops.
LEMMA StoreUnchanged ==
  ASSUME StoreOK, UNCHANGED store
  PROVE  StoreOK'
BY DEF StoreOK, store, ConsecutivePeriods, AnchoredTrust, HeadTrusted

\* The invariant implies the types.
LEMMA IInvImpliesTypeOK == IInv => TypeOK
BY DEF IInv, StoreOK, LoopOK, TypeOK

\* A client that was just constructed.
LEMMA InitIInv == Init => IInv
<1> SUFFICES ASSUME Init PROVE IInv
  OBVIOUS
<1>1. currentSlot \in Slot
  BY ConstantsAssumption DEF Init, Slot
<1>2. PeriodAtSlot(SnapshotSlot) \in Nat
  BY PeriodInNat, ConstantsAssumption
<1>3. PeriodAtSlot(SnapshotSlot) * EPOCHS_PER_SYNC_COMMITTEE_PERIOD * SLOTS_PER_EPOCH
        \in Nat
  BY <1>2, ConstantsAssumption
<1>4. SnapshotEntry \in [key : Nat, value : CommitteeStats]
  BY <1>2, <1>3, ConstantsAssumption DEF SnapshotEntry, Entry, CommitteeStats
<1>5. /\ SnapshotEntry.key = PeriodAtSlot(SnapshotSlot)
      /\ SnapshotEntry.value.committee = SnapshotCommittee
  BY DEF SnapshotEntry, Entry
<1>6. StoreOK
  <2>1. /\ syncCommitteeByPeriod \in Seq([key : Nat, value : CommitteeStats])
        /\ Len(syncCommitteeByPeriod) = 1
        /\ syncCommitteeByPeriod[1] = SnapshotEntry
        /\ DOMAIN syncCommitteeByPeriod = {1}
    BY <1>4 DEF Init
  <2>2. maxParticipationByPeriod \in Seq([key : Nat, value : Nat])
    BY DEF Init, EmptyMap
  <2>3. head \in HeaderType /\ HeadTrusted
    BY ConstantsAssumption, TrustAssumption DEF Init, HeaderType, HeadTrusted
  <2>4. AnchoredTrust
    BY <1>5, <2>1, TrustAssumption DEF AnchoredTrust
  <2> QED BY <2>1, <2>2, <2>3, <2>4 DEF StoreOK, ConsecutivePeriods
<1>7. LoopOK
  BY <1>1, LoopStates DEF Init, LoopOK, SleepersTracked, Idle
<1> QED BY <1>1, <1>6, <1>7 DEF IInv

\* Every step keeps the invariant.
LEMMA NextIInv == IInv /\ [Next]_vars => IInv'
<1> SUFFICES ASSUME IInv, [Next]_vars PROVE IInv'
  OBVIOUS
<1>1. currentSlot \in Slot /\ StoreOK /\ LoopOK /\ TypeOK /\ head \in HeaderType
  BY IInvImpliesTypeOK DEF IInv, StoreOK
<1>2. ASSUME NEW l \in Loops, Start(l) PROVE IInv'
  BY <1>1, <1>2, RunFromOK, StoreUnchanged DEF Start, IInv
<1>3. ASSUME NEW l \in Loops, SyncReply(l) PROVE IInv'
  <2>1. loop[l] \in LoopState
    BY <1>1 DEF LoopOK
  <2>2. LoopOK'
    BY <1>1, <1>3, <2>1 DEF SyncReply, LoopOK, LoopState, SleepersTracked
  <2> QED BY <1>1, <1>3, <2>2, StoreUnchanged DEF SyncReply, IInv
<1>4. ASSUME NEW l \in Loops, SyncRequestFails(l) PROVE IInv'
  BY <1>1, <1>4, SyncEndOK, StoreUnchanged DEF SyncRequestFails, IInv
<1>5. ASSUME NEW l \in Loops, NEW u \in Updates, AcceptUpdate(l, u) PROVE IInv'
  <2>1. StoreOK'
    BY <1>1, <1>5, StoreNextCommitteeOK DEF AcceptUpdate
  <2>2. loop[l] \in LoopState /\ loop[l].pc = "process"
    BY <1>1, <1>5 DEF LoopOK, AcceptUpdate
  <2>3. LoopOK'
    BY <1>1, <1>5, <2>2 DEF AcceptUpdate, LoopOK, LoopState, SleepersTracked
  <2> QED BY <1>1, <1>5, <2>1, <2>3 DEF AcceptUpdate, IInv
<1>6. ASSUME NEW l \in Loops, NEW u \in Updates, RejectUpdate(l, u) PROVE IInv'
  BY <1>1, <1>6, SyncEndOK, StoreUnchanged DEF RejectUpdate, IInv
<1>7. ASSUME NEW l \in Loops, NextChunk(l) PROVE IInv'
  <2>1. loop[l] \in LoopState
    BY <1>1 DEF LoopOK
  <2>2. /\ loop[l].purpose \in {"none", "sync", "lookahead"}
        /\ loop[l].chunkEnd + 1 \in Nat
        /\ loop[l].to \in Nat
    BY <2>1 DEF LoopState
  <2>3. PICK s \in LoopState : s.pc = "request" /\ loop' = [loop EXCEPT ![l] = s]
    BY <1>1, <1>7, <2>2, LoopStates DEF NextChunk
  <2> QED BY <1>1, <1>7, <2>3, MoveLoop, StoreUnchanged DEF NextChunk, IInv
<1>8. ASSUME NEW l \in Loops, LastChunkDone(l) PROVE IInv'
  BY <1>1, <1>8, SyncEndOK, StoreUnchanged DEF LastChunkDone, IInv
<1>9. ASSUME NEW l \in Loops, Retry(l) PROVE IInv'
  BY <1>1, <1>9, RunFromOK, StoreUnchanged DEF Retry, IInv
<1>10. ASSUME NEW l \in Loops, NEW h \in Headers, HeadReply(l, h) PROVE IInv'
  BY <1>1, <1>10, TrackHeadOK, ProcessHeaderUpdateOK DEF HeadReply, IInv
<1>11. ASSUME NEW l \in Loops, HeadRequestFails(l) PROVE IInv'
  BY <1>1, <1>11, TrackHeadOK, StoreUnchanged DEF HeadRequestFails, IInv
<1>12. ASSUME NEW l \in Loops, Wake(l) PROVE IInv'
  BY <1>1, <1>12, RunFromOK, StoreUnchanged DEF Wake, IInv
<1>13. CASE Stop
  <2>1. /\ Aborted \in [Loops -> LoopState]
        /\ \A k \in Loops : Aborted[k].pc # "sleep"
    BY <1>1, LoopStates DEF Aborted, LoopOK, Idle
  <2>2. LoopOK'
    BY <1>13, <2>1 DEF Stop, LoopOK, SleepersTracked
  <2> QED BY <1>1, <1>13, <2>2, StoreUnchanged DEF Stop, IInv
<1>14. ASSUME NEW h \in Headers, OnSSE(h) PROVE IInv'
  <2>1. StoreOK'
    BY <1>1, <1>14, ProcessHeaderUpdateOK DEF OnSSE
  <2> QED BY <1>1, <1>14, <2>1 DEF OnSSE, LoopOK, SleepersTracked, IInv
<1>15. CASE Tick
  <2>1. currentSlot' \in Slot
    BY <1>1, <1>15, ConstantsAssumption DEF Tick, Slot
  <2> QED BY <1>1, <1>15, <2>1, StoreUnchanged
          DEF Tick, LoopOK, SleepersTracked, IInv
<1>16. CASE UNCHANGED vars
  BY <1>1, <1>16, StoreUnchanged
     DEF vars, store, LoopOK, SleepersTracked, IInv
<1> QED BY <1>2, <1>3, <1>4, <1>5, <1>6, <1>7, <1>8, <1>9, <1>10, <1>11, <1>12,
           <1>13, <1>14, <1>15, <1>16 DEF Next, RunLoop

\* The inductive invariant holds in every reachable state.
THEOREM Invariance == Spec => []IInv
BY InitIInv, NextIInv, PTL DEF Spec

\* The fields of Lightclient and the locals of its loops have their types.
THEOREM TypeCorrect == Spec => []TypeOK
BY Invariance, IInvImpliesTypeOK, PTL

\* syncCommitteeByPeriod holds one period or two consecutive ones.
THEOREM CacheIsConsecutive == Spec => []ConsecutivePeriods
<1>1. IInv => ConsecutivePeriods
  BY DEF IInv, StoreOK
<1> QED BY <1>1, Invariance, PTL

\* No committee enters syncCommitteeByPeriod that is not linked to the snapshot
\* by valid updates, whatever a server sends and however many loops run.
THEOREM OnlyTrusted == Spec => []AnchoredTrust
<1>1. IInv => AnchoredTrust
  BY DEF IInv, StoreOK
<1> QED BY <1>1, Invariance, PTL

\* The head is signed by such a committee, also when the committee has left
\* the cache since.
THEOREM HeadIsTrusted == Spec => []HeadTrusted
<1>1. IInv => HeadTrusted
  BY DEF IInv, StoreOK
<1> QED BY <1>1, Invariance, PTL

\* Only the loops of a started client sleep.
THEOREM SleepersAreTracked == Spec => []SleepersTracked
<1>1. IInv => SleepersTracked
  BY DEF IInv, LoopOK
<1> QED BY <1>1, Invariance, PTL

\* The keys of the cache are natural numbers.
LEMMA PeriodsInNat ==
  ASSUME TypeOK
  PROVE  \A i \in DOMAIN syncCommitteeByPeriod : syncCommitteeByPeriod[i].key \in Nat
<1> DEFINE E == [key : Nat, value : CommitteeStats]
<1>1. syncCommitteeByPeriod \in Seq(E) /\ \A e \in E : e.key \in Nat
  BY DEF TypeOK
<1>2. \A i \in DOMAIN syncCommitteeByPeriod : syncCommitteeByPeriod[i] \in E
  <2> HIDE DEF E
  <2> QED BY <1>1
<1> QED BY <1>1, <1>2

\* No cached period is below the first one.
LEMMA FirstPeriodIsLeast ==
  ASSUME TypeOK, ConsecutivePeriods
  PROVE  /\ syncCommitteeByPeriod[1].key \in Nat
         /\ \A i \in DOMAIN syncCommitteeByPeriod :
              syncCommitteeByPeriod[i].key >= syncCommitteeByPeriod[1].key
<1> DEFINE E == [key : Nat, value : CommitteeStats]
<1>1. syncCommitteeByPeriod \in Seq(E)
  BY DEF TypeOK
<1>2. \/ DOMAIN syncCommitteeByPeriod = {1}
      \/ /\ DOMAIN syncCommitteeByPeriod = {1, 2}
         /\ syncCommitteeByPeriod[2].key = syncCommitteeByPeriod[1].key + 1
  <2> HIDE DEF E
  <2> QED BY <1>1 DEF ConsecutivePeriods, MAX_STORED_SYNC_COMMITTEES
<1> QED BY <1>2, PeriodsInNat

\* An update that is accepted leaves no period below the first cached one.
LEMMA UpdateKeepsPeriods ==
  ASSUME TypeOK, ConsecutivePeriods, NEW u \in Updates, AcceptsUpdate(u),
         StoreNextCommittee(u), NEW period \in MapKeys(syncCommitteeByPeriod')
  PROVE  period >= syncCommitteeByPeriod[1].key
<1>1. PeriodAtSlot(u.slot) \in MapKeys(syncCommitteeByPeriod)
  BY DEF AcceptsUpdate, HasCommittee
<1>2. CASE syncCommitteeByPeriod' = syncCommitteeByPeriod
  BY <1>2, FirstPeriodIsLeast DEF MapKeys
<1>3. CASE syncCommitteeByPeriod' # syncCommitteeByPeriod
  <2>1. PICK i \in DOMAIN syncCommitteeByPeriod :
          /\ syncCommitteeByPeriod[i].key = PeriodAtSlot(u.slot)
          /\ syncCommitteeByPeriod'[1] = syncCommitteeByPeriod[i]
    BY <1>1, <1>3, UpdatedCache
  <2>2. /\ syncCommitteeByPeriod' \in Seq([key : Nat, value : CommitteeStats])
        /\ Len(syncCommitteeByPeriod') = 2
        /\ syncCommitteeByPeriod'[2]
             = Entry(PeriodAtSlot(u.slot) + 1, CommitteeEntry(u))
    BY <1>1, <1>3, UpdatedCache
  <2>3. DOMAIN syncCommitteeByPeriod' = {1, 2}
    BY <2>2
  <2>4. \/ period = syncCommitteeByPeriod[i].key
        \/ period = syncCommitteeByPeriod[i].key + 1
    BY <2>1, <2>2, <2>3 DEF MapKeys, Entry
  <2>5. /\ syncCommitteeByPeriod[i].key \in Nat
        /\ syncCommitteeByPeriod[1].key \in Nat
        /\ syncCommitteeByPeriod[i].key >= syncCommitteeByPeriod[1].key
    BY PeriodsInNat, FirstPeriodIsLeast
  <2> QED BY <2>4, <2>5
<1> QED BY <1>2, <1>3

\* Must not rollback periods: no step of any loop, whatever a server sends,
\* puts a committee into syncCommitteeByPeriod that is older than the oldest
\* one there.
THEOREM PeriodsNeverRollBack == Spec => NoRollback
<1>1. IInv /\ [Next]_vars
        => [\A period \in MapKeys(syncCommitteeByPeriod') :
              period >= syncCommitteeByPeriod[1].key]_vars
  <2> SUFFICES ASSUME IInv, Next, NEW period \in MapKeys(syncCommitteeByPeriod')
               PROVE  period >= syncCommitteeByPeriod[1].key
    OBVIOUS
  <2>1. TypeOK /\ ConsecutivePeriods
    BY IInvImpliesTypeOK DEF IInv, StoreOK
  <2>2. ASSUME NEW l \in Loops, NEW u \in Updates, AcceptUpdate(l, u)
        PROVE  period >= syncCommitteeByPeriod[1].key
    BY <2>1, <2>2, UpdateKeepsPeriods DEF AcceptUpdate
  <2>3. ASSUME syncCommitteeByPeriod' = syncCommitteeByPeriod
        PROVE  period >= syncCommitteeByPeriod[1].key
    BY <2>1, <2>3, FirstPeriodIsLeast DEF MapKeys
  <2>4. \/ syncCommitteeByPeriod' = syncCommitteeByPeriod
        \/ \E l \in Loops, u \in Updates : AcceptUpdate(l, u)
    BY DEF Next, RunLoop, Start, SyncReply, SyncRequestFails, RejectUpdate,
           NextChunk, LastChunkDone, Retry, HeadReply, HeadRequestFails, Wake,
           Stop, OnSSE, Tick, store, ProcessHeaderUpdate
  <2> QED BY <2>2, <2>3, <2>4
<1> QED BY <1>1, Invariance, PTL DEF Spec, NoRollback

-----------------------------------------------------------------------------
(* The head *)

\* No cached period is more than one below the period of the head.
CacheFollowsHead ==
  \A i \in DOMAIN syncCommitteeByPeriod :
    syncCommitteeByPeriod[i].key >= PeriodAtSlot(head.slot) - 1

\* A record of at most three periods, none after the head's, in which what was
\* inserted after a period is at most one period older.
KeysInOrder(m, top) ==
  /\ Len(m) <= MAX_STORED_PARTICIPATION
  /\ \A i \in DOMAIN m : m[i].key <= top
  /\ \A i, j \in DOMAIN m :
       i < j => m[i].key # m[j].key /\ m[j].key >= m[i].key - 1

ParticipationInOrder ==
  KeysInOrder(maxParticipationByPeriod, PeriodAtSlot(head.slot))

\* The participation of the head is on record.
HeadIsRecorded ==
  head.participation <= RecentParticipation(PeriodAtSlot(head.slot))

HeadInv == CacheFollowsHead /\ ParticipationInOrder /\ HeadIsRecorded

(* The record, for any map *)

\* Some entry of the period or the one before it has at least this participation.
Covered(m, period, participation) ==
  \/ participation = 0
  \/ \E i \in DOMAIN m : /\ m[i].key \in {period, period - 1}
                         /\ m[i].value >= participation

Recorded(m, k, v) == PruneSetToMax(MapSet(m, k, v), MAX_STORED_PARTICIPATION)

ParticipationEntry == [key : Nat, value : Nat]

\* The fields of an entry of the record.
LEMMA ParticipationFields ==
  /\ \A e \in ParticipationEntry : e.key \in Nat /\ e.value \in Nat
  /\ \A k, v \in Nat : /\ Entry(k, v) \in ParticipationEntry
                       /\ Entry(k, v).key = k
                       /\ Entry(k, v).value = v
BY DEF ParticipationEntry, Entry

\* More than one period is kept.
LEMMA KeepsTwo == MAX_STORED_PARTICIPATION \in Nat /\ MAX_STORED_PARTICIPATION >= 2
BY DEF MAX_STORED_PARTICIPATION

\* Recording keeps the type of the record.
LEMMA RecordedTyped ==
  ASSUME NEW m \in Seq(ParticipationEntry), NEW k \in Nat, NEW v \in Nat
  PROVE  Recorded(m, k, v) \in Seq(ParticipationEntry)
<1>1. MapSet(m, k, v) \in Seq([key : Nat, value : Nat])
  BY MapSetTyped DEF ParticipationEntry
<1>2. MapSet(m, k, v) \in Seq(ParticipationEntry)
  BY <1>1 DEF ParticipationEntry
<1> QED BY <1>2, PruneTyped, KeepsTwo DEF Recorded

\* Recording a period that is known changes its value and nothing else.
LEMMA RecordKnown ==
  ASSUME NEW m \in Seq(ParticipationEntry), NEW k \in Nat, NEW v \in Nat,
         Len(m) <= MAX_STORED_PARTICIPATION, k \in MapKeys(m)
  PROVE  /\ Len(Recorded(m, k, v)) = Len(m)
         /\ DOMAIN Recorded(m, k, v) = DOMAIN m
         /\ \A i \in DOMAIN m :
              /\ Recorded(m, k, v)[i].key = m[i].key
              /\ m[i].key = k => Recorded(m, k, v)[i].value = v
              /\ m[i].key # k => Recorded(m, k, v)[i] = m[i]
<1>1. /\ Len(Recorded(m, k, v)) = Len(m)
      /\ \A i \in 1..Len(m) :
           Recorded(m, k, v)[i] = IF m[i].key = k THEN Entry(k, v) ELSE m[i]
  BY SetKnownKey, KeepsTwo DEF Recorded
<1>2. /\ DOMAIN m = 1..Len(m)
      /\ DOMAIN Recorded(m, k, v) = 1..Len(Recorded(m, k, v))
  BY RecordedTyped
<1> QED BY <1>1, <1>2, ParticipationFields

\* An entry that comes last, after all the others or all but the first.
IsAppended(new, m, e) ==
  \E d \in {0, 1} :
    /\ d = 1 <=> Len(m) = MAX_STORED_PARTICIPATION
    /\ Len(new) = Len(m) + 1 - d
    /\ DOMAIN new = 1..(Len(m) + 1 - d)
    /\ \A i \in 1..(Len(m) - d) : i + d \in DOMAIN m /\ new[i] = m[i + d]
    /\ Len(m) + 1 - d \in DOMAIN new
    /\ new[Len(m) + 1 - d] = e

HasEntry(m, k, v) == \E i \in DOMAIN m : m[i].key = k /\ m[i].value = v

\* A period that is not known comes last.
LEMMA RecordNew ==
  ASSUME NEW m \in Seq(ParticipationEntry), NEW k \in Nat, NEW v \in Nat,
         Len(m) <= MAX_STORED_PARTICIPATION, k \notin MapKeys(m)
  PROVE  IsAppended(Recorded(m, k, v), m, Entry(k, v))
<1> DEFINE n == MAX_STORED_PARTICIPATION
           new == Recorded(m, k, v)
           e == Entry(k, v)
           size == Len(m)
<1>1. n \in Nat \ {0} /\ n >= 2
  BY KeepsTwo
<1>2. PICK d \in {0, 1} :
        /\ d = 1 <=> size = n
        /\ Len(new) = size + 1 - d
        /\ \A i \in 1..(size - d) : new[i] = m[i + d]
        /\ new[size + 1 - d] = e
  <2>1. e \in ParticipationEntry
    BY ParticipationFields
  <2> HIDE DEF n
  <2> QED BY <1>1, <2>1, SetNewKey DEF Recorded, n
<1>3. /\ size \in Nat
      /\ DOMAIN m = 1..size
      /\ DOMAIN new = 1..Len(new)
  <2>1. new \in Seq(ParticipationEntry)
    BY RecordedTyped
  <2> HIDE DEF new
  <2> QED BY <2>1
<1> HIDE DEF new, size, e, n
<1>4. /\ d = 1 <=> size = n
      /\ Len(new) = size + 1 - d
      /\ DOMAIN new = 1..(size + 1 - d)
      /\ \A i \in 1..(size - d) : i + d \in DOMAIN m /\ new[i] = m[i + d]
      /\ size + 1 - d \in DOMAIN new
      /\ new[size + 1 - d] = e
  BY <1>1, <1>2, <1>3
<1> QED BY <1>4 DEF new, size, e, n, IsAppended

\* Recording a period that is not below the head's by more than one.
LEMMA RecordedInOrder ==
  ASSUME NEW m \in Seq(ParticipationEntry), NEW top \in Nat, NEW k \in Nat,
         NEW v \in Nat, KeysInOrder(m, top), k >= top - 1, NEW newTop \in Nat,
         k <= newTop, top <= newTop
  PROVE  KeysInOrder(Recorded(m, k, v), newTop)
<1> DEFINE new == Recorded(m, k, v)
<1>1. Len(m) <= MAX_STORED_PARTICIPATION
  BY DEF KeysInOrder
<1>2. \A i \in DOMAIN m : m[i].key \in Nat /\ m[i].key <= top
  BY ParticipationFields DEF KeysInOrder
<1>3. CASE k \in MapKeys(m)
  <2>1. /\ Len(new) = Len(m)
        /\ DOMAIN new = DOMAIN m
        /\ \A i \in DOMAIN m : new[i].key = m[i].key
    BY <1>1, <1>3, RecordKnown
  <2>2. \A i \in DOMAIN new : new[i].key <= newTop
    BY <1>2, <2>1
  <2> QED BY <2>1, <2>2 DEF KeysInOrder
<1>4. CASE k \notin MapKeys(m)
  <2> DEFINE size == Len(m)
  <2>1. size \in Nat /\ DOMAIN m = 1..size
    OBVIOUS
  <2>2. PICK d \in {0, 1} :
           /\ d = 1 <=> size = MAX_STORED_PARTICIPATION
           /\ Len(new) = size + 1 - d
           /\ DOMAIN new = 1..(size + 1 - d)
           /\ \A i \in 1..(size - d) : i + d \in DOMAIN m /\ new[i] = m[i + d]
           /\ new[size + 1 - d] = Entry(k, v)
    <3>1. IsAppended(new, m, Entry(k, v))
      BY <1>1, <1>4, RecordNew
    <3> HIDE DEF new
    <3> QED BY <3>1 DEF IsAppended
  <2> HIDE DEF new, size
  <2>3. new[size + 1 - d].key = k
    BY <2>2, ParticipationFields
  <2>4. Len(new) <= MAX_STORED_PARTICIPATION
    <3>1. size <= MAX_STORED_PARTICIPATION
      BY <1>1 DEF size
    <3> QED BY <2>1, <2>2, <3>1, KeepsTwo
  <2>5. \A i \in DOMAIN m : m[i].key # k
    BY <1>4 DEF MapKeys
  <2>6. \A i \in DOMAIN new : i \in 1..(size - d) \/ i = size + 1 - d
    BY <2>1, <2>2
  <2>7. \A i \in DOMAIN new : new[i].key <= newTop
    BY <1>2, <2>2, <2>3, <2>6
  <2>8. ASSUME NEW i \in DOMAIN new, NEW j \in DOMAIN new, i < j
        PROVE  new[i].key # new[j].key /\ new[j].key >= new[i].key - 1
    <3>1. i \in 1..(size - d)
      BY <2>1, <2>2, <2>8
    <3>2. CASE j = size + 1 - d
      <4>1. /\ new[i].key \in Nat /\ new[i].key <= top
            /\ new[i].key # k
        BY <1>2, <2>2, <2>5, <3>1
      <4> QED BY <2>3, <3>2, <4>1
    <3>3. CASE j \in 1..(size - d)
      <4>1. i + d < j + d
        BY <2>1, <2>8, <3>1, <3>3
      <4>2. i + d \in DOMAIN m /\ j + d \in DOMAIN m
        BY <2>2, <3>1, <3>3
      <4>3. m[i + d].key # m[j + d].key /\ m[j + d].key >= m[i + d].key - 1
        BY <4>1, <4>2 DEF KeysInOrder
      <4> QED BY <2>2, <3>1, <3>3, <4>3
    <3> QED BY <2>6, <3>2, <3>3
  <2> QED BY <2>4, <2>7, <2>8 DEF KeysInOrder, new
<1> QED BY <1>3, <1>4

\* The new entry is there.
LEMMA RecordedIsThere ==
  ASSUME NEW m \in Seq(ParticipationEntry), NEW k \in Nat, NEW v \in Nat,
         Len(m) <= MAX_STORED_PARTICIPATION
  PROVE  HasEntry(Recorded(m, k, v), k, v)
<1> DEFINE new == Recorded(m, k, v)
<1>1. CASE k \in MapKeys(m)
  <2>1. PICK i \in DOMAIN m : m[i].key = k
    BY <1>1 DEF MapKeys
  <2>2. i \in DOMAIN new /\ new[i].key = k /\ new[i].value = v
    BY <1>1, <2>1, RecordKnown
  <2> QED BY <2>2 DEF HasEntry
<1>2. CASE k \notin MapKeys(m)
  <2>1. PICK i \in DOMAIN new : new[i] = Entry(k, v)
    <3>1. IsAppended(new, m, Entry(k, v))
      BY <1>2, RecordNew
    <3> HIDE DEF new
    <3>2. PICK d \in {0, 1} : /\ Len(m) + 1 - d \in DOMAIN new
                              /\ new[Len(m) + 1 - d] = Entry(k, v)
      BY <3>1 DEF IsAppended
    <3> QED BY <3>2
  <2> QED BY <2>1, ParticipationFields DEF HasEntry
<1> QED BY <1>1, <1>2

\* What covers the head stays: it is the new entry, an entry whose value grows,
\* or one that at most the period before was inserted after.
LEMMA RecordedCovers ==
  ASSUME NEW m \in Seq(ParticipationEntry), NEW top \in Nat, NEW k \in Nat,
         NEW v \in Nat, NEW w \in Nat, KeysInOrder(m, top), Covered(m, top, w),
         k \in {top, top - 1}, k = top => v >= w,
         \A i \in DOMAIN m : m[i].key = k => v >= m[i].value
  PROVE  Covered(Recorded(m, k, v), top, w)
<1> DEFINE new == Recorded(m, k, v)
<1>1. Len(m) <= MAX_STORED_PARTICIPATION
  BY DEF KeysInOrder
<1>2. CASE k = top \/ w = 0
  <2>1. PICK i \in DOMAIN new : new[i].key = k /\ new[i].value = v
    <3>1. HasEntry(new, k, v)
      BY <1>1, RecordedIsThere
    <3> QED BY <3>1 DEF HasEntry
  <2> QED BY <1>2, <2>1 DEF Covered
<1>3. CASE k = top - 1 /\ w # 0
  <2>1. PICK c \in DOMAIN m : m[c].key \in {top, top - 1} /\ m[c].value >= w
    BY <1>3 DEF Covered
  <2>2. m[c].value \in Nat
    BY ParticipationFields
  <2>3. CASE k \in MapKeys(m)
    <3>1. /\ c \in DOMAIN new
          /\ new[c].key = m[c].key
          /\ new[c].value >= w
      BY <1>1, <2>1, <2>2, <2>3, RecordKnown
    <3> QED BY <2>1, <3>1 DEF Covered
  <2>4. CASE k \notin MapKeys(m)
    <3> DEFINE size == Len(m)
    <3>1. size \in Nat /\ DOMAIN m = 1..size
      OBVIOUS
    <3>2. PICK d \in {0, 1} :
             /\ d = 1 <=> size = MAX_STORED_PARTICIPATION
             /\ DOMAIN new = 1..(size + 1 - d)
             /\ \A i \in 1..(size - d) : i + d \in DOMAIN m /\ new[i] = m[i + d]
      <4>1. IsAppended(new, m, Entry(k, v))
        BY <1>1, <2>4, RecordNew
      <4> HIDE DEF new
      <4> QED BY <4>1 DEF IsAppended
    <3> HIDE DEF new, size
    <3>3. m[c].key = top
      BY <1>3, <2>1, <2>4 DEF MapKeys
    <3>4. ~(d = 1 /\ c = 1)
      <4> SUFFICES ASSUME d = 1, c = 1 PROVE FALSE
        OBVIOUS
      <4>1. 1 \in DOMAIN m /\ 2 \in DOMAIN m
        BY <3>1, <3>2, KeepsTwo
      <4>2. m[2].key \in Nat /\ m[2].key <= top /\ m[2].key # k
        BY <2>4, <4>1, ParticipationFields DEF KeysInOrder, MapKeys
      <4>3. m[2].key >= top - 1 /\ m[2].key # top
        BY <3>3, <4>1 DEF KeysInOrder
      <4> QED BY <1>3, <4>2, <4>3
    <3>5. c - d \in DOMAIN new /\ c - d \in 1..(size - d)
      BY <3>1, <3>2, <3>4
    <3>6. new[c - d] = m[c]
      BY <3>1, <3>2, <3>5
    <3> QED BY <2>1, <3>3, <3>5, <3>6 DEF Covered, new
  <2> QED BY <2>3, <2>4
<1> QED BY <1>2, <1>3

\* MaxParticipation and RecentParticipation of any map.
Known(m, period) == IF period \in MapKeys(m) THEN MapGet(m, period) ELSE 0

Recent(m, period) == Larger(Known(m, period), Known(m, period - 1))

\* They are what they are called after.
LEMMA RecentOfMap ==
  \A period : RecentParticipation(period) = Recent(maxParticipationByPeriod, period)
BY DEF RecentParticipation, MaxParticipation, Recent, Known

\* What the recent participation of a period is at least.
LEMMA RecentIsCover ==
  ASSUME NEW m \in Seq(ParticipationEntry), NEW top, KeysInOrder(m, top),
         NEW period \in Nat, NEW w \in Nat
  PROVE  /\ w <= Recent(m, period) <=> Covered(m, period, w)
         /\ Recent(m, period) \in Nat
         /\ \A i \in DOMAIN m : m[i].key = period => m[i].value <= Recent(m, period)
<1>1. \A i \in DOMAIN m : m[i].key \in Nat /\ m[i].value \in Nat
  BY ParticipationFields
<1>2. \A i, j \in DOMAIN m : m[i].key = m[j].key => i = j
  <2>1. DOMAIN m \subseteq Nat
    OBVIOUS
  <2> QED BY <2>1 DEF KeysInOrder
<1>3. \A k : /\ k \in MapKeys(m) => \E i \in DOMAIN m : /\ m[i].key = k
                                                       /\ Known(m, k) = m[i].value
             /\ k \notin MapKeys(m) => Known(m, k) = 0
  BY MapGetIsEntry DEF Known
<1>4. \A i \in DOMAIN m : Known(m, m[i].key) = m[i].value
  <2>1. \A i \in DOMAIN m : m[i].key \in MapKeys(m)
    BY DEF MapKeys
  <2> QED BY <1>2, <1>3, <2>1
<1>5. \A k : Known(m, k) \in Nat
  BY <1>1, <1>3
<1> DEFINE a == Known(m, period)
           b == Known(m, period - 1)
<1>6. a \in Nat /\ b \in Nat /\ Recent(m, period) = IF a >= b THEN a ELSE b
  BY <1>5 DEF Recent, Larger
<1>7. ASSUME w <= Recent(m, period)
      PROVE  Covered(m, period, w)
  <2>1. w <= a \/ w <= b
    BY <1>6, <1>7
  <2>2. ASSUME NEW k, k \in {period, period - 1}, w <= Known(m, k), w # 0
        PROVE  Covered(m, period, w)
    <3>1. k \in MapKeys(m)
      BY <1>3, <2>2
    <3>2. PICK i \in DOMAIN m : m[i].key = k /\ Known(m, k) = m[i].value
      BY <1>3, <3>1
    <3> QED BY <1>1, <2>2, <3>2 DEF Covered
  <2> QED BY <2>1, <2>2 DEF Covered
<1>8. ASSUME Covered(m, period, w)
      PROVE  w <= Recent(m, period)
  <2>1. CASE w = 0
    BY <1>6, <2>1
  <2>2. CASE w # 0
    <3>1. PICK i \in DOMAIN m : m[i].key \in {period, period - 1} /\ m[i].value >= w
      BY <1>8, <2>2 DEF Covered
    <3>2. Known(m, m[i].key) >= w
      BY <1>4, <3>1
    <3>3. a >= w \/ b >= w
      BY <3>1, <3>2
    <3> QED BY <1>6, <3>3
  <2> QED BY <2>1, <2>2
<1>9. \A i \in DOMAIN m : m[i].key = period => m[i].value <= Recent(m, period)
  BY <1>4, <1>6
<1> QED BY <1>6, <1>7, <1>8, <1>9

\* A quotient grows with its dividend.
LEMMA QuotientMonotone ==
  ASSUME NEW a \in Nat, NEW b \in Nat, NEW c \in Nat \ {0}, a <= b
  PROVE  a \div c <= b \div c
<1> DEFINE q == a \div c
           r == b \div c
<1>1. q \in Nat /\ r \in Nat
  BY QuotientInNat
<1>2. c * q <= a /\ b < c * r + c
  OBVIOUS
<1> HIDE DEF q, r
<1>3. c * q < c * (r + 1)
  BY <1>1, <1>2
<1>4. ASSUME q >= r + 1 PROVE FALSE
  <2>1. PICK d \in Nat : q = (r + 1) + d
    <3>1. q - (r + 1) \in Nat
      BY <1>1, <1>4
    <3> QED BY <1>1, <3>1
  <2>2. c * q = c * (r + 1) + c * d
    BY <1>1, <2>1
  <2>3. c * d >= 0
    BY <2>1
  <2> QED BY <1>1, <1>3, <2>2, <2>3
<1>5. q <= r
  BY <1>1, <1>4
<1> QED BY <1>5 DEF q, r

\* The period of a later slot is not earlier.
LEMMA PeriodMonotone ==
  ASSUME NEW a \in Nat, NEW b \in Nat, a <= b
  PROVE  PeriodAtSlot(a) <= PeriodAtSlot(b)
<1>1. /\ EpochAtSlot(a) \in Nat
      /\ EpochAtSlot(b) \in Nat
      /\ EpochAtSlot(a) <= EpochAtSlot(b)
  BY QuotientMonotone, PeriodInNat, ConstantsAssumption DEF EpochAtSlot
<1> QED BY <1>1, QuotientMonotone, ConstantsAssumption DEF PeriodAtSlot, PeriodAtEpoch

\* A header update keeps the recorded participation above the head's.
LEMMA ProcessHeaderUpdateHeadInv ==
  ASSUME IInv, HeadInv, NEW h \in Headers, ProcessHeaderUpdate(h)
  PROVE  HeadInv'
<1> DEFINE m == maxParticipationByPeriod
           top == PeriodAtSlot(head.slot)
           period == PeriodAtSlot(h.slot)
           set == Recorded(m, period, h.participation)
<1>1. /\ TypeOK
      /\ m \in Seq(ParticipationEntry)
      /\ head.slot \in Nat /\ head.participation \in Nat
      /\ h.slot \in Nat /\ h.participation \in Nat
      /\ top \in Nat /\ period \in Nat
  BY IInvImpliesTypeOK, ConstantsAssumption, PeriodInNat DEF TypeOK, HeaderType, ParticipationEntry
<1>2. KeysInOrder(m, top)
  BY DEF HeadInv, ParticipationInOrder, KeysInOrder
<1>3. Covered(m, top, head.participation)
  BY <1>1, <1>2, RecentIsCover, RecentOfMap DEF HeadInv, HeadIsRecorded
<1>4. CASE ~AcceptsHeader(h)
  BY <1>4 DEF ProcessHeaderUpdate, HeadInv, CacheFollowsHead, ParticipationInOrder,
              HeadIsRecorded, RecentParticipation, MaxParticipation
<1>5. CASE AcceptsHeader(h)
  <2>1. /\ syncCommitteeByPeriod' = syncCommitteeByPeriod
        /\ head' = IF ImprovesHead(h) THEN h ELSE head
        /\ m' = IF h.participation > Recent(m, period) THEN set ELSE m
    BY <1>5, RecentOfMap DEF ProcessHeaderUpdate, RecordParticipation, Recorded
  <2>2. period \in MapKeys(syncCommitteeByPeriod)
    BY <1>5 DEF AcceptsHeader, HasCommittee
  <2>3. period >= top - 1
    BY <2>2 DEF HeadInv, CacheFollowsHead, MapKeys
  <2>4. \A i \in DOMAIN syncCommitteeByPeriod :
          /\ syncCommitteeByPeriod[i].key \in Nat
          /\ syncCommitteeByPeriod[i].key >= period - 1
    <3>1. ConsecutivePeriods
      BY DEF IInv, StoreOK
    <3>2. \A i \in DOMAIN syncCommitteeByPeriod : syncCommitteeByPeriod[i].key \in Nat
      BY <1>1, PeriodsInNat
    <3>3. \/ DOMAIN syncCommitteeByPeriod = {1}
          \/ /\ DOMAIN syncCommitteeByPeriod = {1, 2}
             /\ syncCommitteeByPeriod[2].key = syncCommitteeByPeriod[1].key + 1
      <4>1. syncCommitteeByPeriod \in Seq([key : Nat, value : CommitteeStats])
        BY <1>1 DEF TypeOK
      <4> DEFINE E == [key : Nat, value : CommitteeStats]
      <4> HIDE DEF E
      <4>2. syncCommitteeByPeriod \in Seq(E)
        BY <4>1 DEF E
      <4> QED BY <3>1, <4>2 DEF ConsecutivePeriods, MAX_STORED_SYNC_COMMITTEES
    <3> QED BY <2>2, <3>2, <3>3 DEF MapKeys
  <2> DEFINE newTop == PeriodAtSlot(head'.slot)
  <2>5. /\ newTop \in Nat
        /\ top <= newTop
        /\ period <= newTop
        /\ ImprovesHead(h) => newTop = period
        /\ ~ImprovesHead(h) => newTop = top /\ head' = head
    <3>1. CASE ImprovesHead(h)
      BY <1>1, <2>1, <3>1, PeriodMonotone DEF ImprovesHead
    <3>2. CASE ~ImprovesHead(h)
      BY <1>1, <2>1, <3>2, PeriodMonotone DEF ImprovesHead
    <3> QED BY <3>1, <3>2
  <2>6. CacheFollowsHead'
    <3>1. \A i \in DOMAIN syncCommitteeByPeriod :
            syncCommitteeByPeriod[i].key >= newTop - 1
      BY <2>4, <2>5 DEF HeadInv, CacheFollowsHead
    <3> QED BY <2>1, <3>1 DEF CacheFollowsHead
  <2>7. /\ KeysInOrder(set, newTop)
        /\ set \in Seq(ParticipationEntry)
    <3> HIDE DEF top, period, newTop
    <3> QED BY <1>1, <1>2, <2>3, <2>5, RecordedInOrder, RecordedTyped
  <2>8. KeysInOrder(m, newTop)
    <3>1. \A i \in DOMAIN m : m[i].key \in Nat
      BY <1>1, ParticipationFields
    <3> QED BY <1>1, <1>2, <2>5, <3>1 DEF KeysInOrder
  <2>9. KeysInOrder(m', newTop) /\ m' \in Seq(ParticipationEntry)
    BY <1>1, <2>1, <2>7, <2>8
  <2>10. Covered(m', newTop, head'.participation)
    <3>1. Recent(m, period) \in Nat
      BY <1>1, <1>2, RecentIsCover
    <3>2. CASE h.participation > Recent(m, period) /\ ImprovesHead(h)
      <4>1. PICK i \in DOMAIN set : set[i].key = period /\ set[i].value = h.participation
        <5>1. HasEntry(set, period, h.participation)
          BY <1>1, <1>2, RecordedIsThere DEF KeysInOrder
        <5> QED BY <5>1 DEF HasEntry
      <4> QED BY <1>1, <2>1, <2>5, <3>2, <4>1 DEF Covered
    <3>3. CASE ~(h.participation > Recent(m, period)) /\ ImprovesHead(h)
      <4>1. Covered(m, period, h.participation)
        BY <1>1, <1>2, <3>1, <3>3, RecentIsCover
      <4> QED BY <2>1, <2>5, <3>3, <4>1
    <3>4. CASE h.participation > Recent(m, period) /\ ~ImprovesHead(h)
      <4>1. period \in {top, top - 1}
        BY <1>1, <2>3, <2>5, <3>4
      <4>2. period = top => h.participation >= head.participation
        BY <1>1, <3>1, <3>4, RecentOfMap DEF HeadInv, HeadIsRecorded
      <4>3. \A i \in DOMAIN m : m[i].key = period => h.participation >= m[i].value
        <5>1. \A i \in DOMAIN m : m[i].value \in Nat
          BY <1>1, ParticipationFields
        <5>2. \A i \in DOMAIN m : m[i].key = period
                                    => m[i].value <= Recent(m, period)
          BY <1>1, <1>2, RecentIsCover
        <5> QED BY <1>1, <3>1, <3>4, <5>1, <5>2
      <4>4. Covered(set, top, head.participation)
        <5> HIDE DEF top, period, m
        <5> QED BY <1>1, <1>2, <1>3, <4>1, <4>2, <4>3, RecordedCovers
      <4> QED BY <2>1, <2>5, <3>4, <4>4
    <3>5. CASE ~(h.participation > Recent(m, period)) /\ ~ImprovesHead(h)
      BY <1>3, <2>1, <2>5, <3>5
    <3> QED BY <3>2, <3>3, <3>4, <3>5
  <2>11. ParticipationInOrder'
    BY <2>9 DEF KeysInOrder, ParticipationInOrder
  <2>12. HeadIsRecorded'
    <3>1. head'.participation \in Nat
      BY <1>1, <2>1
    <3>2. head'.participation <= Recent(m', newTop)
      BY <2>5, <2>9, <2>10, <3>1, RecentIsCover
    <3> QED BY <3>2 DEF HeadIsRecorded, RecentParticipation, MaxParticipation, Recent, Known
  <2> QED BY <2>6, <2>11, <2>12 DEF HeadInv
<1> QED BY <1>4, <1>5

\* A new committee is not for a period before the oldest cached one.
LEMMA StoreNextCommitteeHeadInv ==
  ASSUME IInv, HeadInv, NEW u \in Updates, AcceptsUpdate(u), StoreNextCommittee(u),
         UNCHANGED <<maxParticipationByPeriod, head>>
  PROVE  HeadInv'
<1>1. /\ TypeOK /\ ConsecutivePeriods
      /\ PeriodAtSlot(head.slot) \in Nat
  BY IInvImpliesTypeOK, PeriodInNat DEF IInv, StoreOK, TypeOK, HeaderType
<1>2. PeriodAtSlot(u.slot) \in MapKeys(syncCommitteeByPeriod)
  BY DEF AcceptsUpdate, HasCommittee
<1>3. /\ 1 \in DOMAIN syncCommitteeByPeriod
      /\ syncCommitteeByPeriod[1].key \in Nat
  <2>1. 1 \in DOMAIN syncCommitteeByPeriod
    <3> DEFINE E == [key : Nat, value : CommitteeStats]
    <3>1. syncCommitteeByPeriod \in Seq(E)
      BY <1>1 DEF TypeOK
    <3> HIDE DEF E
    <3> QED BY <1>1, <3>1 DEF ConsecutivePeriods, MAX_STORED_SYNC_COMMITTEES
  <2> QED BY <1>1, <2>1, PeriodsInNat
<1>4. CacheFollowsHead'
  <2>1. ASSUME NEW i \in DOMAIN syncCommitteeByPeriod'
        PROVE  syncCommitteeByPeriod'[i].key >= PeriodAtSlot(head.slot) - 1
    <3>1. syncCommitteeByPeriod'[i].key \in MapKeys(syncCommitteeByPeriod')
      BY DEF MapKeys
    <3>2. syncCommitteeByPeriod'[i].key >= syncCommitteeByPeriod[1].key
      BY <1>1, <3>1, UpdateKeepsPeriods
    <3>3. syncCommitteeByPeriod[1].key >= PeriodAtSlot(head.slot) - 1
      BY <1>3 DEF HeadInv, CacheFollowsHead
    <3>4. syncCommitteeByPeriod'[i].key \in Nat
      <4> DEFINE E == [key : Nat, value : CommitteeStats]
      <4>1. syncCommitteeByPeriod' \in Seq(E) /\ \A e \in E : e.key \in Nat
        BY <1>1, <1>2, UpdatedCache
      <4>2. syncCommitteeByPeriod'[i] \in E
        <5> HIDE DEF E
        <5> QED BY <4>1
      <4> QED BY <4>1, <4>2
    <3> QED BY <1>1, <1>3, <3>2, <3>3, <3>4
  <2> QED BY <2>1 DEF CacheFollowsHead
<1> QED BY <1>4 DEF HeadInv, ParticipationInOrder, HeadIsRecorded,
                    RecentParticipation, MaxParticipation

\* The rest of the client does not touch what the invariant is about.
LEMMA StoreUnchangedHeadInv ==
  ASSUME HeadInv, UNCHANGED store
  PROVE  HeadInv'
BY DEF store, HeadInv, CacheFollowsHead, ParticipationInOrder, HeadIsRecorded,
       RecentParticipation, MaxParticipation

\* A step that changes what is stored accepts an update or a header.
LEMMA StepsOnStore ==
  ASSUME [Next]_vars
  PROVE  \/ UNCHANGED store
         \/ \E h \in Headers : ProcessHeaderUpdate(h)
         \/ \E u \in Updates : /\ AcceptsUpdate(u) /\ StoreNextCommittee(u)
                               /\ UNCHANGED <<maxParticipationByPeriod, head>>
BY DEF Next, RunLoop, Start, SyncReply, SyncRequestFails, AcceptUpdate, RejectUpdate,
       NextChunk, LastChunkDone, Retry, HeadReply, HeadRequestFails, Wake, Stop,
       OnSSE, Tick, store, vars

\* The head of a client that was just constructed has no participation.
LEMMA InitHeadInv == Init => HeadInv
<1> SUFFICES ASSUME Init PROVE HeadInv
  OBVIOUS
<1>1. PeriodAtSlot(SnapshotSlot) \in Nat
  BY PeriodInNat, ConstantsAssumption
<1>2. SnapshotEntry.key = PeriodAtSlot(SnapshotSlot)
  BY DEF SnapshotEntry, Entry
<1>3. CacheFollowsHead
  BY <1>1, <1>2 DEF Init, CacheFollowsHead
<1>4. ParticipationInOrder
  BY KeepsTwo DEF Init, ParticipationInOrder, KeysInOrder, EmptyMap
<1>5. HeadIsRecorded
  BY DEF Init, HeadIsRecorded, RecentParticipation, MaxParticipation, MapKeys,
         EmptyMap, Larger
<1> QED BY <1>3, <1>4, <1>5 DEF HeadInv

\* Every step keeps the invariant.
LEMMA NextHeadInv == IInv /\ HeadInv /\ [Next]_vars => HeadInv'
BY StepsOnStore, ProcessHeaderUpdateHeadInv, StoreNextCommitteeHeadInv,
   StoreUnchangedHeadInv

\* The participation of the head stays on record, although the record keeps
\* three periods only and drops them in the order of their insertion.
THEOREM HeadStaysRecorded == Spec => []HeadInv
<1>1. IInv /\ HeadInv /\ [Next]_vars => HeadInv'
  BY NextHeadInv
<1> QED BY <1>1, InitHeadInv, Invariance, PTL DEF Spec

\* Inside a period no server and no interleaving of loops replaces the head by
\* one with less than half of its participation.
THEOREM HeadsKeepHalf == Spec => HeadKeepsHalf
<1>1. IInv /\ HeadInv /\ [Next]_vars
        => [PeriodAtSlot(head'.slot) = PeriodAtSlot(head.slot)
              => head'.participation
                   >= head.participation \div SAFETY_THRESHOLD_FACTOR]_vars
  <2> SUFFICES ASSUME IInv, HeadInv, Next,
                      PeriodAtSlot(head'.slot) = PeriodAtSlot(head.slot)
               PROVE  head'.participation
                        >= head.participation \div SAFETY_THRESHOLD_FACTOR
    OBVIOUS
  <2>1. head.participation \in Nat /\ head.slot \in Nat
    BY IInvImpliesTypeOK DEF TypeOK, HeaderType
  <2>2. CASE head' = head
    BY <2>1, <2>2 DEF SAFETY_THRESHOLD_FACTOR
  <2>3. CASE head' # head
    <3>1. PICK h \in Headers : ProcessHeaderUpdate(h)
      BY <2>3, StepsOnStore DEF store
    <3>2. /\ AcceptsHeader(h)
          /\ head' = h
      BY <2>3, <3>1 DEF ProcessHeaderUpdate
    <3>3. h.participation >= MinSafeParticipation(PeriodAtSlot(head.slot))
      BY <3>2 DEF AcceptsHeader
    <3> DEFINE recent == RecentParticipation(PeriodAtSlot(head.slot))
    <3>4. recent \in Nat /\ head.participation <= recent
      <4>1. maxParticipationByPeriod \in Seq(ParticipationEntry)
        BY IInvImpliesTypeOK DEF TypeOK, ParticipationEntry
      <4>2. KeysInOrder(maxParticipationByPeriod, PeriodAtSlot(head.slot))
        BY DEF HeadInv, ParticipationInOrder, KeysInOrder
      <4>3. PeriodAtSlot(head.slot) \in Nat
        BY <2>1, PeriodInNat
      <4> QED BY <2>1, <4>1, <4>2, <4>3, RecentIsCover, RecentOfMap
              DEF HeadInv, HeadIsRecorded
    <3>5. h.participation \in Nat
      BY ConstantsAssumption DEF HeaderType
    <3> HIDE DEF recent
    <3>6. h.participation >= recent \div 2
      BY <3>3 DEF MinSafeParticipation, SAFETY_THRESHOLD_FACTOR, recent
    <3>7. head.participation \div 2 <= recent \div 2
      BY <2>1, <3>4
    <3> QED BY <2>1, <3>2, <3>4, <3>5, <3>6, <3>7 DEF SAFETY_THRESHOLD_FACTOR
  <2> QED BY <2>2, <2>3
<1> QED BY <1>1, Invariance, HeadStaysRecorded, PTL DEF Spec, HeadKeepsHalf

=============================================================================
