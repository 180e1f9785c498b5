---------------------- MODULE SlashingProtectionProofs ----------------------
(***************************************************************************)
(* Proofs about SlashingProtection.  The invariant says that every vote    *)
(* has an attestation of its target on record, that each kind of span is   *)
(* exactly what the votes entered into it give, and that a vote which is   *)
(* on record only, and may be signed as such, conflicts with none that     *)
(* both spans know.                                                        *)
(***************************************************************************)
EXTENDS SlashingProtection, RecursionProofs

-----------------------------------------------------------------------------
(* The spans *)

WellFormed(att) ==
  /\ att.sourceEpoch \in 0..MaxEpoch
  /\ att.targetEpoch \in 0..MaxEpoch
  /\ att.sourceEpoch <= att.targetEpoch

\* The span of an epoch is the least distance to the target of an attestation
\* that starts later.
MinSpanOf(mins, atts) ==
  /\ mins \in [0..MaxEpoch -> Nat]
  /\ \A epoch \in 0..MaxEpoch :
       /\ \A v \in atts :
            v.sourceEpoch > epoch
              => mins[epoch] # 0 /\ mins[epoch] <= v.targetEpoch - epoch
       /\ mins[epoch] # 0
            => \E v \in atts : /\ v.sourceEpoch > epoch
                               /\ mins[epoch] = v.targetEpoch - epoch

\* The span of an epoch is the greatest distance to the target of an
\* attestation that starts earlier.
MaxSpanOf(maxs, atts) ==
  /\ maxs \in [0..MaxEpoch -> Nat]
  /\ \A epoch \in 0..MaxEpoch :
       /\ \A v \in atts :
            v.sourceEpoch < epoch /\ epoch < v.targetEpoch
              => maxs[epoch] >= v.targetEpoch - epoch
       /\ maxs[epoch] # 0
            => \E v \in atts : /\ v.sourceEpoch < epoch /\ epoch < v.targetEpoch
                               /\ maxs[epoch] = v.targetEpoch - epoch

\* updateMinSpan may stop at the first epoch it does not improve.
LEMMA UpdateMinSpanExact ==
  ASSUME NEW atts, \A v \in atts : WellFormed(v), NEW att, WellFormed(att),
         NEW mins, MinSpanOf(mins, atts)
  PROVE  MinSpanOf(UpdateMinSpan(mins, att), atts \union {att})
<1> DEFINE new == UpdateMinSpan(mins, att)
           s == att.sourceEpoch
           t == att.targetEpoch
<1>1. /\ s \in 0..MaxEpoch /\ t \in 0..MaxEpoch /\ s <= t
      /\ MaxEpoch \in Nat
  BY SlashingAssumption DEF WellFormed
<1>2. /\ mins \in [0..MaxEpoch -> Nat]
      /\ \A v \in atts : v.sourceEpoch \in 0..MaxEpoch /\ v.targetEpoch \in 0..MaxEpoch
  BY DEF MinSpanOf, WellFormed
<1> DEFINE Improves(e) == mins[e] = 0 \/ t - e < mins[e]
           Reached(e) == e < s /\ \A k \in e..(s - 1) : Improves(k)
<1>3. /\ DOMAIN new = 0..MaxEpoch
      /\ \A e \in 0..MaxEpoch : new[e] = IF Reached(e) THEN t - e ELSE mins[e]
  BY <1>2 DEF UpdateMinSpan
<1> HIDE DEF new
<1>4. ASSUME NEW e \in 0..MaxEpoch, Reached(e)
      PROVE  /\ new[e] = t - e /\ new[e] \in Nat /\ new[e] # 0
             /\ \A v \in atts : v.sourceEpoch > e => new[e] <= v.targetEpoch - e
  <2>1. new[e] = t - e /\ e < s
    BY <1>3, <1>4
  <2>2. Improves(e)
    BY <1>1, <1>4
  <2>3. ASSUME NEW v \in atts, v.sourceEpoch > e
        PROVE  t - e <= v.targetEpoch - e
    BY <1>1, <1>2, <2>2, <2>3 DEF MinSpanOf
  <2> QED BY <1>1, <2>1, <2>3
<1>5. ASSUME NEW e \in 0..MaxEpoch, ~Reached(e), s > e
      PROVE  mins[e] # 0 /\ mins[e] <= t - e
  <2>1. PICK k \in e..(s - 1) : mins[k] # 0 /\ ~(t - k < mins[k])
    BY <1>5
  <2>2. k \in 0..MaxEpoch /\ e <= k /\ mins[k] <= t - k
    BY <1>1, <1>2, <2>1
  <2>3. PICK v \in atts : v.sourceEpoch > k /\ mins[k] = v.targetEpoch - k
    BY <2>1, <2>2 DEF MinSpanOf
  <2>4. v.sourceEpoch > e
    BY <1>2, <2>2, <2>3
  <2>5. mins[e] # 0 /\ mins[e] <= v.targetEpoch - e
    BY <2>4 DEF MinSpanOf
  <2> QED BY <1>1, <1>2, <2>2, <2>3, <2>5
<1>6. new \in [0..MaxEpoch -> Nat]
  <2>1. \A e \in 0..MaxEpoch : new[e] \in Nat
    BY <1>2, <1>3, <1>4
  <2>2. new = [e \in 0..MaxEpoch |-> new[e]]
    BY <1>2 DEF new, UpdateMinSpan
  <2> QED BY <2>1, <2>2
<1>7. ASSUME NEW e \in 0..MaxEpoch, NEW v \in atts \union {att}, v.sourceEpoch > e
      PROVE  new[e] # 0 /\ new[e] <= v.targetEpoch - e
  <2>1. CASE Reached(e)
    BY <1>1, <1>4, <1>7, <2>1
  <2>2. CASE ~Reached(e)
    <3>1. new[e] = mins[e]
      BY <1>3, <2>2
    <3>2. CASE v \in atts
      BY <1>7, <3>1, <3>2 DEF MinSpanOf
    <3>3. CASE v = att
      BY <1>5, <1>7, <2>2, <3>1, <3>3
    <3> QED BY <3>2, <3>3
  <2> QED BY <2>1, <2>2
<1>8. ASSUME NEW e \in 0..MaxEpoch, new[e] # 0
      PROVE  \E v \in atts \union {att} : /\ v.sourceEpoch > e
                                          /\ new[e] = v.targetEpoch - e
  <2>1. CASE Reached(e)
    BY <1>1, <1>4, <2>1
  <2>2. CASE ~Reached(e)
    <3>1. new[e] = mins[e]
      BY <1>3, <2>2
    <3>2. PICK v \in atts : v.sourceEpoch > e /\ mins[e] = v.targetEpoch - e
      BY <1>8, <3>1 DEF MinSpanOf
    <3> QED BY <3>1, <3>2
  <2> QED BY <2>1, <2>2
<1> QED BY <1>6, <1>7, <1>8 DEF MinSpanOf, new

\* So may updateMaxSpan.
LEMMA UpdateMaxSpanExact ==
  ASSUME NEW atts, \A v \in atts : WellFormed(v), NEW att, WellFormed(att),
         NEW maxs, MaxSpanOf(maxs, atts)
  PROVE  MaxSpanOf(UpdateMaxSpan(maxs, att), atts \union {att})
<1> DEFINE new == UpdateMaxSpan(maxs, att)
           s == att.sourceEpoch
           t == att.targetEpoch
<1>1. /\ s \in 0..MaxEpoch /\ t \in 0..MaxEpoch /\ s <= t
      /\ MaxEpoch \in Nat
  BY SlashingAssumption DEF WellFormed
<1>2. /\ maxs \in [0..MaxEpoch -> Nat]
      /\ \A v \in atts : v.sourceEpoch \in 0..MaxEpoch /\ v.targetEpoch \in 0..MaxEpoch
  BY DEF MaxSpanOf, WellFormed
<1> DEFINE Reached(e) == s < e /\ e < t /\ \A k \in (s + 1)..e : t - k > maxs[k]
<1>3. /\ DOMAIN new = 0..MaxEpoch
      /\ \A e \in 0..MaxEpoch : new[e] = IF Reached(e) THEN t - e ELSE maxs[e]
  BY <1>2 DEF UpdateMaxSpan
<1> HIDE DEF new
<1>4. ASSUME NEW e \in 0..MaxEpoch, Reached(e)
      PROVE  /\ s < e /\ e < t
             /\ new[e] = t - e /\ new[e] \in Nat /\ new[e] >= maxs[e]
  <2>1. new[e] = t - e /\ s < e /\ e < t
    BY <1>3, <1>4
  <2>2. t - e > maxs[e]
    BY <1>1, <1>4
  <2> QED BY <1>1, <1>2, <2>1, <2>2
<1>5. ASSUME NEW e \in 0..MaxEpoch, ~Reached(e), s < e, e < t
      PROVE  maxs[e] >= t - e
  <2>1. PICK k \in (s + 1)..e : ~(t - k > maxs[k])
    BY <1>5
  <2> DEFINE span == maxs[k]
  <2>2. /\ k \in 0..MaxEpoch /\ s < k /\ k <= e
        /\ span >= t - k /\ span # 0
    <3>1. s < e /\ e < t
      BY <1>5
    <3>2. k \in 0..MaxEpoch /\ s < k /\ k <= e
      BY <1>1
    <3>3. span \in Nat /\ ~(t - k > span)
      BY <1>2, <2>1, <3>2
    <3> HIDE DEF span
    <3> QED BY <1>1, <3>1, <3>2, <3>3
  <2>3. PICK v \in atts : /\ v.sourceEpoch < k /\ k < v.targetEpoch
                          /\ maxs[k] = v.targetEpoch - k
    BY <2>2 DEF MaxSpanOf
  <2>4. v.sourceEpoch < e /\ e < v.targetEpoch /\ t <= v.targetEpoch
    <3>1. v.sourceEpoch \in 0..MaxEpoch /\ v.targetEpoch \in 0..MaxEpoch
      BY <1>2
    <3>2. e < t /\ v.targetEpoch - k >= t - k
      BY <1>5, <2>2, <2>3
    <3> QED BY <1>1, <2>2, <2>3, <3>1, <3>2
  <2>5. maxs[e] >= v.targetEpoch - e
    BY <2>4 DEF MaxSpanOf
  <2> QED BY <1>1, <1>2, <2>4, <2>5
<1>6. new \in [0..MaxEpoch -> Nat]
  <2>1. \A e \in 0..MaxEpoch : new[e] \in Nat
    BY <1>2, <1>3, <1>4
  <2>2. new = [e \in 0..MaxEpoch |-> new[e]]
    BY <1>2 DEF new, UpdateMaxSpan
  <2> QED BY <2>1, <2>2
<1>7. ASSUME NEW e \in 0..MaxEpoch, NEW v \in atts \union {att},
             v.sourceEpoch < e, e < v.targetEpoch
      PROVE  new[e] >= v.targetEpoch - e
  <2>1. v \in atts => maxs[e] >= v.targetEpoch - e /\ v.targetEpoch \in Nat
    BY <1>2, <1>7 DEF MaxSpanOf
  <2>2. CASE Reached(e)
    <3>1. new[e] = t - e /\ new[e] \in Nat /\ new[e] >= maxs[e] /\ maxs[e] \in Nat
      BY <1>2, <1>4, <2>2
    <3> QED BY <2>1, <3>1
  <2>3. CASE ~Reached(e)
    BY <1>3, <1>5, <1>7, <2>1, <2>3
  <2> QED BY <2>2, <2>3
<1>8. ASSUME NEW e \in 0..MaxEpoch, new[e] # 0
      PROVE  \E v \in atts \union {att} : /\ v.sourceEpoch < e /\ e < v.targetEpoch
                                          /\ new[e] = v.targetEpoch - e
  <2>1. CASE Reached(e)
    BY <1>4, <2>1
  <2>2. CASE ~Reached(e)
    <3>1. new[e] = maxs[e]
      BY <1>3, <2>2
    <3>2. PICK v \in atts : /\ v.sourceEpoch < e /\ e < v.targetEpoch
                            /\ maxs[e] = v.targetEpoch - e
      BY <1>8, <3>1 DEF MaxSpanOf
    <3> QED BY <3>1, <3>2
  <2> QED BY <2>1, <2>2
<1> QED BY <1>6, <1>7, <1>8 DEF MaxSpanOf, new

\* A vote that is not surrounding by the span surrounds none entered into it.
LEMMA CheckFindsSurrounded ==
  ASSUME NEW later, NEW att, WellFormed(att),
         NEW mins, MinSpanOf(mins, later), ~IsSurrounding(mins, att),
         NEW v \in later, WellFormed(v)
  PROVE  ~Surrounds(att, v)
<1> DEFINE s == att.sourceEpoch
           t == att.targetEpoch
<1>1. s \in 0..MaxEpoch /\ t \in 0..MaxEpoch /\ s <= t /\ MaxEpoch \in Nat
  BY SlashingAssumption DEF WellFormed
<1>2. mins[s] \in Nat
  BY <1>1 DEF MinSpanOf
<1> SUFFICES ASSUME Surrounds(att, v) PROVE FALSE
  OBVIOUS
<1>3. s < v.sourceEpoch /\ v.targetEpoch < t /\ v.targetEpoch \in Nat
  BY DEF Surrounds, WellFormed
<1>4. mins[s] # 0 /\ mins[s] <= v.targetEpoch - s
  BY <1>1, <1>3 DEF MinSpanOf, WellFormed
<1> QED BY <1>1, <1>2, <1>3, <1>4 DEF IsSurrounding, Distance

\* The same of the votes around it.
LEMMA CheckFindsSurrounding ==
  ASSUME NEW earlier, NEW att, WellFormed(att),
         NEW maxs, MaxSpanOf(maxs, earlier), ~IsSurrounded(maxs, att),
         NEW v \in earlier, WellFormed(v)
  PROVE  ~Surrounds(v, att)
<1> DEFINE s == att.sourceEpoch
           t == att.targetEpoch
<1>1. s \in 0..MaxEpoch /\ t \in 0..MaxEpoch /\ s <= t /\ MaxEpoch \in Nat
  BY SlashingAssumption DEF WellFormed
<1>2. maxs[s] \in Nat
  BY <1>1 DEF MaxSpanOf
<1> SUFFICES ASSUME Surrounds(v, att) PROVE FALSE
  OBVIOUS
<1>3. v.sourceEpoch < s /\ t < v.targetEpoch /\ v.targetEpoch \in Nat
  BY DEF Surrounds, WellFormed
<1>4. maxs[s] >= v.targetEpoch - s
  BY <1>1, <1>3 DEF MaxSpanOf, WellFormed
<1> QED BY <1>1, <1>2, <1>3, <1>4 DEF IsSurrounded, Distance

-----------------------------------------------------------------------------
(* Importing a file *)

\* Nothing of a file is inserted yet.
NothingInserted ==
  [min |-> minSpan, max |-> maxSpan, inMin |-> minSpanVotes,
   inMax |-> maxSpanVotes, left |-> {}]

\* What InsertAll has inserted after n attestations of a file.
Inserted(atts) ==
  CHOOSE inserted :
    inserted = [n \in 0..Len(atts) |->
                  IF n = 0 THEN NothingInserted
                  ELSE InsertNext(inserted[n - 1], atts[n])]

\* The recursion is well defined.
LEMMA InsertedSteps ==
  ASSUME NEW atts, Len(atts) \in Nat
  PROVE  /\ InsertAll(atts) = Inserted(atts)[Len(atts)]
         /\ Inserted(atts)[0] = NothingInserted
         /\ \A n \in 1..Len(atts) :
              Inserted(atts)[n] = InsertNext(Inserted(atts)[n - 1], atts[n])
<1> DEFINE size == Len(atts)
           first == NothingInserted
           Steps(g, n) == [k \in 0..n |-> IF k = 0 THEN first
                                          ELSE InsertNext(g[k - 1], atts[k])]
           Defined == {n \in 0..size : \E g : g = Steps(g, n)}
<1> HIDE DEF first
<1>1. 0 \in Defined
  <2> DEFINE g == [k \in 0..0 |-> first]
  <2>1. \A k \in 0..0 : k = 0
    OBVIOUS
  <2>2. g = Steps(g, 0)
    BY <2>1
  <2> HIDE DEF g, Steps
  <2>3. \E x : x = Steps(x, 0)
    BY <2>2
  <2> QED BY <2>3
<1>2. ASSUME NEW n \in 0..(size - 1), n \in Defined
      PROVE  n + 1 \in Defined
  <2>1. PICK g : g = Steps(g, n)
    BY <1>2
  <2> DEFINE h == [k \in 0..(n + 1) |-> IF k = n + 1 THEN InsertNext(g[n], atts[n + 1])
                                        ELSE g[k]]
  <2>2. \A k \in 0..n : g[k] = IF k = 0 THEN first ELSE InsertNext(g[k - 1], atts[k])
    <3>1. \A k \in 0..n : Steps(g, n)[k]
                            = IF k = 0 THEN first ELSE InsertNext(g[k - 1], atts[k])
      OBVIOUS
    <3> HIDE DEF Steps
    <3> QED BY <2>1, <3>1
  <2>3. \A k \in 0..(n + 1) :
          h[k] = IF k = 0 THEN first ELSE InsertNext(h[k - 1], atts[k])
    <3> SUFFICES ASSUME NEW k \in 0..(n + 1)
                 PROVE  h[k] = IF k = 0 THEN first ELSE InsertNext(h[k - 1], atts[k])
      OBVIOUS
    <3>1. CASE k = n + 1
      BY <3>1
    <3>2. CASE k # n + 1
      <4>1. k \in 0..n /\ h[k] = g[k] /\ (k # 0 => h[k - 1] = g[k - 1])
        BY <3>2
      <4> QED BY <2>2, <4>1
    <3> QED BY <3>1, <3>2
  <2>4. h = Steps(h, n + 1)
    BY <2>3
  <2>5. n + 1 \in 0..size
    OBVIOUS
  <2> QED BY <2>4, <2>5
<1>3. size \in Defined
  <2> HIDE DEF Defined
  <2>1. 0..size \subseteq Defined
    BY <1>1, <1>2, Induction
  <2> QED BY <2>1
<1>4. PICK g : g = Steps(g, size)
  BY <1>3
<1>5. Inserted(atts) = Steps(Inserted(atts), size)
  BY <1>4 DEF Inserted, first
<1>6. Inserted(atts)[0] = first
  BY <1>5
<1>7. \A n \in 1..size : Inserted(atts)[n] = InsertNext(Inserted(atts)[n - 1], atts[n])
  BY <1>5
<1>8. InsertAll(atts) = Inserted(atts)[size]
  BY DEF InsertAll, Inserted, NothingInserted
<1> QED BY <1>6, <1>7, <1>8 DEF first

\* The fields of InsertAll's state.
IsSpans(r) ==
  r = [min |-> r.min, max |-> r.max, inMin |-> r.inMin, inMax |-> r.inMax,
       left |-> r.left]

\* One attestation of a file is entered into both spans, into the first one
\* only, or into none; the latter two are left out.
LEMMA InsertNextSpans ==
  ASSUME NEW r, IsSpans(r), NEW att
  PROVE  LET new == InsertNext(r, att) IN
         /\ IsSpans(new)
         /\ \/ /\ new.min = r.min /\ new.inMin = r.inMin
               /\ new.max = r.max /\ new.inMax = r.inMax
               /\ new.left = r.left \union {att}
            \/ /\ new.min = UpdateMinSpan(r.min, att)
               /\ new.inMin = r.inMin \union {att}
               /\ new.max = r.max /\ new.inMax = r.inMax
               /\ new.left = r.left \union {att}
            \/ /\ ~IsSurrounding(r.min, att)
               /\ new.min = UpdateMinSpan(r.min, att)
               /\ new.inMin = r.inMin \union {att}
               /\ new.max = UpdateMaxSpan(r.max, att)
               /\ new.inMax = r.inMax \union {att}
               /\ new.left = r.left
<1> DEFINE a == r.min
           b == r.max
           c == r.inMin
           d == r.inMax
           e == r.left
           min == UpdateMinSpan(a, att)
           max == UpdateMaxSpan(b, att)
           new == InsertNext(r, att)
<1>1. r = [min |-> a, max |-> b, inMin |-> c, inMax |-> d, left |-> e]
  BY DEF IsSpans
<1>2. CASE e # {} \/ IsSurrounding(a, att)
  <2>1. new = [r EXCEPT !.left = @ \union {att}]
    BY <1>2 DEF InsertNext
  <2> HIDE DEF a, b, c, d, e, new
  <2>2. new = [min |-> a, max |-> b, inMin |-> c, inMax |-> d, left |-> e \union {att}]
    BY <1>1, <2>1
  <2>3. /\ IsSpans(new) /\ new.min = a /\ new.inMin = c /\ new.max = b /\ new.inMax = d
        /\ new.left = e \union {att}
    BY <2>2 DEF IsSpans
  <2> QED BY <2>3 DEF a, b, c, d, e, new
<1>3. CASE ~(e # {} \/ IsSurrounding(a, att)) /\ IsSurrounded(b, att)
  <2>1. new = [r EXCEPT !.left = e \union {att}, !.min = min, !.inMin = c \union {att}]
    BY <1>3 DEF InsertNext
  <2> HIDE DEF a, b, c, d, e, new, min
  <2>2. new = [min |-> min, max |-> b, inMin |-> c \union {att}, inMax |-> d,
               left |-> e \union {att}]
    BY <1>1, <2>1
  <2>3. /\ IsSpans(new) /\ new.min = min /\ new.inMin = c \union {att}
        /\ new.max = b /\ new.inMax = d /\ new.left = e \union {att}
    BY <2>2 DEF IsSpans
  <2> QED BY <2>3 DEF a, b, c, d, e, new, min
<1>4. CASE ~(e # {} \/ IsSurrounding(a, att)) /\ ~IsSurrounded(b, att)
  <2>1. new = [r EXCEPT !.min = min, !.max = max, !.inMin = c \union {att},
                        !.inMax = d \union {att}]
    BY <1>4 DEF InsertNext
  <2> HIDE DEF a, b, c, d, e, new, min, max
  <2>2. new = [min |-> min, max |-> max, inMin |-> c \union {att},
               inMax |-> d \union {att}, left |-> e]
    BY <1>1, <2>1
  <2>3. /\ IsSpans(new) /\ new.min = min /\ new.inMin = c \union {att}
        /\ new.max = max /\ new.inMax = d \union {att} /\ new.left = e
    BY <2>2 DEF IsSpans
  <2> QED BY <1>4, <2>3 DEF a, b, c, d, e, new, min, max
<1> QED BY <1>2, <1>3, <1>4

\* What holds of the spans while a file is inserted: they are exact, hold what
\* they held and what was read of the file, but for what is left out, and no
\* attestation of the file in both surrounds one that the first span knew.
Exact(r, read) ==
  /\ IsSpans(r)
  /\ MinSpanOf(r.min, r.inMin) /\ MaxSpanOf(r.max, r.inMax)
  /\ minSpanVotes \subseteq r.inMin /\ r.inMin \subseteq minSpanVotes \union read
  /\ maxSpanVotes \subseteq r.inMax /\ r.inMax \subseteq maxSpanVotes \union read
  /\ read \subseteq r.left \union (r.inMin \intersect r.inMax)
  /\ \A b \in r.inMax \ maxSpanVotes : \A a \in minSpanVotes : ~Surrounds(b, a)

\* The next attestation keeps it.
LEMMA InsertNextExact ==
  ASSUME \A v \in minSpanVotes \union maxSpanVotes : WellFormed(v),
         NEW read, \A v \in read : WellFormed(v), NEW r, Exact(r, read),
         NEW att, WellFormed(att)
  PROVE  Exact(InsertNext(r, att), read \union {att})
<1> DEFINE new == InsertNext(r, att)
<1>1. /\ \A v \in r.inMin : WellFormed(v)
      /\ \A v \in r.inMax : WellFormed(v)
  BY DEF Exact
<1>2. /\ MinSpanOf(UpdateMinSpan(r.min, att), r.inMin \union {att})
      /\ MaxSpanOf(UpdateMaxSpan(r.max, att), r.inMax \union {att})
  <2>1. MinSpanOf(r.min, r.inMin) /\ MaxSpanOf(r.max, r.inMax)
    BY DEF Exact
  <2> QED BY <1>1, <2>1, UpdateMinSpanExact, UpdateMaxSpanExact
<1>3. ~IsSurrounding(r.min, att) => \A a \in r.inMin : ~Surrounds(att, a)
  <2>1. MinSpanOf(r.min, r.inMin)
    BY DEF Exact
  <2> QED BY <1>1, <2>1, CheckFindsSurrounded
<1>4. /\ IsSpans(new)
      /\ \/ /\ new.min = r.min /\ new.inMin = r.inMin
            /\ new.max = r.max /\ new.inMax = r.inMax
            /\ new.left = r.left \union {att}
         \/ /\ new.min = UpdateMinSpan(r.min, att)
            /\ new.inMin = r.inMin \union {att}
            /\ new.max = r.max /\ new.inMax = r.inMax
            /\ new.left = r.left \union {att}
         \/ /\ ~IsSurrounding(r.min, att)
            /\ new.min = UpdateMinSpan(r.min, att)
            /\ new.inMin = r.inMin \union {att}
            /\ new.max = UpdateMaxSpan(r.max, att)
            /\ new.inMax = r.inMax \union {att}
            /\ new.left = r.left
  <2>1. IsSpans(r)
    BY DEF Exact
  <2> QED BY <2>1, InsertNextSpans
<1> HIDE DEF new
<1>5. MinSpanOf(new.min, new.inMin) /\ MaxSpanOf(new.max, new.inMax)
  <2>1. MinSpanOf(r.min, r.inMin) /\ MaxSpanOf(r.max, r.inMax)
    BY DEF Exact
  <2> QED BY <1>2, <1>4, <2>1
<1>6. \A b \in new.inMax \ maxSpanVotes : \A a \in minSpanVotes : ~Surrounds(b, a)
  BY <1>3, <1>4 DEF Exact
<1>7. /\ minSpanVotes \subseteq new.inMin
      /\ new.inMin \subseteq minSpanVotes \union (read \union {att})
      /\ maxSpanVotes \subseteq new.inMax
      /\ new.inMax \subseteq maxSpanVotes \union (read \union {att})
  BY <1>4 DEF Exact
<1>8. read \union {att} \subseteq new.left \union (new.inMin \intersect new.inMax)
  BY <1>4 DEF Exact
<1>9. IsSpans(new)
  BY <1>4
<1> QED BY <1>5, <1>6, <1>7, <1>8, <1>9 DEF Exact, new

\* So the whole file does.
LEMMA InsertAllExact ==
  ASSUME \A v \in minSpanVotes \union maxSpanVotes : WellFormed(v),
         MinSpanOf(minSpan, minSpanVotes), MaxSpanOf(maxSpan, maxSpanVotes),
         NEW atts, Len(atts) \in Nat, DOMAIN atts = 1..Len(atts),
         \A i \in DOMAIN atts : WellFormed(atts[i])
  PROVE  Exact(InsertAll(atts), ToSet(atts))
<1> DEFINE size == Len(atts)
           f == Inserted(atts)
           First(n) == {atts[i] : i \in 1..n}
           Good == {n \in 0..size : Exact(f[n], First(n))}
<1>1. /\ InsertAll(atts) = f[size]
      /\ f[0] = NothingInserted
      /\ \A n \in 1..size : f[n] = InsertNext(f[n - 1], atts[n])
  BY InsertedSteps
<1> HIDE DEF f
<1>2. 0 \in Good
  <2>1. First(0) = {}
    OBVIOUS
  <2>2. Exact(NothingInserted, {})
    <3>1. /\ NothingInserted.min = minSpan /\ NothingInserted.inMin = minSpanVotes
          /\ NothingInserted.max = maxSpan /\ NothingInserted.inMax = maxSpanVotes
          /\ NothingInserted.left = {}
      BY DEF NothingInserted
    <3>2. IsSpans(NothingInserted)
      BY DEF NothingInserted, IsSpans
    <3> QED BY <3>1, <3>2 DEF Exact
  <2>3. Exact(f[0], First(0))
    <3> HIDE DEF First
    <3>1. f[0] = NothingInserted
      BY <1>1
    <3> QED BY <2>1, <2>2, <3>1
  <2>4. 0 \in 0..size
    OBVIOUS
  <2> QED BY <2>3, <2>4
<1>3. ASSUME NEW n \in 0..(size - 1), n \in Good
      PROVE  n + 1 \in Good
  <2> DEFINE att == atts[n + 1]
  <2>1. /\ f[n + 1] = InsertNext(f[n], att)
        /\ n + 1 \in 0..size /\ n + 1 \in DOMAIN atts
    <3>1. n + 1 \in 1..size /\ (n + 1) - 1 = n
      OBVIOUS
    <3> HIDE DEF size
    <3> QED BY <1>1, <3>1 DEF size
  <2>2. First(n + 1) = First(n) \union {att}
    <3>1. \A i \in 1..(n + 1) : i \in 1..n \/ i = n + 1
      OBVIOUS
    <3>2. n + 1 \in 1..(n + 1) /\ 1..n \subseteq 1..(n + 1)
      OBVIOUS
    <3> QED BY <3>1, <3>2
  <2>3. WellFormed(att) /\ \A v \in First(n) : WellFormed(v)
    BY <2>1
  <2>4. Exact(f[n], First(n))
    BY <1>3
  <2> HIDE DEF First, att
  <2>5. Exact(InsertNext(f[n], att), First(n) \union {att})
    BY <2>3, <2>4, InsertNextExact
  <2> QED BY <2>1, <2>2, <2>5
<1>4. size \in Good
  <2> HIDE DEF Good
  <2>1. 0..size \subseteq Good
    BY <1>2, <1>3, Induction
  <2> QED BY <2>1
<1>5. First(size) = ToSet(atts)
  BY DEF ToSet
<1> QED BY <1>1, <1>4, <1>5

\* At most one attestation of a target.
OneOfTarget(db) ==
  \A a \in db : \A b \in db : a.targetEpoch = b.targetEpoch => a = b

\* What is written is there, and nothing else is.
LEMMA PutVotesTargets ==
  ASSUME NEW db, NEW atts, Len(atts) \in Nat, DOMAIN atts = 1..Len(atts)
  PROVE  /\ PutVotes(db, atts) \subseteq db \union ToSet(atts)
         /\ \A a \in PutVotes(db, atts) \ ToSet(atts) :
              \A b \in ToSet(atts) : a.targetEpoch # b.targetEpoch
         /\ OneOfTarget(db) => OneOfTarget(PutVotes(db, atts))
         /\ \A a \in db \union ToSet(atts) :
              \E b \in PutVotes(db, atts) : b.targetEpoch = a.targetEpoch
<1>1. PutVotes(db, atts) \subseteq db \union ToSet(atts)
  BY DEF PutVotes, ToSet
<1>2. ASSUME NEW i \in DOMAIN atts
      PROVE  \E b \in PutVotes(db, atts) : b.targetEpoch = atts[i].targetEpoch
  <2> DEFINE size == Len(atts)
             Same == {j \in DOMAIN atts : atts[j].targetEpoch = atts[i].targetEpoch}
             Back == {size - j : j \in Same}
  <2>1. PICK m \in Back : \A k \in Back : m <= k
    <3>1. Back \in SUBSET Nat /\ Back # {}
      <4>1. size - i \in Back
        OBVIOUS
      <4> QED BY <4>1
    <3> HIDE DEF Back
    <3> QED BY <3>1, LeastNatural
  <2>2. PICK j \in Same : m = size - j
    BY <2>1
  <2>3. \A k \in DOMAIN atts : j < k => atts[k].targetEpoch # atts[j].targetEpoch
    <3> SUFFICES ASSUME NEW k \in DOMAIN atts, j < k,
                        atts[k].targetEpoch = atts[j].targetEpoch
                 PROVE  FALSE
      OBVIOUS
    <3>1. k \in Same /\ size - k \in Back
      BY <2>2
    <3> HIDE DEF Back
    <3>2. m <= size - k
      BY <2>1, <3>1
    <3> QED BY <2>2, <3>2
  <2>4. atts[j] \in PutVotes(db, atts)
    BY <2>2, <2>3 DEF PutVotes
  <2> QED BY <2>2, <2>4
<1>3. ASSUME NEW a \in db
      PROVE  \E b \in PutVotes(db, atts) : b.targetEpoch = a.targetEpoch
  <2>1. CASE \A i \in DOMAIN atts : atts[i].targetEpoch # a.targetEpoch
    <3>1. a \in PutVotes(db, atts)
      BY <2>1 DEF PutVotes
    <3> QED BY <3>1
  <2>2. CASE ~\A i \in DOMAIN atts : atts[i].targetEpoch # a.targetEpoch
    BY <1>2, <2>2
  <2> QED BY <2>1, <2>2
<1>4. \A a \in PutVotes(db, atts) \ ToSet(atts) :
        \A b \in ToSet(atts) : a.targetEpoch # b.targetEpoch
  BY DEF PutVotes, ToSet
<1>5. ASSUME OneOfTarget(db), NEW a \in PutVotes(db, atts), NEW b \in PutVotes(db, atts),
             a.targetEpoch = b.targetEpoch
      PROVE  a = b
  <2> DEFINE IsLast(i) == \A k \in DOMAIN atts : i < k => atts[k].targetEpoch # atts[i].targetEpoch
             Old(x) == x \in db /\ \A i \in DOMAIN atts : atts[i].targetEpoch # x.targetEpoch
             New(x) == \E i \in DOMAIN atts : x = atts[i] /\ IsLast(i)
  <2>1. (Old(a) \/ New(a)) /\ (Old(b) \/ New(b))
    BY DEF PutVotes
  <2>2. CASE Old(a) /\ Old(b)
    BY <1>5, <2>2 DEF OneOfTarget
  <2>3. CASE New(a) /\ New(b)
    <3>1. PICK i \in DOMAIN atts : a = atts[i] /\ IsLast(i)
      BY <2>3
    <3>2. PICK j \in DOMAIN atts : b = atts[j] /\ IsLast(j)
      BY <2>3
    <3>3. i \in Nat /\ j \in Nat /\ ~(i < j) /\ ~(j < i)
      BY <1>5, <3>1, <3>2
    <3> QED BY <3>1, <3>2, <3>3
  <2> QED BY <1>5, <2>1, <2>2, <2>3
<1> QED BY <1>1, <1>2, <1>3, <1>4, <1>5 DEF ToSet, OneOfTarget

-----------------------------------------------------------------------------
(* The invariant *)

\* Every vote has a record for its target, and what is on record was voted, or
\* its record was interrupted and no vote has its target.
VotesRecorded ==
  /\ \A v \in Voted \union torn : WellFormed(v)
  /\ attestationByTarget \subseteq Voted \union torn
  /\ OneOfTarget(attestationByTarget)
  /\ \A v \in Voted : \E b \in attestationByTarget : b.targetEpoch = v.targetEpoch
  /\ \A a \in attestationByTarget \ Voted : \A b \in Voted : a.targetEpoch # b.targetEpoch

\* The spans are what the votes entered into them give.
SpansKept ==
  /\ MinSpanOf(minSpan, minSpanVotes) /\ MaxSpanOf(maxSpan, maxSpanVotes)
  /\ Voted \ (torn \union leftOut) \subseteq minSpanVotes \intersect maxSpanVotes
  /\ minSpanVotes \subseteq Voted \union torn
  /\ maxSpanVotes \subseteq Voted

\* A record that was interrupted is signed as SAME_DATA: nothing that both
\* spans know surrounds it.
TornChecked ==
  \A a \in (attestationByTarget \ Voted) \intersect minSpanVotes :
    \A b \in maxSpanVotes : ~Surrounds(b, a)

BlocksRecorded ==
  /\ \A b \in signedBlocks \union importedBlocks :
       \E c \in blockBySlot : c.slot = b.slot
  /\ \A c \in blockBySlot :
       c.signingRoot # ZERO_ROOT => c \in signedBlocks \union importedBlocks

SlashingIInv == VotesRecorded /\ SpansKept /\ TornChecked /\ BlocksRecorded

\* Nothing is voted, and no span is set.
LEMMA InitSlashingIInv == SlashingInit => SlashingIInv
<1> SUFFICES ASSUME SlashingInit PROVE SlashingIInv
  OBVIOUS
<1>1. SpansKept
  BY DEF SlashingInit, MinSpanOf, MaxSpanOf, SpansKept, Voted
<1> QED BY <1>1 DEF SlashingInit, SlashingIInv, VotesRecorded, TornChecked,
                    BlocksRecorded, OneOfTarget, Voted

\* One attestation is written to its target.
LEMMA PutVote ==
  ASSUME NEW db, NEW att
  PROVE  /\ PutVotes(db, <<att>>) \subseteq db \union {att}
         /\ \A a \in PutVotes(db, <<att>>) \ {att} : a.targetEpoch # att.targetEpoch
         /\ OneOfTarget(db) => OneOfTarget(PutVotes(db, <<att>>))
         /\ \A a \in db \union {att} :
              \E b \in PutVotes(db, <<att>>) : b.targetEpoch = a.targetEpoch
<1>1. Len(<<att>>) \in Nat /\ DOMAIN <<att>> = 1..Len(<<att>>) /\ ToSet(<<att>>) = {att}
  BY DEF ToSet
<1> HIDE DEF PutVotes
<1> QED BY <1>1, PutVotesTargets

\* The votes that may be asked for.
LEMMA SafeVoteIsWellFormed ==
  ASSUME NEW att \in Votes, IsSafeVote(att)
  PROVE  WellFormed(att)
BY SlashingAssumption DEF IsSafeVote, WellFormed, Attestations

\* A vote that passes the checks conflicts with none that was voted, as far as
\* the spans know it.
LEMMA SafeVoteIsSafe ==
  ASSUME SlashingIInv, NEW att \in Votes, IsSafeVote(att)
  PROVE  /\ WellFormed(att)
         /\ \A b \in Voted : att.targetEpoch # b.targetEpoch
         /\ \A b \in minSpanVotes : ~Surrounds(att, b)
         /\ \A b \in maxSpanVotes : ~Surrounds(b, att)
<1>1. WellFormed(att)
  BY SafeVoteIsWellFormed
<1>2. \A b \in Voted : att.targetEpoch # b.targetEpoch
  <2> SUFFICES ASSUME NEW b \in Voted PROVE att.targetEpoch # b.targetEpoch
    OBVIOUS
  <2>1. PICK c \in attestationByTarget : c.targetEpoch = b.targetEpoch
    BY DEF SlashingIInv, VotesRecorded
  <2> QED BY <2>1 DEF IsSafeVote, SameTarget
<1>3. /\ \A b \in minSpanVotes : WellFormed(b)
      /\ \A b \in maxSpanVotes : WellFormed(b)
  BY DEF SlashingIInv, SpansKept, VotesRecorded
<1>4. \A b \in minSpanVotes : ~Surrounds(att, b)
  <2>1. MinSpanOf(minSpan, minSpanVotes) /\ ~IsSurrounding(minSpan, att)
    BY DEF SlashingIInv, SpansKept, IsSafeVote
  <2> QED BY <1>1, <1>3, <2>1, CheckFindsSurrounded
<1>5. \A b \in maxSpanVotes : ~Surrounds(b, att)
  <2>1. MaxSpanOf(maxSpan, maxSpanVotes) /\ ~IsSurrounded(maxSpan, att)
    BY DEF SlashingIInv, SpansKept, IsSafeVote
  <2> QED BY <1>1, <1>3, <2>1, CheckFindsSurrounding
<1> QED BY <1>1, <1>2, <1>4, <1>5

\* Each of the votes' steps preserves the invariant.  A recorded vote enters
\* both spans.
LEMMA SignAttestationIInv ==
  ASSUME SlashingIInv, NEW att \in Votes, SignAttestation(att)
  PROVE  SlashingIInv'
<1>1. /\ WellFormed(att)
      /\ \A b \in minSpanVotes : ~Surrounds(att, b)
  BY SafeVoteIsSafe DEF SignAttestation
<1>2. /\ Voted' = Voted \union {att} /\ torn' = torn /\ leftOut' = leftOut
      /\ attestationByTarget' = PutVotes(attestationByTarget, <<att>>)
      /\ minSpanVotes' = minSpanVotes \union {att}
      /\ maxSpanVotes' = maxSpanVotes \union {att}
  BY DEF SignAttestation, Voted
<1>3. VotesRecorded'
  BY <1>1, <1>2, PutVote DEF SlashingIInv, VotesRecorded, OneOfTarget
<1>4. SpansKept'
  <2>1. /\ MinSpanOf(minSpan, minSpanVotes) /\ MaxSpanOf(maxSpan, maxSpanVotes)
        /\ \A v \in minSpanVotes : WellFormed(v)
        /\ \A v \in maxSpanVotes : WellFormed(v)
    BY DEF SlashingIInv, SpansKept, VotesRecorded
  <2>2. MinSpanOf(minSpan, minSpanVotes)' /\ MaxSpanOf(maxSpan, maxSpanVotes)'
    <3>1. minSpan' = UpdateMinSpan(minSpan, att) /\ maxSpan' = UpdateMaxSpan(maxSpan, att)
      BY DEF SignAttestation
    <3> QED BY <1>1, <1>2, <2>1, <3>1, UpdateMinSpanExact, UpdateMaxSpanExact
  <2> QED BY <1>2, <2>2 DEF SlashingIInv, SpansKept
<1>5. TornChecked'
  <2>1. attestationByTarget' \ Voted' \subseteq attestationByTarget \ Voted
    BY <1>2, PutVote
  <2> QED BY <1>1, <1>2, <2>1 DEF SlashingIInv, TornChecked
<1>6. BlocksRecorded'
  BY DEF SignAttestation, blockVars, SlashingIInv, BlocksRecorded
<1> QED BY <1>3, <1>4, <1>5, <1>6 DEF SlashingIInv

\* A vote that is on record was voted, or its record was interrupted.
LEMMA SignSameAttestationIInv ==
  ASSUME SlashingIInv, NEW att \in Votes, SignSameAttestation(att)
  PROVE  SlashingIInv'
<1>1. att \in attestationByTarget
  BY DEF SignSameAttestation, IsSameVote, SameTarget, IsEqualNonZeroRoot
<1>2. att \in Voted \union torn
  BY <1>1 DEF SlashingIInv, VotesRecorded
<1>3. /\ Voted' = Voted \union {att} /\ torn' = torn /\ leftOut' = leftOut
      /\ attestationByTarget' = attestationByTarget
      /\ minSpan' = minSpan /\ minSpanVotes' = minSpanVotes
      /\ maxSpan' = maxSpan /\ maxSpanVotes' = maxSpanVotes
  BY DEF SignSameAttestation, spanVars, Voted
<1>4. VotesRecorded'
  <2>1. \A v \in Voted' \union torn' : WellFormed(v)
    BY <1>2, <1>3 DEF SlashingIInv, VotesRecorded
  <2>2. attestationByTarget' \subseteq Voted' \union torn'
    BY <1>2, <1>3 DEF SlashingIInv, VotesRecorded
  <2>3. \A v \in Voted' : \E b \in attestationByTarget' : b.targetEpoch = v.targetEpoch
    BY <1>1, <1>3 DEF SlashingIInv, VotesRecorded
  <2>4. \A a \in attestationByTarget' \ Voted' : \A b \in Voted' :
          a.targetEpoch # b.targetEpoch
    BY <1>1, <1>3 DEF SlashingIInv, VotesRecorded, OneOfTarget
  <2>5. OneOfTarget(attestationByTarget)'
    BY <1>3 DEF SlashingIInv, VotesRecorded
  <2> QED BY <2>1, <2>2, <2>3, <2>4, <2>5 DEF VotesRecorded
<1>5. SpansKept'
  BY <1>2, <1>3 DEF SlashingIInv, SpansKept
<1>6. TornChecked'
  BY <1>3 DEF SlashingIInv, TornChecked
<1>7. BlocksRecorded'
  BY DEF SignSameAttestation, blockVars, SlashingIInv, BlocksRecorded
<1> QED BY <1>4, <1>5, <1>6, <1>7 DEF SlashingIInv

\* After a crash the vote is in the spans that were written only.
LEMMA CrashInInsertIInv ==
  ASSUME SlashingIInv, NEW att \in Votes, NEW minWritten \in BOOLEAN,
         CrashInInsert(att, minWritten)
  PROVE  SlashingIInv'
<1>1. /\ WellFormed(att)
      /\ \A b \in Voted : att.targetEpoch # b.targetEpoch
      /\ \A b \in maxSpanVotes : ~Surrounds(b, att)
  BY SafeVoteIsSafe DEF CrashInInsert
<1>2. /\ Voted' = Voted /\ torn' = torn \union {att} /\ leftOut' = leftOut
      /\ attestationByTarget' = PutVotes(attestationByTarget, <<att>>)
      /\ maxSpan' = maxSpan /\ maxSpanVotes' = maxSpanVotes
      /\ \/ minSpan' = minSpan /\ minSpanVotes' = minSpanVotes
         \/ /\ minSpan' = UpdateMinSpan(minSpan, att)
            /\ minSpanVotes' = minSpanVotes \union {att}
  BY DEF CrashInInsert, Voted
<1>3. VotesRecorded'
  BY <1>1, <1>2, PutVote DEF SlashingIInv, VotesRecorded, OneOfTarget
<1>4. SpansKept'
  <2>1. /\ MinSpanOf(minSpan, minSpanVotes)
        /\ \A v \in minSpanVotes : WellFormed(v)
    BY DEF SlashingIInv, SpansKept, VotesRecorded
  <2>2. MinSpanOf(minSpan, minSpanVotes)'
    BY <1>1, <1>2, <2>1, UpdateMinSpanExact
  <2>3. MaxSpanOf(maxSpan, maxSpanVotes)'
    BY <1>2 DEF SlashingIInv, SpansKept
  <2> QED BY <1>2, <2>2, <2>3 DEF SlashingIInv, SpansKept
<1>5. TornChecked'
  <2>1. attestationByTarget' \subseteq attestationByTarget \union {att}
    BY <1>2, PutVote
  <2> QED BY <1>1, <1>2, <2>1 DEF SlashingIInv, TornChecked
<1>6. BlocksRecorded'
  BY DEF CrashInInsert, blockVars, SlashingIInv, BlocksRecorded
<1> QED BY <1>3, <1>4, <1>5, <1>6 DEF SlashingIInv

\* A file enters the spans, but for what is left out when one throws.
LEMMA ImportAttestationsIInv ==
  ASSUME SlashingIInv, NEW atts \in Interchanges, ImportAttestations(atts)
  PROVE  SlashingIInv'
<1>1. /\ Len(atts) \in Nat /\ DOMAIN atts = 1..Len(atts)
      /\ \A i \in DOMAIN atts : WellFormed(atts[i])
  <2> DEFINE All == Attestations(SigningRoot \union {ZERO_ROOT})
  <2>1. atts \in Seq(All)
    BY SlashingAssumption
  <2>2. \A i \in DOMAIN atts : atts[i].sourceEpoch <= atts[i].targetEpoch
    BY SlashingAssumption
  <2>3. \A a \in All : a.sourceEpoch \in 0..MaxEpoch /\ a.targetEpoch \in 0..MaxEpoch
    BY DEF Attestations
  <2> HIDE DEF All
  <2>4. \A i \in DOMAIN atts : atts[i] \in All
    BY <2>1
  <2> QED BY <2>1, <2>2, <2>3, <2>4 DEF WellFormed
<1> DEFINE new == InsertAll(atts)
<1>2. /\ Voted' = Voted \union ToSet(atts) /\ torn' = torn
      /\ attestationByTarget' = PutVotes(attestationByTarget, atts)
      /\ minSpan' = new.min /\ minSpanVotes' = new.inMin
      /\ maxSpan' = new.max /\ maxSpanVotes' = new.inMax
      /\ leftOut' = leftOut \union new.left
  BY DEF ImportAttestations, Voted
<1>3. \A v \in ToSet(atts) : WellFormed(v)
  BY <1>1 DEF ToSet
<1>4. Exact(new, ToSet(atts))
  <2>1. /\ MinSpanOf(minSpan, minSpanVotes) /\ MaxSpanOf(maxSpan, maxSpanVotes)
        /\ \A v \in minSpanVotes \union maxSpanVotes : WellFormed(v)
    BY DEF SlashingIInv, SpansKept, VotesRecorded
  <2> QED BY <1>1, <2>1, InsertAllExact
<1> HIDE DEF new
<1>5. /\ attestationByTarget' \subseteq attestationByTarget \union ToSet(atts)
      /\ \A a \in attestationByTarget' \ ToSet(atts) :
           \A b \in ToSet(atts) : a.targetEpoch # b.targetEpoch
      /\ OneOfTarget(attestationByTarget)'
      /\ \A a \in attestationByTarget \union ToSet(atts) :
           \E b \in attestationByTarget' : b.targetEpoch = a.targetEpoch
  BY <1>1, <1>2, PutVotesTargets DEF SlashingIInv, VotesRecorded, OneOfTarget
<1>6. VotesRecorded'
  BY <1>2, <1>3, <1>5 DEF SlashingIInv, VotesRecorded
<1>7. SpansKept'
  BY <1>2, <1>4 DEF Exact, SlashingIInv, SpansKept
<1>8. TornChecked'
  <2> SUFFICES ASSUME NEW a \in (attestationByTarget' \ Voted') \intersect minSpanVotes',
                      NEW b \in maxSpanVotes'
               PROVE  ~Surrounds(b, a)
    BY DEF TornChecked
  <2>1. a \in (attestationByTarget \ Voted) \intersect minSpanVotes
    BY <1>2, <1>4, <1>5 DEF Exact
  <2>2. CASE b \in maxSpanVotes
    BY <2>1, <2>2 DEF SlashingIInv, TornChecked
  <2>3. CASE b \notin maxSpanVotes
    BY <1>2, <1>4, <2>1, <2>3 DEF Exact
  <2> QED BY <2>2, <2>3
<1>9. BlocksRecorded'
  BY DEF ImportAttestations, blockVars, SlashingIInv, BlocksRecorded
<1> QED BY <1>6, <1>7, <1>8, <1>9 DEF SlashingIInv

\* Votes do not depend on blocks.
LEMMA VotesUnchanged ==
  ASSUME SlashingIInv, UNCHANGED voteVars
  PROVE  VotesRecorded' /\ SpansKept' /\ TornChecked'
<1>1. /\ Voted' = Voted /\ torn' = torn /\ attestationByTarget' = attestationByTarget
      /\ leftOut' = leftOut /\ minSpan' = minSpan /\ maxSpan' = maxSpan
      /\ minSpanVotes' = minSpanVotes /\ maxSpanVotes' = maxSpanVotes
  BY DEF voteVars, spanVars, Voted
<1> QED BY <1>1 DEF SlashingIInv, VotesRecorded, OneOfTarget, SpansKept, TornChecked

\* A block that is signed is on record.
LEMMA SignBlockIInv ==
  ASSUME SlashingIInv, NEW block \in Proposals, SignBlock(block)
  PROVE  SlashingIInv'
<1>1. IsSameBlock(block) => block \in blockBySlot
  BY DEF IsSameBlock, SameSlot, IsEqualNonZeroRoot
<1>2. block \in blockBySlot' /\ blockBySlot' \subseteq blockBySlot \union {block}
      /\ blockBySlot \subseteq blockBySlot'
  BY <1>1 DEF SignBlock
<1>3. BlocksRecorded'
  BY <1>2 DEF SignBlock, SlashingIInv, BlocksRecorded
<1> QED BY <1>3, VotesUnchanged DEF SignBlock, SlashingIInv

\* An imported block replaces one of its slot; its root may be missing.
LEMMA ImportBlockIInv ==
  ASSUME SlashingIInv, NEW block \in Proposals,
         NEW root \in {block.signingRoot, ZERO_ROOT}, ImportBlock(block, root)
  PROVE  SlashingIInv'
<1> DEFINE put == [block EXCEPT !.signingRoot = root]
<1>1. /\ put.slot = block.slot
      /\ put.signingRoot # ZERO_ROOT => put = block
  BY SlashingAssumption DEF Blocks
<1> HIDE DEF put
<1>2. /\ blockBySlot' = (blockBySlot \ SameSlot(block)) \union {put}
      /\ signedBlocks' = signedBlocks /\ importedBlocks' = importedBlocks \union {block}
  BY DEF ImportBlock, put
<1>3. \A c \in blockBySlot : c \in blockBySlot' \/ c.slot = put.slot
  BY <1>1, <1>2 DEF SameSlot
<1>4. ASSUME NEW b \in (signedBlocks \union importedBlocks)'
      PROVE  \E c \in blockBySlot' : c.slot = b.slot
  BY <1>1, <1>2, <1>3 DEF SlashingIInv, BlocksRecorded
<1>5. BlocksRecorded'
  BY <1>1, <1>2, <1>4 DEF SlashingIInv, BlocksRecorded
<1> QED BY <1>5, VotesUnchanged DEF ImportBlock, SlashingIInv

\* So every step does.
LEMMA NextSlashingIInv == SlashingIInv /\ [SlashingNext]_slashingVars => SlashingIInv'
<1> SUFFICES ASSUME SlashingIInv, [SlashingNext]_slashingVars PROVE SlashingIInv'
  OBVIOUS
<1>1. CASE VoteNext
  BY <1>1, SignAttestationIInv, SignSameAttestationIInv, CrashInInsertIInv,
     ImportAttestationsIInv DEF VoteNext
<1>2. CASE ProposalNext
  BY <1>2, SignBlockIInv, ImportBlockIInv DEF ProposalNext
<1>3. CASE UNCHANGED slashingVars
  <2>1. VotesRecorded' /\ SpansKept' /\ TornChecked'
    BY <1>3, VotesUnchanged DEF slashingVars, voteVars
  <2>2. BlocksRecorded'
    BY <1>3 DEF slashingVars, SlashingIInv, BlocksRecorded
  <2> QED BY <2>1, <2>2 DEF SlashingIInv
<1> QED BY <1>1, <1>2, <1>3 DEF SlashingNext

\* The record is complete, and the spans are those of what was voted.
THEOREM SlashingInvariance == SlashingSpec => []SlashingIInv
BY InitSlashingIInv, NextSlashingIInv, PTL DEF SlashingSpec

-----------------------------------------------------------------------------
(* What the invariant gives *)

\* Min and Max are what they are found to be.
LEMMA MinIsLeast ==
  ASSUME NEW S, S \subseteq Int, NEW m \in S, \A x \in S : m <= x
  PROVE  Min(S) = m
<1> DEFINE best == Min(S)
<1>1. \A x \in S : m <= x
  OBVIOUS
<1>2. best \in S /\ \A x \in S : best <= x
  BY <1>1 DEF Min
<1> HIDE DEF best
<1>3. best \in Int /\ m \in Int /\ best <= m /\ m <= best
  BY <1>1, <1>2
<1>4. best = m
  BY <1>3
<1> QED BY <1>4 DEF best

\* The same of Max.
LEMMA MaxIsGreatest ==
  ASSUME NEW S, S \subseteq Int, NEW m \in S, \A x \in S : x <= m
  PROVE  Max(S) = m
<1> DEFINE best == Max(S)
<1>1. \A x \in S : m >= x
  OBVIOUS
<1>2. best \in S /\ \A x \in S : best >= x
  BY <1>1 DEF Max
<1> HIDE DEF best
<1>3. best \in Int /\ m \in Int /\ best >= m /\ m >= best
  BY <1>1, <1>2
<1>4. best = m
  BY <1>3
<1> QED BY <1>4 DEF best

\* A span that bounds the distances and is one of them is their least.
LEMMA MinSpanIsMin ==
  ASSUME NEW votes, \A v \in votes : WellFormed(v), MinSpanOf(minSpan, votes),
         NEW epoch \in 0..MaxEpoch
  PROVE  minSpan[epoch] = IF LaterDistances(votes, epoch) = {} THEN 0
                          ELSE Min(LaterDistances(votes, epoch))
<1> DEFINE D == LaterDistances(votes, epoch)
           m == minSpan[epoch]
<1>1. epoch \in Int /\ m \in Nat
  BY SlashingAssumption DEF MinSpanOf
<1>2. D \subseteq Int
  BY <1>1 DEF LaterDistances, WellFormed
<1>3. \A x \in D : m # 0 /\ m <= x
  BY DEF LaterDistances, MinSpanOf
<1>4. m # 0 => m \in D
  BY DEF LaterDistances, MinSpanOf
<1> HIDE DEF D, m
<1>5. CASE D = {}
  BY <1>4, <1>5 DEF D, m
<1>6. CASE D # {}
  <2>1. m \in D
    BY <1>3, <1>4, <1>6
  <2>2. Min(D) = m
    BY <1>2, <1>3, <2>1, MinIsLeast
  <2> QED BY <1>6, <2>2 DEF D, m
<1> QED BY <1>5, <1>6

\* The same of the greatest.
LEMMA MaxSpanIsMax ==
  ASSUME NEW votes, \A v \in votes : WellFormed(v), MaxSpanOf(maxSpan, votes),
         NEW epoch \in 0..MaxEpoch
  PROVE  maxSpan[epoch] = IF EarlierDistances(votes, epoch) = {} THEN 0
                          ELSE Max(EarlierDistances(votes, epoch))
<1> DEFINE D == EarlierDistances(votes, epoch)
           m == maxSpan[epoch]
<1>1. epoch \in Int /\ m \in Nat
  BY SlashingAssumption DEF MaxSpanOf
<1>2. D \subseteq Int /\ \A x \in D : x > 0
  BY <1>1 DEF EarlierDistances, WellFormed
<1>3. \A x \in D : m >= x
  BY DEF EarlierDistances, MaxSpanOf
<1>4. m # 0 => m \in D
  BY DEF EarlierDistances, MaxSpanOf
<1> HIDE DEF D, m
<1>5. CASE D = {}
  BY <1>4, <1>5 DEF D, m
<1>6. CASE D # {}
  <2>1. m \in D
    <3>1. PICK x \in D : m >= x /\ x > 0 /\ x \in Int
      BY <1>2, <1>3, <1>6
    <3> QED BY <1>1, <1>4, <3>1
  <2>2. \A x \in D : x <= m
    BY <1>1, <1>2, <1>3
  <2>3. Max(D) = m
    BY <1>2, <2>1, <2>2, MaxIsGreatest
  <2> QED BY <1>6, <2>3 DEF D, m
<1> QED BY <1>5, <1>6

\* The invariant leaves the spans no choice.
LEMMA InvariantGivesSpans == SlashingIInv => SpansExact
<1> SUFFICES ASSUME SlashingIInv PROVE SpansExact
  OBVIOUS
<1>1. /\ MinSpanOf(minSpan, minSpanVotes) /\ MaxSpanOf(maxSpan, maxSpanVotes)
      /\ \A v \in minSpanVotes : WellFormed(v)
      /\ \A v \in maxSpanVotes : WellFormed(v)
  BY DEF SlashingIInv, SpansKept, VotesRecorded
<1>2. ASSUME NEW epoch \in 0..MaxEpoch
      PROVE  /\ minSpan[epoch] = IF LaterDistances(minSpanVotes, epoch) = {} THEN 0
                                 ELSE Min(LaterDistances(minSpanVotes, epoch))
             /\ maxSpan[epoch] = IF EarlierDistances(maxSpanVotes, epoch) = {} THEN 0
                                 ELSE Max(EarlierDistances(maxSpanVotes, epoch))
  BY <1>1, MinSpanIsMin, MaxSpanIsMax
<1>3. Voted \ (torn \union leftOut) \subseteq minSpanVotes \intersect maxSpanVotes
  BY DEF SlashingIInv, SpansKept
<1> QED BY <1>2, <1>3 DEF SpansExact

\* SpansExact: the spans that updateMinSpan and updateMaxSpan leave, each walk
\* cut short where it stops improving, are the least and the greatest distances
\* of the votes entered into them, whatever a crash or a failed import cut.
THEOREM SpansAreExact == SlashingSpec => []SpansExact
BY SlashingInvariance, InvariantGivesSpans, PTL

\* What a step signs, against what was signed or imported before it.
VotesSafe ==
  \A a \in signedVotes' : IsNew(a, signedVotes, importedVotes) =>
    \A b \in Voted :
      /\ a.targetEpoch # b.targetEpoch
      /\ Surrounds(a, b) => b \notin minSpanVotes \/ a \notin maxSpanVotes'
      /\ Surrounds(b, a) => a \notin minSpanVotes' \/ b \notin maxSpanVotes

BlocksSafe ==
  \A a \in signedBlocks' : IsNew(a, signedBlocks, importedBlocks) =>
    \A b \in signedBlocks \union importedBlocks : a.slot # b.slot

\* A vote that passes the checks conflicts with none that the spans know.
LEMMA SignAttestationIsSafe ==
  ASSUME SlashingIInv, NEW att \in Votes, SignAttestation(att)
  PROVE  VotesSafe
<1>1. /\ \A b \in Voted : att.targetEpoch # b.targetEpoch
      /\ \A b \in minSpanVotes : ~Surrounds(att, b)
      /\ \A b \in maxSpanVotes : ~Surrounds(b, att)
  BY SafeVoteIsSafe DEF SignAttestation
<1>2. signedVotes' = signedVotes \union {att}
  BY DEF SignAttestation
<1> QED BY <1>1, <1>2 DEF VotesSafe, IsNew

\* A vote that is on record was checked when its record was interrupted, and
\* what was checked later found it in the spans it was entered into.
LEMMA SignSameAttestationIsSafe ==
  ASSUME SlashingIInv, NEW att \in Votes, SignSameAttestation(att)
  PROVE  VotesSafe
<1>1. att \in attestationByTarget
  BY DEF SignSameAttestation, IsSameVote, SameTarget, IsEqualNonZeroRoot
<1>2. /\ signedVotes' = signedVotes \union {att}
      /\ minSpanVotes' = minSpanVotes /\ maxSpanVotes' = maxSpanVotes
  BY DEF SignSameAttestation, spanVars
<1> SUFFICES ASSUME att \notin Voted, NEW b \in Voted
             PROVE  /\ att.targetEpoch # b.targetEpoch
                    /\ att \notin maxSpanVotes
                    /\ Surrounds(b, att) => att \notin minSpanVotes \/ b \notin maxSpanVotes
  BY <1>2 DEF VotesSafe, IsNew, Voted
<1>3. att.targetEpoch # b.targetEpoch
  BY <1>1 DEF SlashingIInv, VotesRecorded
<1>4. att \notin maxSpanVotes
  BY DEF SlashingIInv, SpansKept
<1>5. Surrounds(b, att) => att \notin minSpanVotes \/ b \notin maxSpanVotes
  BY <1>1 DEF SlashingIInv, TornChecked
<1> QED BY <1>3, <1>4, <1>5

\* A block of a slot that has one on record is signed only if it is that one.
LEMMA SignBlockIsSafe ==
  ASSUME SlashingIInv, NEW block \in Proposals, SignBlock(block)
  PROVE  BlocksSafe
<1> SUFFICES ASSUME block \notin signedBlocks \union importedBlocks,
                    NEW b \in signedBlocks \union importedBlocks, block.slot = b.slot
             PROVE  FALSE
  BY DEF BlocksSafe, SignBlock, IsNew
<1>1. CASE IsSameBlock(block)
  <2>1. block \in blockBySlot /\ block.signingRoot # ZERO_ROOT
    BY <1>1 DEF IsSameBlock, SameSlot, IsEqualNonZeroRoot
  <2> QED BY <2>1 DEF SlashingIInv, BlocksRecorded
<1>2. CASE IsSafeBlock(block)
  <2>1. PICK c \in blockBySlot : c.slot = b.slot
    BY DEF SlashingIInv, BlocksRecorded
  <2> QED BY <1>2, <2>1 DEF IsSafeBlock, SameSlot
<1> QED BY <1>1, <1>2 DEF SignBlock

\* The other steps sign nothing.
LEMMA NextIsSafe == SlashingIInv /\ [SlashingNext]_slashingVars => VotesSafe /\ BlocksSafe
<1> SUFFICES ASSUME SlashingIInv, [SlashingNext]_slashingVars PROVE VotesSafe /\ BlocksSafe
  OBVIOUS
<1>1. signedVotes' = signedVotes => VotesSafe
  BY DEF VotesSafe, IsNew
<1>2. signedBlocks' = signedBlocks => BlocksSafe
  BY DEF BlocksSafe, IsNew
<1>3. CASE VoteNext
  <2>1. signedBlocks' = signedBlocks
    BY <1>3 DEF VoteNext, SignAttestation, SignSameAttestation, CrashInInsert,
                ImportAttestations, blockVars
  <2>2. ASSUME NEW att \in Votes, NEW minWritten \in BOOLEAN, CrashInInsert(att, minWritten)
        PROVE  VotesSafe
    BY <1>1, <2>2 DEF CrashInInsert
  <2>3. ASSUME NEW atts \in Interchanges, ImportAttestations(atts)
        PROVE  VotesSafe
    BY <1>1, <2>3 DEF ImportAttestations
  <2>4. VotesSafe
    BY <1>3, <2>2, <2>3, SignAttestationIsSafe, SignSameAttestationIsSafe DEF VoteNext
  <2> QED BY <1>2, <2>1, <2>4
<1>4. CASE ProposalNext
  <2>1. signedVotes' = signedVotes
    BY <1>4 DEF ProposalNext, SignBlock, ImportBlock, voteVars
  <2>2. ASSUME NEW block \in Proposals, NEW root \in {block.signingRoot, ZERO_ROOT},
               ImportBlock(block, root)
        PROVE  BlocksSafe
    BY <1>2, <2>2 DEF ImportBlock
  <2>3. BlocksSafe
    BY <1>4, <2>2, SignBlockIsSafe DEF ProposalNext
  <2> QED BY <1>1, <2>1, <2>3
<1>5. CASE UNCHANGED slashingVars
  BY <1>1, <1>2, <1>5 DEF slashingVars
<1> QED BY <1>3, <1>4, <1>5 DEF SlashingNext

\* NothingSlashableSigned: checkAndInsertAttestation and
\* checkAndInsertBlockProposal never sign two votes of a target or two blocks of
\* a slot, and a surrounding vote only where a crash or a failed import left one
\* of the two out of the span that would have told.
THEOREM NothingSlashable == SlashingSpec => NothingSlashableSigned
<1>1. SlashingIInv /\ [SlashingNext]_slashingVars
        => [VotesSafe /\ BlocksSafe]_slashingVars
  BY NextIsSafe
<1> QED BY <1>1, SlashingInvariance, PTL DEF SlashingSpec, NothingSlashableSigned, VotesSafe, BlocksSafe

=============================================================================
