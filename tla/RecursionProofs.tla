-------------------------- MODULE RecursionProofs ---------------------------
(***************************************************************************)
(* Induction over the natural numbers for a set instead of a predicate,    *)
(* since a theorem with an operator as a parameter cannot be used.  It     *)
(* rests on the strict subsets of finite sets being well founded.  With    *)
(* it, what the recursive function of Selection returns.                   *)
(***************************************************************************)
EXTENDS Integers, FiniteSets, Selection, FiniteSetTheorems,
        SequenceTheorems, WellFoundedInduction, TLAPS

\* A set of natural numbers has a least element.
LEMMA LeastNatural ==
  ASSUME NEW S \in SUBSET Nat, S # {}
  PROVE  \E m \in S : \A k \in S : m <= k
<1> DEFINE T == {0..m : m \in S}
           R == StrictSubsetOrdering(Nat)
<1>1. IsWellFoundedOn(R, FiniteSubsetsOf(Nat))
  BY FS_StrictSubsetOrderingWellFounded
<1>2. T \subseteq FiniteSubsetsOf(Nat)
  <2> SUFFICES ASSUME NEW m \in S PROVE 0..m \in FiniteSubsetsOf(Nat)
    OBVIOUS
  <2>1. m \in Nat /\ IsFiniteSet(0..m)
    BY FS_Interval
  <2> QED BY <2>1 DEF FiniteSubsetsOf
<1>3. T # {}
  OBVIOUS
<1>4. PICK x \in T : \A y \in T : ~ (<<y, x>> \in R)
  <2> HIDE DEF T, R
  <2> QED BY <1>1, <1>2, <1>3, WFMin
<1>5. PICK m \in S : x = 0..m
  BY <1>4
<1>6. ASSUME NEW k \in S, k < m PROVE FALSE
  <2>1. 0..k \in T /\ 0..k \subseteq Nat /\ x \subseteq Nat
    BY <1>5
  <2>2. 0..k \subseteq x /\ m \in x /\ m \notin 0..k
    BY <1>5, <1>6
  <2>3. <<0..k, x>> \in R
    BY <2>1, <2>2 DEF StrictSubsetOrdering
  <2> QED BY <1>4, <2>1, <2>3
<1>7. \A k \in S : m <= k
  BY <1>6
<1> QED BY <1>7

\* A set of natural numbers that holds 0 and with a number below n the next one
\* holds all up to n.
LEMMA Induction ==
  ASSUME NEW n \in Nat, NEW S, 0 \in S, \A k \in 0..(n - 1) : k \in S => k + 1 \in S
  PROVE  0..n \subseteq S
<1> DEFINE Bad == {k \in 0..n : k \notin S}
<1>1. CASE Bad = {}
  BY <1>1
<1>2. CASE Bad # {}
  <2>1. PICK m \in Bad : \A k \in Bad : m <= k
    <3>1. Bad \in SUBSET Nat
      OBVIOUS
    <3> HIDE DEF Bad
    <3> QED BY <1>2, <3>1, LeastNatural
  <2>2. m # 0 /\ m \in Nat /\ m <= n /\ m \notin S
    BY <2>1
  <2>3. m - 1 \notin Bad /\ m - 1 \in 0..n /\ m - 1 \in 0..(n - 1)
    BY <2>1, <2>2
  <2>4. m - 1 \in S
    BY <2>3
  <2>5. (m - 1) + 1 \in S /\ (m - 1) + 1 = m
    BY <2>2, <2>3, <2>4
  <2> QED BY <2>2, <2>5
<1> QED BY <1>1, <1>2

\* A set of natural numbers with a bound has a greatest element.
LEMMA GreatestNatural ==
  ASSUME NEW S \in SUBSET Nat, S # {}, NEW bound \in Nat, \A k \in S : k <= bound
  PROVE  \E m \in S : \A k \in S : k <= m
<1> DEFINE T == {bound - k : k \in S}
<1>1. T \in SUBSET Nat /\ T # {}
  <2>1. \A k \in S : bound - k \in Nat
    OBVIOUS
  <2> QED BY <2>1
<1>2. PICK t \in T : \A u \in T : t <= u
  <2> HIDE DEF T
  <2> QED BY <1>1, LeastNatural
<1>3. PICK m \in S : t = bound - m
  BY <1>2
<1>4. \A k \in S : bound - m <= bound - k
  BY <1>2, <1>3
<1> QED BY <1>3, <1>4

-----------------------------------------------------------------------------
(* Selection *)

\* What Selection has taken of the first n elements.
Taken(s, indices) ==
  CHOOSE taken :
    taken = [n \in 0..Len(s) |->
               IF n = 0 THEN <<>>
               ELSE IF n \in indices THEN Append(taken[n - 1], s[n])
               ELSE taken[n - 1]]

\* The recursion is well defined.
LEMMA TakenSteps ==
  ASSUME NEW s, Len(s) \in Nat, NEW indices
  PROVE  /\ Selection(s, indices) = Taken(s, indices)[Len(s)]
         /\ Taken(s, indices)[0] = <<>>
         /\ \A n \in 1..Len(s) :
              Taken(s, indices)[n] = IF n \in indices
                                     THEN Append(Taken(s, indices)[n - 1], s[n])
                                     ELSE Taken(s, indices)[n - 1]
<1> DEFINE size == Len(s)
           Next(t, k) == IF k \in indices THEN Append(t, s[k]) ELSE t
           Steps(g, n) == [k \in 0..n |-> IF k = 0 THEN <<>> ELSE Next(g[k - 1], k)]
           Defined == {n \in 0..size : \E g : g = Steps(g, n)}
<1> HIDE DEF Next
<1>1. 0 \in Defined
  <2> DEFINE g == [k \in 0..0 |-> <<>>]
  <2>1. \A k \in 0..0 : k = 0
    OBVIOUS
  <2>2. g = Steps(g, 0)
    BY <2>1
  <2> HIDE DEF g, Steps
  <2>3. \E x : x = Steps(x, 0)
    BY <2>2
  <2> QED BY <2>3
<1>2. ASSUME NEW n \in 0..(size - 1), n \in Defined
      PROVE  n + 1 \in Defined
  <2>1. PICK g : g = Steps(g, n)
    BY <1>2
  <2> DEFINE h == [k \in 0..(n + 1) |-> IF k = n + 1 THEN Next(g[n], n + 1) ELSE g[k]]
  <2>2. \A k \in 0..n : g[k] = IF k = 0 THEN <<>> ELSE Next(g[k - 1], k)
    <3>1. \A k \in 0..n : Steps(g, n)[k] = IF k = 0 THEN <<>> ELSE Next(g[k - 1], k)
      OBVIOUS
    <3> HIDE DEF Steps
    <3> QED BY <2>1, <3>1
  <2>3. \A k \in 0..(n + 1) : h[k] = IF k = 0 THEN <<>> ELSE Next(h[k - 1], k)
    <3> SUFFICES ASSUME NEW k \in 0..(n + 1)
                 PROVE  h[k] = IF k = 0 THEN <<>> ELSE Next(h[k - 1], k)
      OBVIOUS
    <3>1. CASE k = n + 1
      BY <3>1
    <3>2. CASE k # n + 1
      <4>1. k \in 0..n /\ h[k] = g[k] /\ (k # 0 => h[k - 1] = g[k - 1])
        BY <3>2
      <4> QED BY <2>2, <4>1
    <3> QED BY <3>1, <3>2
  <2>4. h = Steps(h, n + 1)
    BY <2>3
  <2>5. n + 1 \in 0..size
    OBVIOUS
  <2> QED BY <2>4, <2>5
<1>3. size \in Defined
  <2> HIDE DEF Defined
  <2>1. 0..size \subseteq Defined
    BY <1>1, <1>2, Induction
  <2> QED BY <2>1
<1>4. PICK g : g = Steps(g, size)
  BY <1>3
<1>5. Taken(s, indices) = Steps(Taken(s, indices), size)
  BY <1>4 DEF Taken, Next
<1>6. Taken(s, indices)[0] = <<>>
  BY <1>5
<1>7. \A n \in 1..size : Taken(s, indices)[n] = Next(Taken(s, indices)[n - 1], n)
  BY <1>5
<1>8. Selection(s, indices) = Taken(s, indices)[size]
  BY DEF Selection, Taken
<1> QED BY <1>6, <1>7, <1>8 DEF Next

\* The elements of t are those of s at the indices, in their order.
IsSelection(t, s, n, indices) ==
  \E at \in [1..Len(t) -> 1..n] :
    /\ \A j \in 1..Len(t) : at[j] \in indices /\ t[j] = s[at[j]]
    /\ \A j, k \in 1..Len(t) : j < k => at[j] < at[k]
    /\ \A i \in 1..n : i \in indices => \E j \in 1..Len(t) : at[j] = i

\* Selection takes the elements at the indices and leaves them in order.
LEMMA SelectionSelects ==
  ASSUME NEW S, NEW s \in Seq(S), NEW indices
  PROVE  /\ Selection(s, indices) \in Seq(S)
         /\ IsSelection(Selection(s, indices), s, Len(s), indices)
<1> DEFINE taken == Taken(s, indices)
           Good == {n \in 0..Len(s) : taken[n] \in Seq(S) /\ IsSelection(taken[n], s, n, indices)}
<1>1. Len(s) \in Nat /\ DOMAIN s = 1..Len(s)
  OBVIOUS
<1>2. /\ taken[0] = <<>>
      /\ \A n \in 1..Len(s) : taken[n] = IF n \in indices THEN Append(taken[n - 1], s[n])
                                         ELSE taken[n - 1]
  BY <1>1, TakenSteps
<1> HIDE DEF taken
<1>3. 0 \in Good
  <2>1. IsSelection(<<>>, s, 0, indices)
    <3> DEFINE at == [j \in 1..0 |-> j]
    <3>1. at \in [1..0 -> 1..0]
      OBVIOUS
    <3>2. Len(<<>>) = 0
      OBVIOUS
    <3>3. 1..0 = {}
      OBVIOUS
    <3> HIDE DEF at
    <3> QED BY <3>1, <3>2, <3>3 DEF IsSelection
  <2>2. <<>> \in Seq(S) /\ 0 \in 0..Len(s)
    BY <1>1
  <2>3. taken[0] \in Seq(S) /\ IsSelection(taken[0], s, 0, indices)
    BY <1>2, <2>1, <2>2
  <2> QED BY <2>2, <2>3
<1>4. ASSUME NEW n \in 0..(Len(s) - 1), n \in Good
      PROVE  n + 1 \in Good
  <2> DEFINE t == taken[n]
             u == taken[n + 1]
             m == Len(t)
  <2>1. t \in Seq(S) /\ IsSelection(t, s, n, indices) /\ m \in Nat
    BY <1>4
  <2>2. n \in Nat /\ n + 1 \in 1..Len(s) /\ (n + 1) - 1 = n /\ s[n + 1] \in S
    BY <1>1
  <2>3. u = IF n + 1 \in indices THEN Append(t, s[n + 1]) ELSE t
    BY <1>2, <2>2
  <2> HIDE DEF t, u
  <2>4. PICK at \in [1..m -> 1..n] :
          /\ \A j \in 1..m : at[j] \in indices /\ t[j] = s[at[j]]
          /\ \A j, k \in 1..m : j < k => at[j] < at[k]
          /\ \A i \in 1..n : i \in indices => \E j \in 1..m : at[j] = i
    BY <2>1 DEF IsSelection
  <2>5. CASE n + 1 \in indices
    <3>1. /\ u \in Seq(S) /\ Len(u) = m + 1 /\ u[m + 1] = s[n + 1]
          /\ \A j \in 1..m : u[j] = t[j]
      BY <2>1, <2>2, <2>3, <2>5
    <3> HIDE DEF m
    <3> DEFINE to == [j \in 1..(m + 1) |-> IF j = m + 1 THEN n + 1 ELSE at[j]]
    <3>2. to \in [1..(m + 1) -> 1..(n + 1)]
      BY <2>1, <2>2, <2>4
    <3>3. /\ to[m + 1] = n + 1
          /\ \A j \in 1..m : to[j] = at[j] /\ at[j] \in 1..n /\ j \in 1..(m + 1)
          /\ m + 1 \in 1..(m + 1)
          /\ \A j \in 1..(m + 1) : j \in 1..m \/ j = m + 1
      BY <2>1, <2>4
    <3> HIDE DEF to
    <3>4. \A j \in 1..(m + 1) : to[j] \in indices /\ u[j] = s[to[j]]
      BY <2>4, <2>5, <3>1, <3>3
    <3>5. ASSUME NEW j \in 1..(m + 1), NEW k \in 1..(m + 1), j < k PROVE to[j] < to[k]
      <4>1. j \in 1..m
        BY <2>1, <3>5
      <4>2. CASE k = m + 1
        BY <2>2, <3>3, <4>1, <4>2
      <4>3. CASE k \in 1..m
        BY <2>4, <3>3, <3>5, <4>1, <4>3
      <4> QED BY <3>3, <4>2, <4>3
    <3>6. ASSUME NEW i \in 1..(n + 1), i \in indices
          PROVE  \E j \in 1..(m + 1) : to[j] = i
      <4>1. CASE i = n + 1
        BY <3>3, <4>1
      <4>2. CASE i \in 1..n
        BY <2>4, <3>3, <3>6, <4>2
      <4> QED BY <2>2, <4>1, <4>2
    <3>7. IsSelection(u, s, n + 1, indices)
      <4> DEFINE size == Len(u)
      <4>1. size = m + 1
        BY <3>1
      <4> HIDE DEF size
      <4>2. \E x \in [1..size -> 1..(n + 1)] :
              /\ \A j \in 1..size : x[j] \in indices /\ u[j] = s[x[j]]
              /\ \A j, k \in 1..size : j < k => x[j] < x[k]
              /\ \A i \in 1..(n + 1) : i \in indices => \E j \in 1..size : x[j] = i
        BY <3>2, <3>4, <3>5, <3>6, <4>1
      <4> QED BY <4>2 DEF IsSelection, size
    <3> QED BY <2>2, <3>1, <3>7 DEF u
  <2>6. CASE n + 1 \notin indices
    <3>1. at \in [1..m -> 1..(n + 1)]
      BY <2>2, <2>4
    <3>2. \A i \in 1..(n + 1) : i \in indices => i \in 1..n
      BY <2>2, <2>6
    <3>3. IsSelection(t, s, n + 1, indices)
      BY <2>4, <3>1, <3>2 DEF IsSelection, m
    <3> QED BY <2>1, <2>2, <2>3, <2>6, <3>3 DEF u
  <2> QED BY <2>5, <2>6
<1>5. Len(s) \in Good
  <2> HIDE DEF Good
  <2>1. 0..Len(s) \subseteq Good
    BY <1>1, <1>3, <1>4, Induction
  <2> QED BY <1>1, <2>1
<1>6. Selection(s, indices) = taken[Len(s)]
  BY <1>1, TakenSteps DEF taken
<1> QED BY <1>5, <1>6

\* Selecting from an index on gives the rest of the sequence.
LEMMA SelectionOfRest ==
  ASSUME NEW S, NEW s \in Seq(S), NEW first \in 1..Len(s), NEW indices,
         \A i \in 1..Len(s) : i \in indices <=> first <= i
  PROVE  Selection(s, indices) = SubSeq(s, first, Len(s))
<1> DEFINE taken == Taken(s, indices)
           Good == {n \in 0..Len(s) : taken[n] = SubSeq(s, first, n)}
<1>1. Len(s) \in Nat /\ DOMAIN s = 1..Len(s) /\ first \in Nat /\ 1 <= first /\ first <= Len(s)
  OBVIOUS
<1>2. /\ taken[0] = <<>>
      /\ \A n \in 1..Len(s) : taken[n] = IF n \in indices THEN Append(taken[n - 1], s[n])
                                         ELSE taken[n - 1]
  BY <1>1, TakenSteps
<1> HIDE DEF taken
<1>3. \A n \in 0..Len(s) : n < first => SubSeq(s, first, n) = <<>>
  BY <1>1
<1>4. 0 \in Good
  <2>1. 0 \in 0..Len(s) /\ 0 < first
    BY <1>1
  <2>2. SubSeq(s, first, 0) = <<>>
    BY <1>3, <2>1
  <2> QED BY <1>2, <2>1, <2>2
<1>5. ASSUME NEW n \in 0..(Len(s) - 1), n \in Good
      PROVE  n + 1 \in Good
  <2>1. n \in Nat /\ n + 1 \in 1..Len(s) /\ (n + 1) - 1 = n /\ n + 1 \in 0..Len(s)
    BY <1>1
  <2>2. taken[n] = SubSeq(s, first, n)
    BY <1>5
  <2>3. CASE n + 1 < first
    <3>1. taken[n + 1] = taken[n] /\ n < first
      BY <1>1, <1>2, <2>1, <2>3
    <3> QED BY <1>3, <2>1, <2>2, <2>3, <3>1
  <2>4. CASE first <= n + 1
    <3>1. taken[n + 1] = Append(SubSeq(s, first, n), s[n + 1])
      BY <1>2, <2>1, <2>2, <2>4
    <3>2. Append(SubSeq(s, first, n), s[n + 1]) = SubSeq(s, first, n + 1)
      BY <1>1, <2>1, <2>4
    <3> QED BY <2>1, <3>1, <3>2
  <2> QED BY <1>1, <2>1, <2>3, <2>4
<1>6. Len(s) \in Good
  <2> HIDE DEF Good
  <2>1. 0..Len(s) \subseteq Good
    BY <1>1, <1>4, <1>5, Induction
  <2> QED BY <1>1, <2>1
<1>7. Selection(s, indices) = taken[Len(s)]
  BY <1>1, TakenSteps DEF taken
<1> QED BY <1>6, <1>7

=============================================================================
