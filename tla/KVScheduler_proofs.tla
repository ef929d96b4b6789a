-------------------------- MODULE KVScheduler_proofs --------------------------
(***************************************************************************)
(* The scheduler's safety properties, for every number of requests,        *)
(* blocks and tokens, and all limits.  First, facts about sequences        *)
(* without repetitions and about what the block pool does to its queue,    *)
(* counts and hashes.                                                      *)
(*                                                                         *)
(* The properties rest on each other, so that one inductive invariant has  *)
(* all of them: a block is handed out safely because the free queue and    *)
(* the holders account for it; hashed blocks stay correct because a block  *)
(* with two holders is a committed one; and a step never computes outside  *)
(* a request's blocks because of what the previous one left in computed.   *)
(* Last, the scheduler implements RequestOutputs: to a request's output,   *)
(* preemption, caching and chunks make no difference.                      *)
(***************************************************************************)
EXTENDS KVScheduler, SequenceTheorems, FiniteSetTheorems, TLAPS

-------------------------------------------------------------------------------
(* Numbers. *)

\* The quotient of two natural numbers is rounded down.
LEMMA DivMod ==
  ASSUME NEW n \in Nat, NEW d \in Nat, d > 0
  PROVE  /\ n \div d \in Nat
         /\ d * (n \div d) <= n
         /\ n < d * (n \div d) + d
  OBVIOUS

\* The larger of two numbers.
LEMMA MaxOfTwo ==
  ASSUME NEW a \in Int, NEW b \in Int
  PROVE  Max({a, b}) = IF a >= b THEN a ELSE b
<1>1. \E x \in {a, b} : \A y \in {a, b} : x >= y
  OBVIOUS
<1>. QED BY <1>1 DEF Max

\* The smaller of two numbers.
LEMMA MinOfTwo ==
  ASSUME NEW a \in Int, NEW b \in Int
  PROVE  Min({a, b}) = IF a <= b THEN a ELSE b
<1>1. \E x \in {a, b} : \A y \in {a, b} : x <= y
  OBVIOUS
<1>. QED BY <1>1 DEF Min

\* The smallest of three numbers is one of them, and no larger than the others.
LEMMA MinOfThree ==
  ASSUME NEW a \in Int, NEW b \in Int, NEW c \in Int
  PROVE  /\ Min({a, b, c}) \in {a, b, c}
         /\ Min({a, b, c}) <= a /\ Min({a, b, c}) <= b /\ Min({a, b, c}) <= c
<1>1. \E x \in {a, b, c} : \A y \in {a, b, c} : x <= y
  OBVIOUS
<1>. QED BY <1>1 DEF Min

\* Every non-empty set of natural numbers has a least element.
LEMMA LeastNatural ==
  ASSUME NEW T \in SUBSET Nat, T # {}
  PROVE  \E n \in T : \A m \in T : n <= m
<1>. DEFINE I == {0..n : n \in T}
<1>1. \A n \in T : 0..n \in FiniteSubsetsOf(Nat)
  <2>. SUFFICES ASSUME NEW n \in T PROVE 0..n \in FiniteSubsetsOf(Nat)
    OBVIOUS
  <2>1. 0..n \in SUBSET Nat
    OBVIOUS
  <2>2. IsFiniteSet(0..n)
    BY FS_Interval
  <2>. QED BY <2>1, <2>2 DEF FiniteSubsetsOf
<1>2. I \in SUBSET FiniteSubsetsOf(Nat) /\ I # {}
  BY <1>1
<1>3. PICK x \in I : \A y \in I : ~ (<<y, x>> \in StrictSubsetOrdering(Nat))
  <2>. HIDE DEF I
  <2>. QED BY <1>2, WFMin, FS_StrictSubsetOrderingWellFounded
<1>4. PICK n \in T : x = 0..n
  OBVIOUS
<1>5. ASSUME NEW m \in T, m < n PROVE FALSE
  <2>1. 0..m \in I
    OBVIOUS
  <2>2. 0..m \subseteq 0..n /\ 0..m # 0..n
    <3>1. n \in 0..n /\ ~(n \in 0..m)
      BY <1>5
    <3>. QED BY <3>1, <1>5
  <2>3. <<0..m, 0..n>> \in StrictSubsetOrdering(Nat)
    BY <2>2, <1>1 DEF StrictSubsetOrdering
  <2>. QED BY <2>1, <2>3, <1>3, <1>4
<1>. QED BY <1>4, <1>5

\* A set of natural numbers has its least element as minimum.
LEMMA MinOfNaturals ==
  ASSUME NEW S \in SUBSET Nat, S # {}
  PROVE  Min(S) \in S /\ \A y \in S : Min(S) <= y
<1>1. \E x \in S : \A y \in S : x <= y
  BY LeastNatural
<1>. QED BY <1>1 DEF Min

\* A bounded one has a maximum.
LEMMA MaxOfNaturals ==
  ASSUME NEW m \in Nat, NEW S \in SUBSET (0..m), S # {}
  PROVE  Max(S) \in S /\ \A y \in S : y <= Max(S)
<1>. DEFINE T == {m - x : x \in S}
<1>1. T \in SUBSET Nat /\ T # {}
  <2>1. \A x \in S : m - x \in Nat
    OBVIOUS
  <2>2. T # {}
    OBVIOUS
  <2>. QED BY <2>1, <2>2
<1>2. PICK n \in T : \A y \in T : n <= y
  <2>. HIDE DEF T
  <2>. QED BY <1>1, LeastNatural
<1>3. PICK x \in S : n = m - x
  OBVIOUS
<1>4. \A y \in S : y <= x
  <2>. SUFFICES ASSUME NEW y \in S PROVE y <= x
    OBVIOUS
  <2>1. m - x <= m - y
    BY <1>2, <1>3
  <2>2. x \in Nat /\ y \in Nat
    OBVIOUS
  <2>. HIDE DEF T
  <2>. QED BY <2>1, <2>2
<1>. QED BY <1>4 DEF Max

-------------------------------------------------------------------------------
(* Only: the elements that are kept, in their order. *)

\* The n-th element kept is found at place at[n], and the places increase.
Places(seq, S, kept, at) ==
  /\ at \in [DOMAIN kept -> DOMAIN seq]
  /\ \A m, n \in DOMAIN kept : m < n => at[m] < at[n]
  /\ \A n \in DOMAIN kept : kept[n] = seq[at[n]] /\ seq[at[n]] \in S
  /\ \A i \in DOMAIN seq : seq[i] \in S => \E n \in DOMAIN kept : at[n] = i

\* There are such places.
LEMMA OnlyPlaces ==
  ASSUME NEW T, NEW seq \in Seq(T), NEW S
  PROVE  /\ Only(seq, S) \in Seq(T)
         /\ \E at : Places(seq, S, Only(seq, S), at)
<1>. DEFINE P == {i \in DOMAIN seq : seq[i] \in S}
            upTo(i) == {j \in P : j <= i}
            rank == [i \in P |-> Cardinality(upTo(i))]
            n == Cardinality(P)
            pick(k) == CHOOSE i \in P : Cardinality(upTo(i)) = k
            at == [k \in 1..n |-> pick(k)]
<1>1. P \in SUBSET (1..Len(seq)) /\ IsFiniteSet(P) /\ n \in Nat
  <2>1. P \in SUBSET (1..Len(seq)) /\ IsFiniteSet(1..Len(seq))
    BY FS_Interval
  <2>. HIDE DEF P
  <2>. QED BY <2>1, FS_Subset, FS_CardinalityType
<1>2. \A i \in P : /\ upTo(i) \in SUBSET P /\ IsFiniteSet(upTo(i))
                   /\ rank[i] \in Nat /\ rank[i] <= n /\ rank[i] # 0
  <2>. SUFFICES ASSUME NEW i \in P
                PROVE /\ upTo(i) \in SUBSET P /\ IsFiniteSet(upTo(i))
                      /\ Cardinality(upTo(i)) \in Nat
                      /\ Cardinality(upTo(i)) <= n /\ Cardinality(upTo(i)) # 0
    OBVIOUS
  <2>1. upTo(i) \in SUBSET P /\ i \in upTo(i)
    BY <1>1
  <2>. HIDE DEF P, upTo
  <2>2. IsFiniteSet(upTo(i)) /\ Cardinality(upTo(i)) \in Nat /\ Cardinality(upTo(i)) <= n
    BY <1>1, <2>1, FS_Subset, FS_CardinalityType
  <2>3. Cardinality(upTo(i)) # 0
    BY <2>1, <2>2, FS_EmptySet
  <2>. QED BY <2>1, <2>2, <2>3
<1>3. \A i, j \in P : i < j => rank[i] < rank[j]
  <2>. SUFFICES ASSUME NEW i \in P, NEW j \in P, i < j
                PROVE Cardinality(upTo(i)) < Cardinality(upTo(j))
    OBVIOUS
  <2>1. upTo(i) \in SUBSET upTo(j) /\ upTo(i) # upTo(j)
    <3>1. j \in upTo(j) /\ j \notin upTo(i)
      BY <1>1
    <3>2. upTo(i) \in SUBSET upTo(j)
      BY <1>1
    <3>. QED BY <3>1, <3>2
  <2>2. rank[i] = Cardinality(upTo(i)) /\ rank[j] = Cardinality(upTo(j))
    OBVIOUS
  <2>. HIDE DEF P, upTo, rank
  <2>. QED BY <1>2, <2>1, <2>2, FS_Subset
<1>4. \A k \in 1..n : \E i \in P : rank[i] = k
  <2>1. rank \in [P -> 1..n]
    <3>. HIDE DEF n
    <3>. QED BY <1>1, <1>2
  <2>2. \A i, j \in P : rank[i] = rank[j] => i = j
    <3>. SUFFICES ASSUME NEW i \in P, NEW j \in P, rank[i] = rank[j] PROVE i = j
      OBVIOUS
    <3>1. i \in Nat /\ j \in Nat /\ rank[i] \in Nat
      <4>1. i \in Nat /\ j \in Nat
        BY <1>1
      <4>. HIDE DEF P, rank, n, upTo
      <4>. QED BY <4>1, <1>2
    <3>2. ~(i < j) /\ ~(j < i)
      <4>. HIDE DEF P, rank
      <4>. QED BY <1>3, <3>1
    <3>. QED BY <3>1, <3>2
  <2>3. rank \in Injection(P, 1..n)
    <3>. HIDE DEF P, rank, n
    <3>. QED BY <2>1, <2>2 DEF Injection, IsInjective
  <2>4. IsFiniteSet(1..n) /\ Cardinality(1..n) = n
    BY <1>1, FS_Interval
  <2>5. rank \in Surjection(P, 1..n)
    <3>. HIDE DEF P, rank
    <3>. QED BY <2>3, <2>4, FS_Injection
  <2>. QED
    <3>. HIDE DEF P, rank, n
    <3>. QED BY <2>5 DEF Surjection
<1>5. \A k \in 1..n : at[k] \in P /\ rank[at[k]] = k
  <2>. SUFFICES ASSUME NEW k \in 1..n PROVE at[k] \in P /\ rank[at[k]] = k
    OBVIOUS
  <2>1. \E i \in P : Cardinality(upTo(i)) = k
    <3>1. \A i \in P : rank[i] = Cardinality(upTo(i))
      OBVIOUS
    <3>. HIDE DEF P, rank, n, upTo
    <3>. QED BY <1>4, <3>1
  <2>2. at[k] \in P /\ Cardinality(upTo(at[k])) = k
    <3>1. pick(k) \in P /\ Cardinality(upTo(pick(k))) = k
      <4>. HIDE DEF P, n, upTo, rank
      <4>. QED BY <2>1
    <3>2. at[k] = pick(k)
      <4>. HIDE DEF n, pick
      <4>. QED OBVIOUS
    <3>. QED BY <3>1, <3>2
  <2>. HIDE DEF P, n, upTo, at
  <2>. QED BY <2>2
<1>6. Only(seq, S) = [k \in 1..n |-> seq[at[k]]]
  <2>1. Only(seq, S) = [k \in 1..n |-> seq[pick(k)]]
    BY Zenon DEF Only
  <2>. HIDE DEF n, pick
  <2>. QED BY <2>1
<1>7. \A k \in 1..n : at[k] \in DOMAIN seq /\ seq[at[k]] \in S
  <2>. HIDE DEF rank, n, at
  <2>. QED BY <1>5
<1>8. Only(seq, S) \in Seq(T) /\ DOMAIN Only(seq, S) = 1..n
  <2>. HIDE DEF P, n, at
  <2>. QED BY <1>1, <1>6, <1>7
<1>9. at \in [1..n -> DOMAIN seq]
  <2>. HIDE DEF P, n, rank
  <2>. QED BY <1>7
<1>10. \A k, l \in 1..n : k < l => at[k] < at[l]
  <2>. SUFFICES ASSUME NEW k \in 1..n, NEW l \in 1..n, k < l PROVE at[k] < at[l]
    OBVIOUS
  <2>. DEFINE i == at[k]
              j == at[l]
  <2>1. i \in P /\ j \in P /\ rank[i] = k /\ rank[j] = l
    <3>. HIDE DEF P, rank, n, at
    <3>. QED BY <1>5
  <2>2. i \in Nat /\ j \in Nat
    BY <1>1, <2>1
  <2>. HIDE DEF P, rank, n, at, i, j
  <2>3. ~(j < i) /\ i # j
    BY <1>1, <1>3, <2>1, <2>2
  <2>. QED BY <2>2, <2>3 DEF i, j
<1>11. \A i \in DOMAIN seq : seq[i] \in S => \E k \in 1..n : at[k] = i
  <2>. SUFFICES ASSUME NEW i \in P PROVE \E k \in 1..n : at[k] = i
    OBVIOUS
  <2>. DEFINE k == rank[i]
  <2>1. k \in 1..n
    <3>. HIDE DEF P, rank, n, upTo
    <3>. QED BY <1>1, <1>2
  <2>2. at[k] \in P /\ rank[at[k]] = rank[i]
    <3>. HIDE DEF P, rank, n, at
    <3>. QED BY <1>5, <2>1
  <2>3. i \in Nat /\ at[k] \in Nat /\ rank[i] \in Nat
    <3>1. i \in Nat /\ at[k] \in Nat
      BY <1>1, <2>2
    <3>. HIDE DEF P, rank, n, at
    <3>. QED BY <3>1, <1>2
  <2>. HIDE DEF P, rank, n, at, k
  <2>4. ~(at[k] < i) /\ ~(i < at[k])
    BY <1>3, <2>2, <2>3
  <2>. QED BY <2>1, <2>3, <2>4
<1>12. \A k \in 1..n : Only(seq, S)[k] = seq[at[k]] /\ seq[at[k]] \in S
  <2>. HIDE DEF P, n, at
  <2>. QED BY <1>6, <1>7
<1>. DEFINE D == DOMAIN Only(seq, S)
<1>13. D = 1..n
  BY <1>8
<1>. HIDE DEF n, at, P, rank, D
<1>14. Places(seq, S, Only(seq, S), at)
  <2>1. /\ at \in [D -> DOMAIN seq]
        /\ \A k, l \in D : k < l => at[k] < at[l]
        /\ \A k \in D : Only(seq, S)[k] = seq[at[k]] /\ seq[at[k]] \in S
        /\ \A i \in DOMAIN seq : seq[i] \in S => \E k \in D : at[k] = i
    BY <1>9, <1>10, <1>11, <1>12, <1>13
  <2>. QED BY Zenon, <2>1 DEF D, Places
<1>. QED BY <1>8, <1>14

\* What is kept, as a set.
LEMMA OnlyElements ==
  ASSUME NEW T, NEW seq \in Seq(T), NEW S
  PROVE  ToSet(Only(seq, S)) = ToSet(seq) \cap S
<1>. DEFINE kept == Only(seq, S)
<1>1. PICK at : Places(seq, S, kept, at)
  BY OnlyPlaces
<1>. HIDE DEF kept
<1>2. ToSet(kept) = ToSet(seq) \cap S
  BY <1>1 DEF ToSet, Places
<1>. QED BY <1>2 DEF kept

\* Of elements that do not repeat, those kept do not.
LEMMA OnlyInjective ==
  ASSUME NEW T, NEW seq \in Seq(T), NEW S, IsInjective(seq)
  PROVE  IsInjective(Only(seq, S))
<1>. DEFINE kept == Only(seq, S)
<1>1. kept \in Seq(T)
  BY OnlyPlaces
<1>2. PICK at : Places(seq, S, kept, at)
  BY OnlyPlaces
<1>. HIDE DEF kept
<1>3. ASSUME NEW m \in DOMAIN kept, NEW n \in DOMAIN kept, kept[m] = kept[n] PROVE m = n
  <2>1. at[m] = at[n]
    BY <1>2, <1>3 DEF IsInjective, Places
  <2>2. ~(at[m] < at[n]) /\ ~(at[n] < at[m])
    <3>1. at[m] \in 1..Len(seq)
      BY <1>2 DEF Places
    <3>. HIDE DEF IsInjective
    <3>. QED BY <2>1, <3>1
  <2>3. ~(m < n) /\ ~(n < m)
    BY <1>2, <2>2 DEF Places
  <2>4. m \in 1..Len(kept) /\ n \in 1..Len(kept) /\ Len(kept) \in Nat
    BY <1>1
  <2>. QED BY <2>3, <2>4
<1>. QED BY <1>3 DEF kept, IsInjective

-------------------------------------------------------------------------------
(* Sequences without repetitions. *)

\* They are as long as they have elements.
LEMMA InjectiveLength ==
  ASSUME NEW T, NEW seq \in Seq(T), IsInjective(seq)
  PROVE  IsFiniteSet(ToSet(seq)) /\ Cardinality(ToSet(seq)) = Len(seq)
<1>1. seq \in [1..Len(seq) -> ToSet(seq)] /\ Len(seq) \in Nat
  BY DEF ToSet
<1>2. seq \in Surjection(1..Len(seq), ToSet(seq))
  BY <1>1 DEF Surjection, ToSet
<1>3. seq \in Injection(1..Len(seq), ToSet(seq))
  BY <1>1 DEF Injection
<1>4. IsFiniteSet(1..Len(seq)) /\ Cardinality(1..Len(seq)) = Len(seq)
  <2>. DEFINE len == Len(seq)
  <2>1. len \in Nat
    BY <1>1
  <2>. HIDE DEF len
  <2>2. IsFiniteSet(1..len) /\ Cardinality(1..len) = len
    BY <2>1, FS_Interval
  <2>. QED BY <2>2 DEF len
<1>. QED BY <1>2, <1>3, <1>4, FS_Surjection

\* Two of them with nothing in common, one after the other.
LEMMA ConcatInjective ==
  ASSUME NEW T, NEW s \in Seq(T), NEW t \in Seq(T)
  PROVE  /\ s \o t \in Seq(T)
         /\ ToSet(s \o t) = ToSet(s) \cup ToSet(t)
         /\ IsInjective(s) /\ IsInjective(t) /\ ToSet(s) \cap ToSet(t) = {}
              => IsInjective(s \o t)
<1>. DEFINE st == s \o t
<1>1. /\ st \in Seq(T) /\ Len(st) = Len(s) + Len(t) /\ Len(s) \in Nat /\ Len(t) \in Nat
      /\ DOMAIN st = 1..(Len(s) + Len(t)) /\ DOMAIN s = 1..Len(s) /\ DOMAIN t = 1..Len(t)
  OBVIOUS
<1>2. /\ \A i \in 1..Len(s) : st[i] = s[i]
      /\ \A i \in (Len(s) + 1)..(Len(s) + Len(t)) : st[i] = t[i - Len(s)]
  OBVIOUS
<1>3. \A i \in 1..Len(t) : st[i + Len(s)] = t[i]
  OBVIOUS
<1>. HIDE DEF st
<1>4. ToSet(st) = ToSet(s) \cup ToSet(t)
  <2>1. ASSUME NEW x \in ToSet(st) PROVE x \in ToSet(s) \cup ToSet(t)
    <3>1. PICK i \in 1..(Len(s) + Len(t)) : st[i] = x
      BY <1>1 DEF ToSet
    <3>2. CASE i <= Len(s)
      BY <1>1, <1>2, <3>1, <3>2 DEF ToSet
    <3>3. CASE i > Len(s)
      <4>1. i - Len(s) \in 1..Len(t) /\ i \in (Len(s) + 1)..(Len(s) + Len(t))
        BY <1>1, <3>3
      <4>. QED BY <1>1, <1>2, <3>1, <4>1 DEF ToSet
    <3>. QED BY <1>1, <3>2, <3>3
  <2>2. ASSUME NEW x \in ToSet(s) PROVE x \in ToSet(st)
    <3>1. PICK i \in 1..Len(s) : s[i] = x
      BY <1>1 DEF ToSet
    <3>2. i \in DOMAIN st
      BY <1>1
    <3>. QED BY <1>2, <3>1, <3>2 DEF ToSet
  <2>3. ASSUME NEW x \in ToSet(t) PROVE x \in ToSet(st)
    <3>1. PICK i \in 1..Len(t) : t[i] = x
      BY <1>1 DEF ToSet
    <3>2. i + Len(s) \in DOMAIN st
      BY <1>1
    <3>. QED BY <1>3, <3>1, <3>2 DEF ToSet
  <2>. QED BY <2>1, <2>2, <2>3
<1>5. ASSUME IsInjective(s), IsInjective(t), ToSet(s) \cap ToSet(t) = {}
      PROVE  IsInjective(st)
  <2>1. SUFFICES ASSUME NEW i \in DOMAIN st, NEW j \in DOMAIN st, st[i] = st[j]
                 PROVE i = j
    BY DEF IsInjective
  <2>2. i \in 1..Len(s) \/ (i \in (Len(s) + 1)..(Len(s) + Len(t)) /\ i - Len(s) \in 1..Len(t))
    BY <1>1
  <2>3. j \in 1..Len(s) \/ (j \in (Len(s) + 1)..(Len(s) + Len(t)) /\ j - Len(s) \in 1..Len(t))
    BY <1>1
  <2>4. CASE i \in 1..Len(s) /\ j \in 1..Len(s)
    BY <1>1, <1>2, <1>5, <2>1, <2>4 DEF IsInjective
  <2>5. CASE i \in 1..Len(s) /\ ~(j \in 1..Len(s))
    <3>1. st[i] \in ToSet(s) /\ st[j] \in ToSet(t)
      BY <1>1, <1>2, <2>3, <2>5 DEF ToSet
    <3>. QED BY <1>5, <2>1, <3>1
  <2>6. CASE j \in 1..Len(s) /\ ~(i \in 1..Len(s))
    <3>1. st[j] \in ToSet(s) /\ st[i] \in ToSet(t)
      BY <1>1, <1>2, <2>2, <2>6 DEF ToSet
    <3>. QED BY <1>5, <2>1, <3>1
  <2>7. CASE ~(j \in 1..Len(s)) /\ ~(i \in 1..Len(s))
    <3>1. t[i - Len(s)] = t[j - Len(s)]
      BY <1>2, <2>1, <2>2, <2>3, <2>7
    <3>2. i - Len(s) = j - Len(s)
      BY <1>1, <1>5, <2>2, <2>3, <2>7, <3>1 DEF IsInjective
    <3>. QED BY <1>1, <3>2
  <2>. QED BY <2>4, <2>5, <2>6, <2>7
<1>. QED BY <1>1, <1>4, <1>5 DEF st

\* One of them cut in two.
LEMMA SplitInjective ==
  ASSUME NEW T, NEW s \in Seq(T), NEW k \in 0..Len(s), IsInjective(s)
  PROVE  LET first == SubSeq(s, 1, k)
             rest == SubSeq(s, k + 1, Len(s))
         IN  /\ first \in Seq(T) /\ Len(first) = k /\ IsInjective(first)
             /\ rest \in Seq(T) /\ Len(rest) = Len(s) - k /\ IsInjective(rest)
             /\ ToSet(first) \subseteq ToSet(s)
             /\ ToSet(rest) = ToSet(s) \ ToSet(first)
<1>. DEFINE first == SubSeq(s, 1, k)
            rest == SubSeq(s, k + 1, Len(s))
<1>1. Len(s) \in Nat /\ k \in Nat /\ k <= Len(s) /\ DOMAIN s = 1..Len(s)
  OBVIOUS
<1>2. /\ first \in Seq(T) /\ Len(first) = k /\ DOMAIN first = 1..k
      /\ \A i \in 1..k : first[i] = s[i]
  OBVIOUS
<1>3. /\ rest \in Seq(T) /\ Len(rest) = Len(s) - k /\ DOMAIN rest = 1..(Len(s) - k)
      /\ \A i \in 1..(Len(s) - k) : rest[i] = s[k + i]
  OBVIOUS
<1>. HIDE DEF first, rest
<1>4. IsInjective(first)
  BY <1>1, <1>2 DEF IsInjective
<1>5. IsInjective(rest)
  <2>1. ASSUME NEW i \in 1..(Len(s) - k), NEW j \in 1..(Len(s) - k), rest[i] = rest[j]
        PROVE i = j
    <3>1. k + i \in DOMAIN s /\ k + j \in DOMAIN s /\ s[k + i] = s[k + j]
      BY <1>1, <1>3, <2>1
    <3>2. k + i = k + j
      BY <3>1 DEF IsInjective
    <3>. QED BY <1>1, <3>2
  <2>. QED BY <1>3, <2>1 DEF IsInjective
<1>6. ToSet(first) \subseteq ToSet(s)
  BY <1>1, <1>2 DEF ToSet
<1>7. ASSUME NEW x \in ToSet(rest) PROVE x \in ToSet(s) /\ x \notin ToSet(first)
  <2>1. PICK i \in 1..(Len(s) - k) : x = s[k + i]
    BY <1>3 DEF ToSet
  <2>2. k + i \in DOMAIN s /\ k + i > k
    BY <1>1
  <2>3. ASSUME x \in ToSet(first) PROVE FALSE
    <3>1. PICK j \in 1..k : x = s[j]
      BY <1>2, <2>3 DEF ToSet
    <3>2. j \in DOMAIN s /\ j <= k
      BY <1>1
    <3>3. k + i = j
      BY <2>1, <2>2, <3>1, <3>2 DEF IsInjective
    <3>. QED BY <1>1, <2>2, <3>2, <3>3
  <2>. QED BY <2>1, <2>2, <2>3 DEF ToSet
<1>8. ASSUME NEW x \in ToSet(s), x \notin ToSet(first) PROVE x \in ToSet(rest)
  <2>1. PICK i \in 1..Len(s) : x = s[i]
    BY <1>1 DEF ToSet
  <2>2. i > k
    <3>1. ASSUME i <= k PROVE FALSE
      <4>1. i \in DOMAIN first /\ first[i] = x
        BY <1>1, <1>2, <2>1, <3>1
      <4>2. first[i] \in ToSet(first)
        BY <4>1 DEF ToSet
      <4>. QED BY <1>8, <4>1, <4>2
    <3>. QED BY <1>1, <3>1
  <2>3. i - k \in 1..(Len(s) - k) /\ k + (i - k) = i
    BY <1>1, <2>2
  <2>. QED BY <1>3, <2>1, <2>3 DEF ToSet
<1>. QED BY <1>2, <1>3, <1>4, <1>5, <1>6, <1>7, <1>8 DEF first, rest

\* One of them turned round.
LEMMA ReverseInjective ==
  ASSUME NEW T, NEW s \in Seq(T)
  PROVE  /\ Reverse(s) \in Seq(T)
         /\ ToSet(Reverse(s)) = ToSet(s)
         /\ IsInjective(s) => IsInjective(Reverse(s))
<1>. DEFINE t == Reverse(s)
<1>1. Len(s) \in Nat /\ DOMAIN s = 1..Len(s)
  OBVIOUS
<1>2. \A i \in 1..Len(s) : (Len(s) - i) + 1 \in 1..Len(s) /\ s[(Len(s) - i) + 1] \in T
  BY <1>1
<1>3. t \in Seq(T) /\ DOMAIN t = 1..Len(s) /\ \A i \in 1..Len(s) : t[i] = s[(Len(s) - i) + 1]
  BY <1>1, <1>2 DEF Reverse
<1>. HIDE DEF t
<1>4. ToSet(t) = ToSet(s)
  <2>1. ASSUME NEW i \in 1..Len(s) PROVE s[i] \in ToSet(t)
    <3>1. (Len(s) - i) + 1 \in 1..Len(s) /\ (Len(s) - ((Len(s) - i) + 1)) + 1 = i
      BY <1>1
    <3>. QED BY <1>3, <3>1 DEF ToSet
  <2>2. ASSUME NEW i \in 1..Len(s) PROVE t[i] \in ToSet(s)
    BY <1>1, <1>2, <1>3 DEF ToSet
  <2>. QED BY <1>1, <1>3, <2>1, <2>2 DEF ToSet
<1>5. ASSUME IsInjective(s) PROVE IsInjective(t)
  <2>1. ASSUME NEW i \in 1..Len(s), NEW j \in 1..Len(s), t[i] = t[j] PROVE i = j
    <3>1. (Len(s) - i) + 1 = (Len(s) - j) + 1
      BY <1>1, <1>2, <1>3, <1>5, <2>1 DEF IsInjective
    <3>. QED BY <1>1, <3>1
  <2>. QED BY <1>3, <2>1 DEF IsInjective
<1>. QED BY <1>3, <1>4, <1>5 DEF t

-------------------------------------------------------------------------------
(* What is done to the pool. *)

Pools(T) == [free : Seq(Blocks), ref : [Blocks -> Nat], hash : [Blocks -> Seq(T)]]

\* Touch takes what nobody held off the free queue and counts one more holder.
LEMMA TouchFacts ==
  ASSUME NEW T, NEW p \in Pools(T), IsInjective(p.free), NEW found \in Seq(Blocks)
  PROVE  LET q == Touch(p, found) IN
         /\ q \in Pools(T) /\ q.hash = p.hash
         /\ IsInjective(q.free)
         /\ ToSet(q.free) = ToSet(p.free) \ {b \in ToSet(found) : p.ref[b] = 0}
         /\ q.ref = [b \in Blocks |-> IF b \in ToSet(found) THEN p.ref[b] + 1 ELSE p.ref[b]]
<1>. DEFINE unheld == Blocks \ {b \in ToSet(found) : p.ref[b] = 0}
            q == Touch(p, found)
<1>1. p.free \in Seq(Blocks) /\ p.ref \in [Blocks -> Nat] /\ p.hash \in [Blocks -> Seq(T)]
  BY DEF Pools
<1>2. q = [free |-> Only(p.free, unheld),
           ref  |-> [b \in Blocks |-> IF b \in ToSet(found) THEN p.ref[b] + 1 ELSE p.ref[b]],
           hash |-> p.hash]
  <2>. DEFINE free == Only(p.free, unheld)
              ref == [b \in Blocks |-> IF b \in ToSet(found) THEN p.ref[b] + 1 ELSE p.ref[b]]
  <2>1. q = [p EXCEPT !.free = free, !.ref = ref]
    BY DEF Touch
  <2>. HIDE DEF free, ref, q
  <2>2. q = [free |-> free, ref |-> ref, hash |-> p.hash]
    BY <2>1 DEF Pools
  <2>. QED BY <2>2 DEF free, ref
<1>3. Only(p.free, unheld) \in Seq(Blocks) /\ IsInjective(Only(p.free, unheld))
  BY <1>1, OnlyPlaces, OnlyInjective
<1>4. ToSet(Only(p.free, unheld)) = ToSet(p.free) \cap unheld
  BY <1>1, OnlyElements
<1>5. ToSet(p.free) \subseteq Blocks
  BY <1>1 DEF ToSet
<1>6. [b \in Blocks |-> IF b \in ToSet(found) THEN p.ref[b] + 1 ELSE p.ref[b]] \in [Blocks -> Nat]
  BY <1>1
<1>7. q \in Pools(T)
  BY <1>1, <1>2, <1>3, <1>6 DEF Pools
<1>. HIDE DEF q
<1>. QED BY <1>2, <1>3, <1>4, <1>5, <1>7 DEF q

\* get_new_blocks takes the first n off the queue, counts them and forgets their hashes.
LEMMA GetNewFacts ==
  ASSUME NEW T, NEW p \in Pools(T), IsInjective(p.free), NEW n \in 0..Len(p.free)
  PROVE  LET new == NextFree(p, n)
             q == GetNewBlocks(p, n)
         IN
         /\ new \in Seq(Blocks) /\ Len(new) = n /\ IsInjective(new)
         /\ ToSet(new) \subseteq ToSet(p.free)
         /\ q \in Pools(T) /\ IsInjective(q.free)
         /\ ToSet(q.free) = ToSet(p.free) \ ToSet(new)
         /\ q.ref = [b \in Blocks |-> IF b \in ToSet(new) THEN p.ref[b] + 1 ELSE p.ref[b]]
         /\ q.hash = [b \in Blocks |-> IF b \in ToSet(new) THEN NoHash ELSE p.hash[b]]
<1>. DEFINE new == NextFree(p, n)
            rest == SubSeq(p.free, n + 1, Len(p.free))
            q == GetNewBlocks(p, n)
<1>1. p.free \in Seq(Blocks) /\ p.ref \in [Blocks -> Nat] /\ p.hash \in [Blocks -> Seq(T)]
  BY DEF Pools
<1>2. /\ new \in Seq(Blocks) /\ Len(new) = n /\ IsInjective(new)
      /\ rest \in Seq(Blocks) /\ IsInjective(rest)
      /\ ToSet(new) \subseteq ToSet(p.free) /\ ToSet(rest) = ToSet(p.free) \ ToSet(new)
  BY <1>1, SplitInjective DEF NextFree
<1>3. q = [free |-> rest,
           ref  |-> [b \in Blocks |-> IF b \in ToSet(new) THEN p.ref[b] + 1 ELSE p.ref[b]],
           hash |-> [b \in Blocks |-> IF b \in ToSet(new) THEN NoHash ELSE p.hash[b]]]
  BY DEF GetNewBlocks
<1>4. [b \in Blocks |-> IF b \in ToSet(new) THEN p.ref[b] + 1 ELSE p.ref[b]] \in [Blocks -> Nat]
  BY <1>1
<1>5. [b \in Blocks |-> IF b \in ToSet(new) THEN NoHash ELSE p.hash[b]] \in [Blocks -> Seq(T)]
  BY <1>1 DEF NoHash
<1>6. q \in Pools(T)
  <2>. HIDE DEF rest, new, q
  <2>. QED BY <1>2, <1>3, <1>4, <1>5 DEF Pools
<1>. HIDE DEF q, rest, new
<1>. QED BY <1>2, <1>3, <1>6 DEF q, new

\* free_blocks counts one holder less, and queues what then has none.
LEMMA FreeFacts ==
  ASSUME NEW T, NEW p \in Pools(T), IsInjective(p.free),
         NEW ordered \in Seq(Blocks), IsInjective(ordered),
         \A b \in ToSet(ordered) : b \notin ToSet(p.free) /\ p.ref[b] > 0
  PROVE  LET q == FreeBlocks(p, ordered) IN
         /\ q \in Pools(T) /\ q.hash = p.hash
         /\ IsInjective(q.free)
         /\ ToSet(q.free) = ToSet(p.free) \cup {b \in ToSet(ordered) : p.ref[b] = 1}
         /\ q.ref = [b \in Blocks |-> IF b \in ToSet(ordered) THEN p.ref[b] - 1 ELSE p.ref[b]]
<1>. DEFINE ref == [b \in Blocks |-> IF b \in ToSet(ordered) THEN p.ref[b] - 1 ELSE p.ref[b]]
            freed == Only(ordered, {b \in Blocks : ref[b] = 0})
            q == FreeBlocks(p, ordered)
<1>1. p.free \in Seq(Blocks) /\ p.ref \in [Blocks -> Nat] /\ p.hash \in [Blocks -> Seq(T)]
  BY DEF Pools
<1>2. q = [free |-> p.free \o freed, ref |-> ref, hash |-> p.hash]
  <2>1. q = [p EXCEPT !.ref = ref, !.free = p.free \o freed]
    BY DEF FreeBlocks
  <2>. HIDE DEF freed, ref, q
  <2>. QED BY <2>1 DEF Pools
<1>3. ref \in [Blocks -> Nat]
  BY <1>1
<1>4. ToSet(ordered) \subseteq Blocks
  BY DEF ToSet
<1>5. freed \in Seq(Blocks) /\ IsInjective(freed)
  BY OnlyPlaces, OnlyInjective
<1>6. ToSet(freed) = {b \in ToSet(ordered) : p.ref[b] = 1}
  <2>1. ToSet(freed) = ToSet(ordered) \cap {b \in Blocks : ref[b] = 0}
    BY OnlyElements
  <2>2. \A b \in ToSet(ordered) : b \in Blocks /\ (ref[b] = 0 <=> p.ref[b] = 1)
    BY <1>1, <1>4
  <2>. HIDE DEF ref, freed
  <2>. QED BY <2>1, <2>2
<1>. HIDE DEF freed, ref
<1>7. ToSet(freed) \cap ToSet(p.free) = {}
  BY <1>6
<1>8. /\ p.free \o freed \in Seq(Blocks) /\ IsInjective(p.free \o freed)
      /\ ToSet(p.free \o freed) = ToSet(p.free) \cup ToSet(freed)
  BY <1>1, <1>5, <1>7, ConcatInjective
<1>9. q \in Pools(T)
  BY <1>1, <1>2, <1>3, <1>8 DEF Pools
<1>. HIDE DEF q
<1>. QED BY <1>2, <1>6, <1>8, <1>9 DEF q, ref

\* cache_full_blocks gives a hash to the blocks from + 1 to to, and to no other.
LEMMA CacheFacts ==
  ASSUME NEW T, NEW p \in Pools(T), NEW mine \in Seq(Blocks), IsInjective(mine),
         NEW from \in Nat, NEW to \in 0..Len(mine), NEW ts \in Seq(T),
         to * BlockSize <= Len(ts)
  PROVE  LET q == CacheFullBlocks(p, mine, from, to, ts) IN
         /\ q \in Pools(T) /\ q.free = p.free /\ q.ref = p.ref
         /\ \A i \in (from + 1)..to : q.hash[mine[i]] = SubSeq(ts, 1, i * BlockSize)
         /\ \A b \in Blocks : (\A i \in (from + 1)..to : mine[i] # b) => q.hash[b] = p.hash[b]
<1>. DEFINE numbered(b) == \E i \in (from + 1)..to : mine[i] = b
            number(b) == CHOOSE i \in (from + 1)..to : mine[i] = b
            hash == [b \in Blocks |-> IF numbered(b) THEN SubSeq(ts, 1, BlockSize * number(b))
                                      ELSE p.hash[b]]
            q == CacheFullBlocks(p, mine, from, to, ts)
<1>1. p.free \in Seq(Blocks) /\ p.ref \in [Blocks -> Nat] /\ p.hash \in [Blocks -> Seq(T)]
  BY DEF Pools
<1>2. q = [free |-> p.free, ref |-> p.ref, hash |-> hash]
  <2>1. q = [p EXCEPT !.hash = hash]
    BY DEF CacheFullBlocks
  <2>. HIDE DEF hash, q
  <2>. QED BY <2>1 DEF Pools
<1>3. \A i \in (from + 1)..to : i \in DOMAIN mine /\ mine[i] \in Blocks
  OBVIOUS
<1>4. BlockSize \in Nat
  BY BlocksAssumption
<1>5. \A i \in (from + 1)..to : i * BlockSize \in Nat /\ i * BlockSize <= Len(ts)
  <2>. SUFFICES ASSUME NEW i \in (from + 1)..to
                PROVE i * BlockSize \in Nat /\ i * BlockSize <= Len(ts)
    OBVIOUS
  <2>1. i \in Nat /\ i <= to /\ to \in Nat /\ Len(ts) \in Nat
    OBVIOUS
  <2>2. i * BlockSize \in Nat /\ i * BlockSize <= to * BlockSize /\ to * BlockSize \in Nat
    BY <1>4, <2>1
  <2>. QED BY <2>1, <2>2
<1>6. \A i \in (from + 1)..to : SubSeq(ts, 1, i * BlockSize) \in Seq(T)
  <2>. SUFFICES ASSUME NEW i \in (from + 1)..to
                PROVE SubSeq(ts, 1, i * BlockSize) \in Seq(T)
    OBVIOUS
  <2>. DEFINE k == i * BlockSize
  <2>1. k \in Nat /\ k <= Len(ts)
    BY <1>5
  <2>. HIDE DEF k
  <2>2. SubSeq(ts, 1, k) \in Seq(T)
    BY <2>1
  <2>. QED BY <2>2 DEF k
<1>7. \A b \in Blocks : numbered(b) => number(b) \in (from + 1)..to /\ mine[number(b)] = b
  OBVIOUS
<1>8. \A i \in (from + 1)..to : numbered(mine[i]) /\ number(mine[i]) = i
  <2>. SUFFICES ASSUME NEW i \in (from + 1)..to
                PROVE numbered(mine[i]) /\ number(mine[i]) = i
    OBVIOUS
  <2>1. numbered(mine[i])
    OBVIOUS
  <2>2. number(mine[i]) \in (from + 1)..to /\ mine[number(mine[i])] = mine[i]
    BY <1>3, <1>7, <2>1
  <2>. HIDE DEF number
  <2>3. number(mine[i]) = i
    BY <1>3, <2>2 DEF IsInjective
  <2>. QED BY <2>1, <2>3
<1>9. \A b \in Blocks : numbered(b) => hash[b] = SubSeq(ts, 1, number(b) * BlockSize)
  <2>. SUFFICES ASSUME NEW b \in Blocks, numbered(b)
                PROVE hash[b] = SubSeq(ts, 1, number(b) * BlockSize)
    OBVIOUS
  <2>1. BlockSize * number(b) = number(b) * BlockSize
    <3>1. number(b) \in Int
      BY <1>7
    <3>. HIDE DEF number
    <3>. QED BY <1>4, <3>1
  <2>2. hash[b] = SubSeq(ts, 1, BlockSize * number(b))
    <3>. HIDE DEF number, numbered
    <3>. QED OBVIOUS
  <2>. HIDE DEF hash, number
  <2>. QED BY <2>1, <2>2
<1>10. \A b \in Blocks : ~numbered(b) => hash[b] = p.hash[b]
  <2>. HIDE DEF number, numbered
  <2>. QED OBVIOUS
<1>11. DOMAIN hash = Blocks /\ hash = [b \in Blocks |-> hash[b]]
  <2>. HIDE DEF number, numbered
  <2>. QED OBVIOUS
<1>. HIDE DEF number, hash
<1>12. \A i \in (from + 1)..to : hash[mine[i]] = SubSeq(ts, 1, i * BlockSize)
  BY <1>3, <1>8, <1>9
<1>13. hash \in [Blocks -> Seq(T)]
  <2>1. ASSUME NEW b \in Blocks PROVE hash[b] \in Seq(T)
    <3>1. CASE numbered(b)
      BY <1>6, <1>7, <1>9, <3>1
    <3>2. CASE ~numbered(b)
      BY <1>1, <1>10, <3>2
    <3>. QED BY <3>1, <3>2
  <2>. QED BY <1>11, <2>1
<1>14. q \in Pools(T)
  BY <1>1, <1>2, <1>13 DEF Pools
<1>15. \A b \in Blocks : (\A i \in (from + 1)..to : mine[i] # b) => hash[b] = p.hash[b]
  BY <1>10
<1>. HIDE DEF q
<1>. QED BY <1>2, <1>12, <1>14, <1>15 DEF q

-------------------------------------------------------------------------------
(* The inductive invariant. *)

Tokens == SampledTokens \cup {EOS} \cup UNION {ToSet(Prompt[r]) : r \in Requests}

Steps ==
  [index : Nat \ {0}, budget : Nat, preempted : BOOLEAN, scheduled : [Requests -> Nat],
   drafted : [Requests -> 0..Gamma], batch : Seq(Requests), fits : BOOLEAN]

TypeInv ==
  /\ tokens \in [Requests -> Seq(Tokens)]
  /\ computed \in [Requests -> Nat]
  /\ spec \in [Requests -> 0..Gamma]
  /\ waiting \in Seq(Requests) /\ running \in Seq(Requests)
  /\ finishedIds \subseteq Requests /\ specEnabled \in BOOLEAN
  /\ pool \in Pools(Tokens)
  /\ blocks \in [Requests -> Seq(Blocks)]
  /\ cachedBlocks \in [Requests -> Nat]
  /\ phase \in {"idle", "running", "waiting", "forward", "update"}
  /\ step \in Steps
  /\ toCome \subseteq Requests /\ rollout \in DOMAIN Batches

\* A request is in one queue, once, as long as it is there.
QueueInv ==
  /\ IsInjective(running) /\ IsInjective(waiting)
  /\ ToSet(running) \cap ToSet(waiting) = {}
  /\ \A r \in Requests : tokens[r] # <<>> <=> r \in ToSet(running) \cup ToSet(waiting)
  /\ \A r \in toCome : tokens[r] = <<>>

\* Only running requests have blocks.
NotRunningInv ==
  \A r \in Requests : r \notin ToSet(running) =>
    /\ blocks[r] = <<>> /\ cachedBlocks[r] = 0
    /\ computed[r] > 0 => phase = "update" /\ tokens[r] = <<>>

\* Only running requests are scheduled, the one at req_index and those after it not
\* yet, and the batch that is updated has each of them once.
StepInv ==
  /\ phase = "idle" => step = NoStep
  /\ phase = "running" =>
       /\ step.index <= Len(running) + 1
       /\ \A r \in Requests : step.scheduled[r] > 0 =>
            \E i \in DOMAIN running : i < step.index /\ running[i] = r
  /\ phase \in {"waiting", "forward"} =>
       \A r \in Requests : step.scheduled[r] > 0 => r \in ToSet(running)
  /\ phase = "update" =>
       /\ IsInjective(step.batch)
       /\ \A i \in DOMAIN step.batch : i >= step.index => step.batch[i] \in ToSet(running)

\* A step that computes r up to this position.
Computes(r, end) ==
  /\ end < MaxTotalTokens(r)
  /\ end <= Len(blocks[r]) * BlockSize
  /\ step.drafted[r] = 0 => end <= Len(tokens[r])
  /\ step.drafted[r] > 0 => end = Len(tokens[r]) + step.drafted[r]

\* What the step computed of r is still to be looked at.
InBatch(r) ==
  phase = "update" /\ \E i \in DOMAIN step.batch : i >= step.index /\ step.batch[i] = r

\* There is something left to compute of r, and its blocks have what was computed.
Behind(r) == computed[r] < Len(tokens[r]) /\ computed[r] <= Len(blocks[r]) * BlockSize

PositionInv ==
  \A r \in Requests :
    /\ step.scheduled[r] = 0 => step.drafted[r] = 0
    /\ phase # "update" /\ step.scheduled[r] > 0 => Computes(r, computed[r] + step.scheduled[r])
    /\ InBatch(r) => Computes(r, computed[r])
    /\ r \in ToSet(running) /\ ~InBatch(r) => Behind(r)

OutputInv ==
  /\ \A r \in Requests : tokens[r] # <<>> => Len(Prompt[r]) <= Len(tokens[r])
  /\ NothingAfterStop

CacheInv ==
  /\ \A r \in Requests : cachedBlocks[r] <= Len(blocks[r])
  /\ CommittedBlocksAreCached

Holds(r, b) == b \in ToSet(blocks[r])
Holders(b) == {r \in Requests : Holds(r, b)}

AccountInv ==
  /\ \A b \in Blocks : pool.ref[b] = Cardinality(Holders(b))
  /\ \A b \in Blocks : b \in ToSet(pool.free) <=> Holders(b) = {}
  /\ IsInjective(pool.free)
  /\ \A r \in Requests : IsInjective(blocks[r])
  /\ \A b \in Blocks : \A q, r \in Holders(b) : q # r => pool.hash[b] # NoHash

IInv ==
  /\ TypeInv /\ QueueInv /\ NotRunningInv /\ StepInv
  /\ PositionInv /\ OutputInv /\ CacheInv /\ AccountInv

-------------------------------------------------------------------------------
(* Blocks and positions. *)

\* The constants are positive numbers.
LEMMA Limits ==
  /\ MaxTokens \in Nat /\ MaxTokens > 0
  /\ MaxModelLen \in Nat /\ MaxModelLen > 0
  /\ MaxNumBatchedTokens \in Nat /\ MaxNumBatchedTokens > 0
  /\ Gamma \in Nat /\ Gamma > 0
  /\ NumBlocks \in Nat /\ NumBlocks > 0
  /\ BlockSize \in Nat /\ BlockSize > 0
BY LimitsAssumption, BlocksAssumption

\* More blocks have more room.
LEMMA RoomGrows ==
  ASSUME NEW m \in Nat, NEW n \in Nat
  PROVE  /\ m * BlockSize \in Nat
         /\ m <= n <=> m * BlockSize <= n * BlockSize
         /\ m < n <=> m * BlockSize < n * BlockSize
<1>. DEFINE d == BlockSize
<1>1. d \in Nat /\ d > 0
  BY Limits
<1>. HIDE DEF d
<1>2. \A a, b \in Nat : a < b => a * d < b * d
  <2>. SUFFICES ASSUME NEW a \in Nat, NEW b \in Nat, a < b PROVE a * d < b * d
    OBVIOUS
  <2>1. PICK c \in Nat : b = a + c /\ c > 0
    <3>1. b - a \in Nat /\ b = a + (b - a) /\ b - a > 0
      OBVIOUS
    <3>. QED BY <3>1
  <2>2. (a + c) * d = a * d + c * d
    BY <1>1
  <2>3. c * d > 0
    BY <1>1, <2>1
  <2>4. a * d \in Nat /\ c * d \in Nat
    BY <1>1
  <2>. QED BY <2>1, <2>2, <2>3, <2>4
<1>3. m * d \in Nat /\ n * d \in Nat
  BY <1>1
<1>4. m < n \/ m = n \/ n < m
  OBVIOUS
<1>5. m < n => m * d < n * d
  BY <1>2
<1>6. n < m => n * d < m * d
  BY <1>2
<1>7. m = n => m * d = n * d
  OBVIOUS
<1>8. m <= n <=> m * d <= n * d
  BY <1>3, <1>4, <1>5, <1>6, <1>7
<1>9. m < n <=> m * d < n * d
  BY <1>3, <1>4, <1>5, <1>6, <1>7
<1>. QED BY <1>3, <1>8, <1>9 DEF d

\* BlocksFor(n) blocks have room for n tokens, and no fewer have.
LEMMA BlocksForFacts ==
  ASSUME NEW n \in Nat
  PROVE  /\ BlocksFor(n) \in Nat
         /\ n <= BlocksFor(n) * BlockSize
         /\ \A m \in Nat : n <= m * BlockSize => BlocksFor(n) <= m
<1>. DEFINE d == BlockSize
            q == (n + d - 1) \div d
<1>1. d \in Nat /\ d > 0 /\ n + d - 1 \in Nat
  BY Limits
<1>2. q \in Nat /\ d * q <= n + d - 1 /\ n + d - 1 < d * q + d
  <2>. DEFINE k == n + d - 1
  <2>. HIDE DEF d, k
  <2>1. k \div d \in Nat /\ d * (k \div d) <= k /\ k < d * (k \div d) + d
    BY <1>1, DivMod DEF k
  <2>. QED BY <2>1 DEF k
<1>3. BlocksFor(n) = q
  BY DEF BlocksFor
<1>. HIDE DEF q, d
<1>4. d * q = q * d /\ q * d \in Nat
  BY <1>1, <1>2
<1>5. n <= q * d
  BY <1>1, <1>2, <1>4
<1>6. ASSUME NEW m \in Nat, n <= m * d PROVE q <= m
  <2>1. m * d \in Nat /\ (m + 1) * d = m * d + d
    BY <1>1
  <2>2. q * d < (m + 1) * d
    BY <1>1, <1>2, <1>4, <1>6, <2>1
  <2>3. q < m + 1
    BY <1>2, <2>2, RoomGrows DEF d
  <2>. QED BY <1>2, <2>3
<1>. QED BY <1>2, <1>3, <1>5, <1>6 DEF d

\* The n \div BlockSize full blocks of n tokens.
LEMMA FullBlocks ==
  ASSUME NEW n \in Nat
  PROVE  n \div BlockSize \in Nat /\ (n \div BlockSize) * BlockSize <= n
<1>. DEFINE d == BlockSize
            q == n \div d
<1>1. d \in Nat /\ d > 0
  BY Limits
<1>. HIDE DEF d
<1>2. q \in Nat /\ d * q <= n
  BY <1>1, DivMod
<1>. HIDE DEF q
<1>3. d * q = q * d
  BY <1>1, <1>2
<1>. QED BY <1>2, <1>3 DEF q, d

-------------------------------------------------------------------------------
(* allocate_slots. *)

\* Output is not longer than the limits allow.
LEMMA NotStopped ==
  ASSUME TypeInv, OutputInv, NEW r \in Requests, tokens[r] # <<>>
  PROVE  /\ Len(tokens[r]) \in Nat /\ Len(tokens[r]) > 0
         /\ MaxTotalTokens(r) \in Nat /\ MaxTotalTokens(r) <= MaxModelLen
         /\ Len(tokens[r]) < MaxTotalTokens(r)
<1>. DEFINE len == Len(tokens[r])
            prompt == Len(Prompt[r])
<1>1. tokens[r] \in Seq(Tokens)
  BY DEF TypeInv
<1>2. len \in Nat /\ len > 0
  BY <1>1
<1>3. prompt \in Nat /\ prompt < MaxModelLen
  BY PromptAssumption
<1>4. prompt <= len
  BY DEF OutputInv
<1>5. prompt + MaxTokens \in Int /\ MaxModelLen \in Int
  BY <1>3, Limits
<1>6. MaxTotalTokens(r) = IF prompt + MaxTokens <= MaxModelLen THEN prompt + MaxTokens
                          ELSE MaxModelLen
  BY <1>5, MinOfTwo DEF MaxTotalTokens
<1>7. CASE len = prompt
  <2>. HIDE DEF len, prompt
  <2>1. len < MaxTotalTokens(r)
    BY <1>2, <1>3, <1>6, <1>7, Limits
  <2>. QED BY <1>2, <1>3, <1>6, <2>1, Limits DEF len
<1>8. CASE len > prompt
  <2>1. len \in (prompt + 1)..len
    <3>. HIDE DEF len, prompt
    <3>. QED BY <1>2, <1>3, <1>8
  <2>2. ~Stops(r, SubSeq(tokens[r], 1, len))
    BY <2>1 DEF OutputInv, NothingAfterStop
  <2>3. SubSeq(tokens[r], 1, len) = tokens[r]
    BY <1>1, SubSeqFull
  <2>4. ~(len >= MaxModelLen) /\ ~(len - prompt >= MaxTokens)
    BY <2>2, <2>3 DEF Stops
  <2>. HIDE DEF len, prompt
  <2>5. len < MaxTotalTokens(r)
    BY <1>2, <1>3, <1>6, <2>4, Limits
  <2>. QED BY <1>2, <1>3, <1>6, <2>5, Limits DEF len
<1>. QED
  <2>. HIDE DEF len, prompt
  <2>. QED BY <1>2, <1>3, <1>4, <1>7, <1>8

\* A block is free, or held and not in the queue; a count of 0 is a free block.
LEMMA Counted ==
  ASSUME TypeInv, AccountInv, NEW b \in Blocks
  PROVE  /\ IsFiniteSet(Holders(b))
         /\ pool.ref[b] \in Nat
         /\ pool.ref[b] = 0 <=> Holders(b) = {}
         /\ pool.ref[b] = 0 <=> b \in ToSet(pool.free)
<1>1. IsFiniteSet(Holders(b))
  BY RequestsAssumption, FS_Subset DEF Holders
<1>2. Cardinality(Holders(b)) = 0 <=> Holders(b) = {}
  BY <1>1, FS_EmptySet
<1>3. pool.ref[b] = Cardinality(Holders(b)) /\ (b \in ToSet(pool.free) <=> Holders(b) = {})
  BY DEF AccountInv
<1>4. pool.ref[b] \in Nat
  BY DEF TypeInv, Pools
<1>. QED BY <1>1, <1>2, <1>3, <1>4

\* When there is room, the free queue has the new blocks, once those found have left it.
LEMMA RoomSuffices ==
  ASSUME TypeInv, AccountInv, NEW r \in Requests,
         NEW found \in Seq(Blocks), IsInjective(found),
         NEW n \in Nat, NEW lookahead \in Nat,
         HasRoom(r, found, n, lookahead)
  PROVE  LET need == NeedSlot(r, found, n, lookahead)
             new == NewBlocks(r, found, n, lookahead)
         IN  /\ need \in Nat
             /\ new \in 0..Len(Touch(pool, found).free)
             /\ BlocksFor(need) <= Len(blocks[r]) + Len(found) + new
<1>. DEFINE touched == Touch(pool, found)
            need == NeedSlot(r, found, n, lookahead)
            new == NewBlocks(r, found, n, lookahead)
            evictable == {i \in DOMAIN found : pool.ref[found[i]] = 0}
            taken == {b \in ToSet(found) : pool.ref[b] = 0}
            want == BlocksFor(need) - Len(found) - Len(blocks[r])
<1>1. /\ pool \in Pools(Tokens) /\ IsInjective(pool.free) /\ pool.free \in Seq(Blocks)
      /\ computed[r] \in Nat /\ Len(found) \in Nat /\ Len(blocks[r]) \in Nat
  BY DEF TypeInv, AccountInv, Pools
<1>2. need \in Nat
  <2>. DEFINE a == computed[r] + Len(found) * BlockSize + n + lookahead
  <2>1. a \in Nat /\ MaxModelLen \in Nat
    <3>1. Len(found) * BlockSize \in Nat
      BY ONLY <1>1, RoomGrows
    <3>2. computed[r] \in Nat /\ n \in Nat /\ lookahead \in Nat
      BY <1>1
    <3>. QED BY <3>1, <3>2, Limits
  <2>2. need = Min({a, MaxModelLen})
    BY DEF NeedSlot
  <2>. HIDE DEF a, need
  <2>. QED BY <2>1, <2>2, MinOfTwo
<1>. HIDE DEF need
<1>3. BlocksFor(need) \in Nat
  BY <1>2, BlocksForFacts
<1>4. new = IF 0 >= want THEN 0 ELSE want
  <2>1. want \in Int
    BY <1>1, <1>3
  <2>2. new = Max({0, want})
    BY DEF NewBlocks, need
  <2>. HIDE DEF new, want
  <2>. QED BY <2>1, <2>2, MaxOfTwo
<1>5. /\ touched \in Pools(Tokens) /\ IsInjective(touched.free) /\ touched.free \in Seq(Blocks)
      /\ ToSet(touched.free) = ToSet(pool.free) \ taken
  <2>1. /\ touched \in Pools(Tokens) /\ touched.hash = pool.hash
        /\ IsInjective(touched.free)
        /\ ToSet(touched.free) = ToSet(pool.free) \ {b \in ToSet(found) : pool.ref[b] = 0}
        /\ touched.ref = [b \in Blocks |-> IF b \in ToSet(found) THEN pool.ref[b] + 1
                                           ELSE pool.ref[b]]
    <3>. HIDE DEF taken, need, evictable, new, want
    <3>. QED BY <1>1, TouchFacts
  <2>. HIDE DEF touched
  <2>. QED BY <2>1 DEF Pools
<1>6. taken \subseteq ToSet(pool.free)
  BY Counted DEF ToSet
<1>7. evictable \in SUBSET (1..Len(found)) /\ IsFiniteSet(evictable)
  <2>1. evictable \in SUBSET (1..Len(found))
    OBVIOUS
  <2>2. IsFiniteSet(1..Len(found))
    BY FS_Interval, <1>1
  <2>. HIDE DEF evictable
  <2>. QED BY <2>1, <2>2, FS_Subset
<1>8. Cardinality(taken) = Cardinality(evictable)
  <2>. DEFINE f == [i \in evictable |-> found[i]]
  <2>1. f \in [evictable -> taken]
    BY DEF ToSet
  <2>2. \A b \in taken : \E i \in evictable : f[i] = b
    BY DEF ToSet
  <2>3. \A i, j \in evictable : f[i] = f[j] => i = j
    BY DEF IsInjective
  <2>. HIDE DEF f, evictable, taken
  <2>4. f \in Surjection(evictable, taken)
    BY <2>1, <2>2 DEF Surjection
  <2>5. f \in Injection(evictable, taken)
    BY <2>1, <2>3 DEF Injection, IsInjective
  <2>. QED BY <1>7, <2>4, <2>5, FS_Surjection
<1>9. Len(touched.free) = Len(pool.free) - Cardinality(evictable)
  <2>1. /\ IsFiniteSet(ToSet(pool.free)) /\ Cardinality(ToSet(pool.free)) = Len(pool.free)
        /\ Cardinality(ToSet(touched.free)) = Len(touched.free)
    BY <1>1, <1>5, InjectiveLength
  <2>. HIDE DEF taken, touched, evictable
  <2>2. ToSet(pool.free) \cap taken = taken
    BY <1>6
  <2>3. Cardinality(ToSet(pool.free) \ taken)
          = Cardinality(ToSet(pool.free)) - Cardinality(ToSet(pool.free) \cap taken)
    BY <2>1, FS_Difference
  <2>. QED BY <1>5, <1>8, <2>1, <2>2, <2>3
<1>10. want + Cardinality(evictable) <= Len(pool.free)
  BY DEF HasRoom, need
<1>11. /\ Len(touched.free) \in Nat /\ Len(pool.free) \in Nat /\ Cardinality(evictable) \in Nat
       /\ want \in Int
  <2>1. Cardinality(evictable) \in Nat
    <3>. HIDE DEF evictable
    <3>. QED BY <1>7, FS_CardinalityType
  <2>. HIDE DEF evictable
  <2>. QED BY <1>1, <1>3, <1>5, <2>1
<1>12. new \in 0..Len(touched.free)
  <2>. HIDE DEF want, touched, evictable, new
  <2>. QED BY <1>4, <1>9, <1>10, <1>11
<1>13. BlocksFor(need) <= Len(blocks[r]) + Len(found) + new
  <2>. HIDE DEF new
  <2>. QED BY <1>1, <1>3, <1>4
<1>. QED BY <1>2, <1>12, <1>13 DEF need

\* The blocks of r after an allocation: its own, those found and new ones, in this order.
AllocationOf(r, found, n, lookahead) ==
  blocks[r] \o found \o NextFree(Touch(pool, found), NewBlocks(r, found, n, lookahead))

\* What allocate_slots may be called with: a request without blocks may have some found
\* for it, the first blocks of its own tokens.
MayAllocate(r, found, n, lookahead) ==
  /\ r \in Requests /\ tokens[r] # <<>>
  /\ found \in Seq(Blocks) /\ IsInjective(found)
  /\ n \in Nat /\ lookahead \in Nat
  /\ found = <<>> \/ (blocks[r] = <<>> /\ cachedBlocks[r] = 0)
  /\ \A i \in DOMAIN found :
       /\ i * BlockSize <= Len(tokens[r])
       /\ pool.hash[found[i]] = SubSeq(tokens[r], 1, i * BlockSize)
  /\ HasRoom(r, found, n, lookahead)

\* A prefix of whole blocks is not empty.
LEMMA PrefixNotEmpty ==
  ASSUME NEW T, NEW ts \in Seq(T), NEW i \in Nat, i > 0, i * BlockSize <= Len(ts)
  PROVE  SubSeq(ts, 1, i * BlockSize) # NoHash
<1>. DEFINE k == i * BlockSize
<1>1. k \in Nat /\ k > 0
  <2>1. 0 < i <=> 0 * BlockSize < i * BlockSize
    BY RoomGrows
  <2>2. 0 * BlockSize = 0
    BY Limits
  <2>3. k \in Nat
    BY RoomGrows
  <2>. HIDE DEF k
  <2>. QED BY <2>1, <2>2, <2>3 DEF k
<1>. HIDE DEF k
<1>2. SubSeq(ts, 1, k) # <<>>
  <2>1. k <= Len(ts)
    BY DEF k
  <2>2. Len(SubSeq(ts, 1, k)) = k
    BY <1>1, <2>1
  <2>3. Len(<<>>) = 0
    OBVIOUS
  <2>4. ASSUME SubSeq(ts, 1, k) = <<>> PROVE FALSE
    <3>1. Len(SubSeq(ts, 1, k)) = 0
      BY <2>3, <2>4
    <3>. QED BY <1>1, <2>2, <3>1
  <2>. QED BY <2>4
<1>. QED BY <1>2 DEF k, NoHash

\* New blocks were nobody's, and the blocks of a request do not repeat.
LEMMA AllocationOfNew ==
  ASSUME TypeInv, AccountInv, NEW r, NEW found, NEW n, NEW lookahead,
         MayAllocate(r, found, n, lookahead)
  PROVE  LET touched == Touch(pool, found)
             new == NewBlocks(r, found, n, lookahead)
             fresh == NextFree(touched, new)
             mine == AllocationOf(r, found, n, lookahead)
             q == GetNewBlocks(touched, new)
         IN  /\ fresh \in Seq(Blocks) /\ Len(fresh) = new /\ new \in Nat
             /\ \A b \in ToSet(fresh) : b \in Blocks /\ Holders(b) = {} /\ b \notin ToSet(found)
             /\ mine \in Seq(Blocks) /\ IsInjective(mine)
             /\ Len(mine) = Len(blocks[r]) + Len(found) + Len(fresh)
             /\ ToSet(mine) = ToSet(blocks[r]) \cup ToSet(found) \cup ToSet(fresh)
             /\ ToSet(blocks[r]) \cap ToSet(found) = {}
             /\ q \in Pools(Tokens) /\ IsInjective(q.free)
             /\ \A b \in Blocks :
                  /\ b \in ToSet(q.free) <=>
                       b \in ToSet(pool.free) /\ b \notin ToSet(found) /\ b \notin ToSet(fresh)
                  /\ q.ref[b] = IF b \in ToSet(found) \cup ToSet(fresh) THEN pool.ref[b] + 1
                                ELSE pool.ref[b]
                  /\ q.hash[b] = IF b \in ToSet(fresh) THEN NoHash ELSE pool.hash[b]
<1>. DEFINE touched == Touch(pool, found)
            new == NewBlocks(r, found, n, lookahead)
            fresh == NextFree(touched, new)
            mine == AllocationOf(r, found, n, lookahead)
            q == GetNewBlocks(touched, new)
<1>1. /\ r \in Requests /\ tokens[r] # <<>> /\ found \in Seq(Blocks) /\ IsInjective(found)
      /\ n \in Nat /\ lookahead \in Nat /\ HasRoom(r, found, n, lookahead)
      /\ found = <<>> \/ blocks[r] = <<>>
  BY DEF MayAllocate
<1>2. /\ pool \in Pools(Tokens) /\ IsInjective(pool.free) /\ pool.ref \in [Blocks -> Nat]
      /\ blocks[r] \in Seq(Blocks) /\ IsInjective(blocks[r])
  BY <1>1 DEF TypeInv, AccountInv, Pools
<1>3. /\ touched \in Pools(Tokens) /\ touched.hash = pool.hash
      /\ IsInjective(touched.free)
      /\ ToSet(touched.free) = ToSet(pool.free) \ {b \in ToSet(found) : pool.ref[b] = 0}
      /\ touched.ref = [b \in Blocks |-> IF b \in ToSet(found) THEN pool.ref[b] + 1
                                         ELSE pool.ref[b]]
  <2>1. pool \in Pools(Tokens) /\ IsInjective(pool.free) /\ found \in Seq(Blocks)
    BY <1>1, <1>2
  <2>. HIDE DEF new, fresh, mine, q
  <2>. QED BY <2>1, TouchFacts
<1>4. new \in 0..Len(touched.free)
  BY <1>1, RoomSuffices
<1>5. Len(touched.free) \in Nat
  <2>. HIDE DEF touched
  <2>. QED BY <1>3 DEF Pools
<1>6. new \in Nat
  <2>. HIDE DEF new, touched
  <2>. QED BY <1>4, <1>5
<1>7. /\ fresh \in Seq(Blocks) /\ Len(fresh) = new /\ IsInjective(fresh)
      /\ ToSet(fresh) \subseteq ToSet(touched.free)
      /\ q \in Pools(Tokens) /\ IsInjective(q.free)
      /\ ToSet(q.free) = ToSet(touched.free) \ ToSet(fresh)
      /\ q.ref = [b \in Blocks |-> IF b \in ToSet(fresh) THEN touched.ref[b] + 1
                                   ELSE touched.ref[b]]
      /\ q.hash = [b \in Blocks |-> IF b \in ToSet(fresh) THEN NoHash ELSE touched.hash[b]]
  <2>. HIDE DEF touched, new, mine
  <2>. QED BY <1>3, <1>4, GetNewFacts
<1>. HIDE DEF touched, new, q
<1>8. \A b \in ToSet(found) : b \in Blocks
  BY <1>1 DEF ToSet
<1>9. \A b \in ToSet(fresh) : b \in Blocks /\ Holders(b) = {} /\ b \notin ToSet(found)
  <2>. SUFFICES ASSUME NEW b \in ToSet(fresh)
                PROVE b \in Blocks /\ Holders(b) = {} /\ b \notin ToSet(found)
    OBVIOUS
  <2>1. b \in Blocks
    BY <1>7 DEF ToSet
  <2>2. b \in ToSet(pool.free) /\ ~(b \in ToSet(found) /\ pool.ref[b] = 0)
    BY <1>3, <1>7
  <2>. QED BY <2>1, <2>2, Counted
<1>10. ToSet(blocks[r]) \cap ToSet(found) = {}
  BY <1>1 DEF ToSet
<1>11. ToSet(blocks[r]) \cap ToSet(fresh) = {}
  BY <1>1, <1>9 DEF Holders, Holds
<1>. HIDE DEF fresh
<1>12. /\ mine \in Seq(Blocks) /\ IsInjective(mine)
       /\ Len(mine) = Len(blocks[r]) + Len(found) + Len(fresh)
       /\ ToSet(mine) = ToSet(blocks[r]) \cup ToSet(found) \cup ToSet(fresh)
  <2>. DEFINE own == blocks[r] \o found
  <2>1. /\ own \in Seq(Blocks) /\ ToSet(own) = ToSet(blocks[r]) \cup ToSet(found)
        /\ IsInjective(own)
    BY <1>1, <1>2, <1>10, ConcatInjective
  <2>2. Len(own) = Len(blocks[r]) + Len(found)
    BY <1>1, <1>2
  <2>3. ToSet(own) \cap ToSet(fresh) = {}
    BY <1>9, <1>11, <2>1
  <2>4. mine = own \o fresh
    BY DEF AllocationOf, fresh, touched, new
  <2>. HIDE DEF own, mine
  <2>5. /\ own \o fresh \in Seq(Blocks) /\ ToSet(own \o fresh) = ToSet(own) \cup ToSet(fresh)
        /\ IsInjective(own \o fresh)
    BY <1>7, <2>1, <2>3, ConcatInjective
  <2>6. Len(own \o fresh) = Len(own) + Len(fresh)
    BY <1>7, <2>1
  <2>. QED BY <2>1, <2>2, <2>4, <2>5, <2>6
<1>13. \A b \in Blocks :
         /\ b \in ToSet(q.free) <=>
              b \in ToSet(pool.free) /\ b \notin ToSet(found) /\ b \notin ToSet(fresh)
         /\ q.ref[b] = IF b \in ToSet(found) \cup ToSet(fresh) THEN pool.ref[b] + 1
                       ELSE pool.ref[b]
         /\ q.hash[b] = IF b \in ToSet(fresh) THEN NoHash ELSE pool.hash[b]
  <2>. SUFFICES ASSUME NEW b \in Blocks
                PROVE  /\ b \in ToSet(q.free) <=>
                            b \in ToSet(pool.free) /\ b \notin ToSet(found) /\ b \notin ToSet(fresh)
                       /\ q.ref[b] = IF b \in ToSet(found) \cup ToSet(fresh)
                                       THEN pool.ref[b] + 1 ELSE pool.ref[b]
                       /\ q.hash[b] = IF b \in ToSet(fresh) THEN NoHash ELSE pool.hash[b]
    OBVIOUS
  <2>1. b \in ToSet(q.free) <=>
          b \in ToSet(pool.free) /\ b \notin ToSet(found) /\ b \notin ToSet(fresh)
    BY <1>3, <1>7, Counted
  <2>2. touched.ref[b] = IF b \in ToSet(found) THEN pool.ref[b] + 1 ELSE pool.ref[b]
    BY <1>3
  <2>3. q.ref[b] = IF b \in ToSet(fresh) THEN touched.ref[b] + 1 ELSE touched.ref[b]
    BY <1>7
  <2>4. ~(b \in ToSet(fresh) /\ b \in ToSet(found))
    BY <1>9
  <2>5. q.hash[b] = IF b \in ToSet(fresh) THEN NoHash ELSE pool.hash[b]
    BY <1>3, <1>7
  <2>. QED BY <2>1, <2>2, <2>3, <2>4, <2>5
<1>. HIDE DEF mine
<1>. QED BY <1>6, <1>7, <1>9, <1>10, <1>12, <1>13 DEF touched, new, fresh, mine, q

\* What allocate_slots counts as cached are full blocks of committed tokens.
CommittedBlocks(r, found, n) ==
  Min({computed[r] + Len(found) * BlockSize + n, Len(tokens[r])}) \div BlockSize

\* The blocks have room for what is computed, and the committed ones are among them.
LEMMA AllocationHasRoom ==
  ASSUME TypeInv, OutputInv, AccountInv, NEW r, NEW found, NEW n, NEW lookahead,
         MayAllocate(r, found, n, lookahead)
  PROVE  LET mine == AllocationOf(r, found, n, lookahead)
             full == CommittedBlocks(r, found, n)
         IN  /\ full \in 0..Len(mine)
             /\ full * BlockSize <= Len(tokens[r])
             /\ NeedSlot(r, found, n, lookahead) <= Len(mine) * BlockSize
             /\ NeedSlot(r, found, n, lookahead)
                  = Min({computed[r] + Len(found) * BlockSize + n + lookahead, MaxModelLen})
<1>. DEFINE mine == AllocationOf(r, found, n, lookahead)
            full == CommittedBlocks(r, found, n)
            need == NeedSlot(r, found, n, lookahead)
            new == NewBlocks(r, found, n, lookahead)
            x == computed[r] + Len(found) * BlockSize + n
            y == Len(tokens[r])
            m == Min({x, y})
<1>1. /\ r \in Requests /\ tokens[r] # <<>> /\ found \in Seq(Blocks) /\ IsInjective(found)
      /\ n \in Nat /\ lookahead \in Nat /\ HasRoom(r, found, n, lookahead)
  BY DEF MayAllocate
<1>2. /\ Len(mine) = Len(blocks[r]) + Len(found) + new /\ new \in Nat /\ mine \in Seq(Blocks)
  BY AllocationOfNew
<1>3. need \in Nat /\ BlocksFor(need) <= Len(blocks[r]) + Len(found) + new
  BY <1>1, RoomSuffices
<1>4. Len(mine) \in Nat
  BY <1>2
<1>5. need <= Len(mine) * BlockSize
  <2>. DEFINE k == BlocksFor(need)
              len == Len(mine)
  <2>1. k \in Nat /\ need <= k * BlockSize
    BY <1>3, BlocksForFacts
  <2>2. k <= len
    BY <1>2, <1>3
  <2>. HIDE DEF k, len, need
  <2>3. len \in Nat
    BY <1>4 DEF len
  <2>4. k * BlockSize <= len * BlockSize /\ k * BlockSize \in Nat /\ len * BlockSize \in Nat
    BY <2>1, <2>2, <2>3, RoomGrows
  <2>5. need <= len * BlockSize
    BY <1>3, <2>1, <2>4
  <2>. QED BY <2>5 DEF len
<1>6. x \in Nat /\ y \in Nat /\ y < MaxModelLen
  <2>1. computed[r] \in Nat /\ Len(found) \in Nat
    BY <1>1 DEF TypeInv
  <2>2. Len(found) * BlockSize \in Nat
    BY <2>1, RoomGrows
  <2>3. /\ y \in Nat /\ MaxTotalTokens(r) \in Nat
        /\ MaxTotalTokens(r) <= MaxModelLen /\ y < MaxTotalTokens(r)
    BY <1>1, NotStopped
  <2>. HIDE DEF y
  <2>. QED BY <1>1, <2>1, <2>2, <2>3, Limits
<1>7. need = Min({x + lookahead, MaxModelLen})
  BY DEF NeedSlot
<1>. HIDE DEF x, y, need, mine
<1>8. m \in Nat /\ m <= y /\ m <= need
  <2>1. m = IF x <= y THEN x ELSE y
    BY <1>6, MinOfTwo
  <2>2. x + lookahead \in Int /\ MaxModelLen \in Int
    BY <1>1, <1>6, Limits
  <2>3. need = IF x + lookahead <= MaxModelLen THEN x + lookahead ELSE MaxModelLen
    BY <1>7, <2>2, MinOfTwo
  <2>. HIDE DEF m
  <2>. QED BY <1>1, <1>6, <2>1, <2>3, Limits
<1>9. full = m \div BlockSize
  BY DEF CommittedBlocks, x, y
<1>. HIDE DEF m, full
<1>10. full \in Nat /\ full * BlockSize <= m
  BY <1>8, <1>9, FullBlocks
<1>. DEFINE len == Len(mine)
<1>11. len \in Nat /\ full * BlockSize \in Nat /\ len * BlockSize \in Nat
  BY <1>4, <1>10, RoomGrows
<1>12. need <= len * BlockSize
  BY <1>5
<1>. HIDE DEF len
<1>13. full * BlockSize <= len * BlockSize
  BY <1>3, <1>8, <1>10, <1>11, <1>12
<1>14. full <= len
  BY <1>10, <1>11, <1>13, RoomGrows
<1>15. full * BlockSize <= y
  BY <1>6, <1>8, <1>10, <1>11
<1>16. full \in 0..len
  BY <1>10, <1>11, <1>14
<1>. QED BY <1>5, <1>7, <1>15, <1>16 DEF full, need, mine, y, x, len

\* The accounts stay right: what r gets it is counted for, and it has left the queue.
LEMMA AllocationAccounted ==
  ASSUME TypeInv, OutputInv, AccountInv, CacheInv, NEW r, NEW found, NEW n, NEW lookahead,
         MayAllocate(r, found, n, lookahead),
         AllocateSlots(r, found, n, lookahead), tokens' = tokens
  PROVE  /\ pool' \in Pools(Tokens)
         /\ blocks' \in [Requests -> Seq(Blocks)]
         /\ cachedBlocks' \in [Requests -> Nat]
         /\ blocks' = [blocks EXCEPT ![r] = AllocationOf(r, found, n, lookahead)]
         /\ \A q \in Requests \ {r} : cachedBlocks'[q] = cachedBlocks[q]
         /\ AccountInv' /\ CacheInv'
<1>. DEFINE touched == Touch(pool, found)
            new == NewBlocks(r, found, n, lookahead)
            fresh == NextFree(touched, new)
            mine == AllocationOf(r, found, n, lookahead)
            given == GetNewBlocks(touched, new)
            cached == cachedBlocks[r] + Len(found)
            full == CommittedBlocks(r, found, n)
            ts == tokens[r]
<1>1. /\ r \in Requests /\ ts # <<>> /\ found \in Seq(Blocks) /\ IsInjective(found)
      /\ found = <<>> \/ (blocks[r] = <<>> /\ cachedBlocks[r] = 0)
      /\ \A i \in DOMAIN found :
           i * BlockSize <= Len(ts) /\ pool.hash[found[i]] = SubSeq(ts, 1, i * BlockSize)
  BY DEF MayAllocate
<1>2. /\ ts \in Seq(Tokens) /\ blocks \in [Requests -> Seq(Blocks)]
      /\ cachedBlocks \in [Requests -> Nat] /\ Len(blocks[r]) \in Nat /\ Len(found) \in Nat
      /\ cached \in Nat
  BY <1>1 DEF TypeInv
<1>3. /\ fresh \in Seq(Blocks) /\ Len(fresh) = new /\ new \in Nat
      /\ \A b \in ToSet(fresh) : b \in Blocks /\ Holders(b) = {} /\ b \notin ToSet(found)
      /\ mine \in Seq(Blocks) /\ IsInjective(mine)
      /\ Len(mine) = Len(blocks[r]) + Len(found) + Len(fresh)
      /\ ToSet(mine) = ToSet(blocks[r]) \cup ToSet(found) \cup ToSet(fresh)
      /\ ToSet(blocks[r]) \cap ToSet(found) = {}
      /\ given \in Pools(Tokens) /\ IsInjective(given.free)
      /\ \A b \in Blocks :
           /\ b \in ToSet(given.free) <=>
                b \in ToSet(pool.free) /\ b \notin ToSet(found) /\ b \notin ToSet(fresh)
           /\ given.ref[b] = IF b \in ToSet(found) \cup ToSet(fresh) THEN pool.ref[b] + 1
                             ELSE pool.ref[b]
           /\ given.hash[b] = IF b \in ToSet(fresh) THEN NoHash ELSE pool.hash[b]
  BY AllocationOfNew
<1>4. full \in 0..Len(mine) /\ full * BlockSize <= Len(ts)
  BY AllocationHasRoom
<1>5. /\ pool' = CacheFullBlocks(given, mine, cached, full, ts)
      /\ blocks' = [blocks EXCEPT ![r] = mine]
      /\ cachedBlocks' = [cachedBlocks EXCEPT ![r] = Max({cached, full})]
  BY DEF AllocateSlots, AllocationOf, CommittedBlocks
<1>. HIDE DEF touched, new, fresh, mine, given, full, cached
<1>6. /\ pool' \in Pools(Tokens) /\ pool'.free = given.free /\ pool'.ref = given.ref
      /\ \A i \in (cached + 1)..full : pool'.hash[mine[i]] = SubSeq(ts, 1, i * BlockSize)
      /\ \A b \in Blocks :
           (\A i \in (cached + 1)..full : mine[i] # b) => pool'.hash[b] = given.hash[b]
  <2>. DEFINE q == CacheFullBlocks(given, mine, cached, full, ts)
  <2>1. /\ given \in Pools(Tokens) /\ mine \in Seq(Blocks) /\ IsInjective(mine)
        /\ cached \in Nat /\ full \in 0..Len(mine) /\ ts \in Seq(Tokens)
        /\ full * BlockSize <= Len(ts)
    BY <1>2, <1>3, <1>4
  <2>. HIDE DEF ts
  <2>2. /\ q \in Pools(Tokens) /\ q.free = given.free /\ q.ref = given.ref
        /\ \A i \in (cached + 1)..full : q.hash[mine[i]] = SubSeq(ts, 1, i * BlockSize)
        /\ \A b \in Blocks :
             (\A i \in (cached + 1)..full : mine[i] # b) => q.hash[b] = given.hash[b]
    BY <2>1, CacheFacts
  <2>3. pool' = q
    BY <1>5
  <2>. HIDE DEF q
  <2>. QED BY <2>2, <2>3
<1>7. full \in Nat /\ Len(mine) \in Nat /\ full <= Len(mine) /\ DOMAIN mine = 1..Len(mine)
  BY <1>3, <1>4
<1>8. /\ cachedBlocks'[r] = (IF cached >= full THEN cached ELSE full)
      /\ cachedBlocks'[r] \in Nat
      /\ \A q \in Requests \ {r} : cachedBlocks'[q] = cachedBlocks[q] /\ blocks'[q] = blocks[q]
      /\ blocks'[r] = mine
  <2>1. Max({cached, full}) = IF cached >= full THEN cached ELSE full
    <3>1. cached \in Int /\ full \in Int
      BY <1>2, <1>7
    <3>. QED BY <3>1, MaxOfTwo
  <2>2. cachedBlocks'[r] = Max({cached, full}) /\ blocks'[r] = mine
    BY <1>1, <1>2, <1>5
  <2>3. \A q \in Requests \ {r} : cachedBlocks'[q] = cachedBlocks[q] /\ blocks'[q] = blocks[q]
    BY <1>1, <1>2, <1>5
  <2>4. cachedBlocks'[r] \in Nat
    BY <1>2, <1>7, <2>1, <2>2
  <2>. QED BY <2>1, <2>2, <2>3, <2>4
<1>9. blocks' \in [Requests -> Seq(Blocks)] /\ cachedBlocks' \in [Requests -> Nat]
  BY <1>2, <1>3, <1>5, <1>8
<1>10. \A i \in (cached + 1)..full :
         /\ i \in Nat /\ i > 0 /\ i \in DOMAIN mine
         /\ i * BlockSize <= Len(ts) /\ SubSeq(ts, 1, i * BlockSize) # NoHash
  <2>. SUFFICES ASSUME NEW i \in (cached + 1)..full
                PROVE  /\ i \in Nat /\ i > 0 /\ i \in DOMAIN mine
                       /\ i * BlockSize <= Len(ts) /\ SubSeq(ts, 1, i * BlockSize) # NoHash
    OBVIOUS
  <2>1. i \in Nat /\ i > 0 /\ i <= full /\ i \in DOMAIN mine
    BY <1>2, <1>7
  <2>2. i * BlockSize \in Nat /\ i * BlockSize <= full * BlockSize /\ full * BlockSize \in Nat
    BY <1>7, <2>1, RoomGrows
  <2>3. Len(ts) \in Nat
    BY <1>2
  <2>4. i * BlockSize <= Len(ts)
    BY <1>4, <2>2, <2>3
  <2>. QED BY <1>2, <2>1, <2>4, PrefixNotEmpty
\* What a hashed or unhashed block was before.
<1>11. \A b \in Blocks \ ToSet(fresh) : pool'.hash[b] = pool.hash[b] \/ pool'.hash[b] # NoHash
  BY <1>3, <1>6, <1>10
<1>12. \A b \in Blocks : Holders(b)' = IF b \in ToSet(found) \cup ToSet(fresh)
                                         THEN Holders(b) \cup {r} ELSE Holders(b)
  <2>. SUFFICES ASSUME NEW b \in Blocks
                PROVE Holders(b)' = IF b \in ToSet(found) \cup ToSet(fresh)
                                      THEN Holders(b) \cup {r} ELSE Holders(b)
    OBVIOUS
  <2>1. \A q \in Requests : Holds(q, b)' <=>
           Holds(q, b) \/ (q = r /\ b \in ToSet(found) \cup ToSet(fresh))
    BY <1>3, <1>8 DEF Holds
  <2>2. Holders(b) = {q \in Requests : Holds(q, b)} /\ Holders(b)' = {q \in Requests : Holds(q, b)'}
    BY DEF Holders
  <2>. HIDE DEF Holds, Holders
  <2>. QED BY <1>1, <2>1, <2>2
<1>13. \A b \in ToSet(found) : b \in Blocks /\ r \notin Holders(b) /\ pool.hash[b] # NoHash
  <2>. SUFFICES ASSUME NEW i \in DOMAIN found
                PROVE found[i] \in Blocks /\ r \notin Holders(found[i])
                      /\ pool.hash[found[i]] # NoHash
    BY DEF ToSet
  <2>1. i \in Nat /\ i > 0 /\ found[i] \in Blocks /\ found[i] \in ToSet(found)
    BY <1>1 DEF ToSet
  <2>2. r \notin Holders(found[i])
    BY <1>3, <2>1 DEF Holders, Holds
  <2>3. SubSeq(ts, 1, i * BlockSize) # NoHash
    BY <1>1, <1>2, <2>1, PrefixNotEmpty
  <2>. QED BY <1>1, <2>1, <2>2, <2>3
<1>14. AccountInv'
  <2>1. ASSUME NEW b \in Blocks PROVE pool'.ref[b] = Cardinality(Holders(b)')
    <3>1. IsFiniteSet(Holders(b)) /\ pool.ref[b] = Cardinality(Holders(b))
      BY Counted DEF AccountInv
    <3>2. CASE b \in ToSet(found) \cup ToSet(fresh)
      <4>1. r \notin Holders(b)
        BY <1>3, <1>13, <3>2
      <4>2. Cardinality(Holders(b) \cup {r}) = Cardinality(Holders(b)) + 1
        BY <3>1, <4>1, FS_AddElement
      <4>. QED BY <1>3, <1>6, <1>12, <3>1, <3>2, <4>2
    <3>3. CASE b \notin ToSet(found) \cup ToSet(fresh)
      BY <1>3, <1>6, <1>12, <3>1, <3>3
    <3>. QED BY <3>2, <3>3
  <2>2. ASSUME NEW b \in Blocks PROVE b \in ToSet(pool'.free) <=> Holders(b)' = {}
    <3>1. b \in ToSet(pool.free) <=> Holders(b) = {}
      BY DEF AccountInv
    <3>2. b \in ToSet(pool'.free) <=>
            b \in ToSet(pool.free) /\ b \notin ToSet(found) \cup ToSet(fresh)
      BY <1>3, <1>6
    <3>. QED BY <1>12, <3>1, <3>2
  <2>3. IsInjective(pool'.free)
    BY <1>3, <1>6
  <2>4. \A q \in Requests : IsInjective(blocks'[q])
    BY <1>3, <1>8 DEF AccountInv
  <2>5. ASSUME NEW b \in Blocks, NEW q1 \in Holders(b)', NEW q2 \in Holders(b)', q1 # q2
        PROVE pool'.hash[b] # NoHash
    <3>1. b \notin ToSet(fresh)
      BY <1>3, <1>12, <2>5
    <3>2. CASE b \in ToSet(found)
      BY <1>11, <1>13, <3>1, <3>2
    <3>3. CASE b \notin ToSet(found)
      <4>1. q1 \in Holders(b) /\ q2 \in Holders(b)
        BY <1>12, <3>1, <3>3
      <4>2. pool.hash[b] # NoHash
        BY <2>5, <4>1 DEF AccountInv
      <4>. QED BY <1>11, <3>1, <4>2
    <3>. QED BY <3>2, <3>3
  <2>. HIDE DEF Holders
  <2>. QED BY <2>1, <2>2, <2>3, <2>4, <2>5 DEF AccountInv
<1>15. \A i \in DOMAIN mine :
         /\ i <= Len(blocks[r]) => mine[i] = blocks[r][i] /\ i \in DOMAIN blocks[r]
         /\ i > Len(blocks[r]) /\ i <= Len(blocks[r]) + Len(found) =>
              mine[i] = found[i - Len(blocks[r])] /\ i - Len(blocks[r]) \in DOMAIN found
         /\ i > Len(blocks[r]) + Len(found) => mine[i] \in ToSet(fresh)
  <2>. SUFFICES ASSUME NEW i \in DOMAIN mine
                PROVE  /\ i <= Len(blocks[r]) => mine[i] = blocks[r][i] /\ i \in DOMAIN blocks[r]
                       /\ i > Len(blocks[r]) /\ i <= Len(blocks[r]) + Len(found) =>
                            /\ mine[i] = found[i - Len(blocks[r])]
                            /\ i - Len(blocks[r]) \in DOMAIN found
                       /\ i > Len(blocks[r]) + Len(found) => mine[i] \in ToSet(fresh)
    OBVIOUS
  <2>. DEFINE old == blocks[r]
              own == old \o found
  <2>1. mine = own \o fresh /\ i \in 1..(Len(old) + Len(found) + Len(fresh))
    BY <1>3, <1>7 DEF mine, AllocationOf, fresh, touched, new
  <2>2. old \in Seq(Blocks) /\ found \in Seq(Blocks) /\ fresh \in Seq(Blocks)
    BY <1>1, <1>2, <1>3
  <2>. HIDE DEF old
  <2>3. own \in Seq(Blocks) /\ Len(own) = Len(old) + Len(found)
    BY <2>2
  <2>4. \A j \in 1..Len(own) : own[j] = IF j <= Len(old) THEN old[j] ELSE found[j - Len(old)]
    BY <2>2
  <2>. HIDE DEF own
  <2>5. mine[i] = IF i <= Len(own) THEN own[i] ELSE fresh[i - Len(own)]
    BY <2>1, <2>2, <2>3
  <2>6. i \in Nat /\ Len(old) \in Nat /\ Len(found) \in Nat /\ Len(fresh) \in Nat
    BY <2>1, <2>2
  <2>7. CASE i <= Len(old)
    <3>1. i \in 1..Len(own) /\ i \in 1..Len(old)
      BY <2>1, <2>3, <2>6, <2>7
    <3>2. mine[i] = old[i] /\ i \in DOMAIN old
      BY <2>2, <2>4, <2>5, <2>7, <3>1
    <3>. QED BY <2>6, <2>7, <3>2 DEF old
  <2>8. CASE i > Len(old) /\ i <= Len(old) + Len(found)
    <3>1. i \in 1..Len(own) /\ i - Len(old) \in 1..Len(found)
      BY <2>1, <2>3, <2>6, <2>8
    <3>2. mine[i] = found[i - Len(old)] /\ i - Len(old) \in DOMAIN found
      BY <2>2, <2>4, <2>5, <2>6, <2>8, <3>1
    <3>. QED BY <2>6, <2>8, <3>2 DEF old
  <2>9. CASE i > Len(old) + Len(found)
    <3>1. i - Len(own) \in 1..Len(fresh)
      BY <2>1, <2>3, <2>6, <2>9
    <3>2. mine[i] = fresh[i - Len(own)] /\ i - Len(own) \in DOMAIN fresh
      BY <2>2, <2>3, <2>5, <2>6, <2>9, <3>1
    <3>. QED BY <2>6, <2>9, <3>2 DEF old, ToSet
  <2>. QED BY <2>6, <2>7, <2>8, <2>9
\* Block number i of r was a hashed one of its own, or was found, if i <= cached, and
\* otherwise had no hash or is new.
<1>16. \A i \in DOMAIN mine :
         IF i <= cached
           THEN /\ i * BlockSize <= Len(ts) /\ mine[i] \notin ToSet(fresh)
                /\ pool.hash[mine[i]] = SubSeq(ts, 1, i * BlockSize)
           ELSE \/ mine[i] \in ToSet(fresh)
                \/ r \in Holders(mine[i]) /\ pool.hash[mine[i]] = NoHash
  <2>. SUFFICES ASSUME NEW i \in DOMAIN mine
                PROVE IF i <= cached
                        THEN /\ i * BlockSize <= Len(ts) /\ mine[i] \notin ToSet(fresh)
                             /\ pool.hash[mine[i]] = SubSeq(ts, 1, i * BlockSize)
                        ELSE \/ mine[i] \in ToSet(fresh)
                             \/ r \in Holders(mine[i]) /\ pool.hash[mine[i]] = NoHash
    OBVIOUS
  <2>1. i \in Nat /\ i > 0
    BY <1>7
  <2>2. cachedBlocks[r] <= Len(blocks[r]) /\ cachedBlocks[r] \in Nat
    BY <1>1, <1>2 DEF CacheInv
  <2>3. ASSUME i \in DOMAIN blocks[r], mine[i] = blocks[r][i]
        PROVE r \in Holders(mine[i]) /\ mine[i] \notin ToSet(fresh)
    <3>1. mine[i] \in ToSet(blocks[r])
      BY <2>3 DEF ToSet
    <3>. QED BY <1>1, <1>3, <3>1 DEF Holders, Holds
  <2>4. CASE found = <<>>
    <3>1. cached = cachedBlocks[r] /\ Len(found) = 0
      BY <1>2, <2>2, <2>4 DEF cached
    <3>2. CASE i <= Len(blocks[r])
      <4>1. mine[i] = blocks[r][i] /\ i \in DOMAIN blocks[r]
        BY <1>15, <3>2
      <4>2. IF i <= cachedBlocks[r]
              THEN /\ i * BlockSize <= Len(ts)
                   /\ pool.hash[mine[i]] = SubSeq(ts, 1, i * BlockSize)
              ELSE pool.hash[mine[i]] = NoHash
        BY <1>1, <4>1 DEF CacheInv, CommittedBlocksAreCached
      <4>. QED BY <2>3, <3>1, <4>1, <4>2
    <3>3. CASE i > Len(blocks[r])
      <4>1. mine[i] \in ToSet(fresh) /\ ~(i <= cached)
        BY <1>2, <1>15, <2>1, <2>2, <3>1, <3>3
      <4>. QED BY <4>1
    <3>. QED BY <1>2, <2>1, <3>2, <3>3
  <2>5. CASE blocks[r] = <<>> /\ cachedBlocks[r] = 0
    <3>1. Len(blocks[r]) = 0 /\ cached = Len(found)
      BY <1>2, <2>5 DEF cached
    <3>2. CASE i <= Len(found)
      <4>1. mine[i] = found[i - Len(blocks[r])] /\ i - Len(blocks[r]) \in DOMAIN found
        BY <1>2, <1>15, <2>1, <3>1, <3>2
      <4>2. mine[i] = found[i] /\ i \in DOMAIN found
        BY <2>1, <3>1, <4>1
      <4>3. mine[i] \notin ToSet(fresh)
        BY <1>3, <4>2 DEF ToSet
      <4>. QED BY <1>1, <3>1, <3>2, <4>2, <4>3
    <3>3. CASE i > Len(found)
      <4>1. mine[i] \in ToSet(fresh) /\ ~(i <= cached)
        BY <1>2, <1>15, <2>1, <3>1, <3>3
      <4>. QED BY <4>1
    <3>. QED BY <1>2, <2>1, <3>2, <3>3
  <2>. QED BY <1>1, <2>4, <2>5
<1>17. cachedBlocks'[r] <= Len(mine)
  <2>1. cachedBlocks[r] <= Len(blocks[r]) /\ cachedBlocks[r] \in Nat
    BY <1>1, <1>2 DEF CacheInv
  <2>2. cached <= Len(mine)
    BY <1>2, <1>3, <2>1 DEF cached
  <2>. QED BY <1>2, <1>7, <1>8, <2>2
<1>18. ASSUME NEW i \in DOMAIN mine
       PROVE  IF i <= cachedBlocks'[r]
                THEN /\ i * BlockSize <= Len(ts)
                     /\ pool'.hash[mine[i]] = SubSeq(ts, 1, i * BlockSize)
                ELSE pool'.hash[mine[i]] = NoHash
  <2>1. i \in Nat /\ i > 0 /\ mine[i] \in Blocks
    BY <1>3, <1>7
  <2>2. CASE i \in (cached + 1)..full
    <3>1. i <= cachedBlocks'[r]
      BY <1>2, <1>7, <1>8, <2>1, <2>2
    <3>. QED BY <1>6, <1>10, <2>2, <3>1
  <2>3. CASE i \notin (cached + 1)..full
    <3>1. pool'.hash[mine[i]] = given.hash[mine[i]]
      <4>1. \A j \in (cached + 1)..full : mine[j] # mine[i]
        BY <1>3, <1>10, <2>3 DEF IsInjective
      <4>. QED BY <1>6, <2>1, <4>1
    <3>2. given.hash[mine[i]] = IF mine[i] \in ToSet(fresh) THEN NoHash ELSE pool.hash[mine[i]]
      BY <1>3, <2>1
    <3>3. i <= cachedBlocks'[r] <=> i <= cached
      BY <1>2, <1>7, <1>8, <2>1, <2>3
    <3>. QED BY <1>16, <3>1, <3>2, <3>3
  <2>. QED BY <2>2, <2>3
\* The blocks of others: those which get a hash are not theirs.
<1>19. ASSUME NEW q \in Requests \ {r}, NEW i \in DOMAIN blocks[q]
       PROVE  pool'.hash[blocks[q][i]] = pool.hash[blocks[q][i]]
  <2>. DEFINE b == blocks[q][i]
  <2>1. b \in Blocks
    BY <1>2
  <2>2. q \in Holders(b)
    BY DEF Holders, Holds, ToSet
  <2>. HIDE DEF b
  <2>3. b \notin ToSet(fresh)
    BY <1>3, <2>2
  <2>4. ASSUME NEW j \in (cached + 1)..full, mine[j] = b PROVE FALSE
    <3>1. j \in DOMAIN mine /\ ~(j <= cached)
      BY <1>2, <1>7, <1>10
    <3>2. r \in Holders(b) /\ pool.hash[b] = NoHash
      BY <1>16, <2>3, <2>4, <3>1
    <3>3. pool.hash[b] # NoHash
      <4>1. q # r
        OBVIOUS
      <4>. QED BY <2>1, <2>2, <3>2, <4>1 DEF AccountInv
    <3>. QED BY <3>2, <3>3
  <2>5. pool'.hash[b] = given.hash[b]
    BY <1>6, <2>1, <2>4
  <2>6. given.hash[b] = pool.hash[b]
    BY <1>3, <2>1, <2>3
  <2>. QED BY <2>5, <2>6 DEF b
<1>20. CommittedBlocksAreCached'
  <2>. SUFFICES ASSUME NEW q \in Requests, NEW i \in DOMAIN blocks'[q]
                PROVE  IF i <= cachedBlocks'[q]
                         THEN /\ i * BlockSize <= Len(tokens'[q])
                              /\ pool'.hash[blocks'[q][i]] = SubSeq(tokens'[q], 1, i * BlockSize)
                         ELSE pool'.hash[blocks'[q][i]] = NoHash
    BY DEF CommittedBlocksAreCached
  <2>1. CASE q = r
    BY <1>8, <1>18, <2>1
  <2>2. CASE q # r
    <3>1. blocks'[q] = blocks[q] /\ cachedBlocks'[q] = cachedBlocks[q] /\ tokens'[q] = tokens[q]
      BY <1>8, <2>2
    <3>2. IF i <= cachedBlocks[q]
            THEN /\ i * BlockSize <= Len(tokens[q])
                 /\ pool.hash[blocks[q][i]] = SubSeq(tokens[q], 1, i * BlockSize)
            ELSE pool.hash[blocks[q][i]] = NoHash
      BY <3>1 DEF CacheInv, CommittedBlocksAreCached
    <3>. QED BY <1>19, <2>2, <3>1, <3>2
  <2>. QED BY <2>1, <2>2
<1>21. CacheInv'
  <2>1. ASSUME NEW q \in Requests PROVE cachedBlocks'[q] <= Len(blocks'[q])
    BY <1>8, <1>17 DEF CacheInv
  <2>. QED BY <1>20, <2>1 DEF CacheInv
<1>. QED BY <1>5, <1>6, <1>8, <1>9, <1>14, <1>21 DEF mine

-------------------------------------------------------------------------------
(* Free. *)

\* The accounts stay right when a request gives its blocks back.
LEMMA ReleaseAccounted ==
  ASSUME TypeInv, AccountInv, CacheInv, NEW r \in Requests, Free(r),
         \A q \in Requests \ {r} : tokens'[q] = tokens[q]
  PROVE  /\ pool' \in Pools(Tokens)
         /\ blocks' \in [Requests -> Seq(Blocks)]
         /\ cachedBlocks' \in [Requests -> Nat]
         /\ blocks' = [blocks EXCEPT ![r] = <<>>]
         /\ cachedBlocks' = [cachedBlocks EXCEPT ![r] = 0]
         /\ AccountInv' /\ CacheInv'
<1>. DEFINE ordered == Reverse(blocks[r])
            f == FreeBlocks(pool, ordered)
<1>1. /\ pool \in Pools(Tokens) /\ IsInjective(pool.free) /\ pool.ref \in [Blocks -> Nat]
      /\ blocks \in [Requests -> Seq(Blocks)] /\ cachedBlocks \in [Requests -> Nat]
      /\ IsInjective(blocks[r]) /\ blocks[r] \in Seq(Blocks)
  BY DEF TypeInv, AccountInv, Pools
<1>2. /\ pool' = f /\ blocks' = [blocks EXCEPT ![r] = <<>>]
      /\ cachedBlocks' = [cachedBlocks EXCEPT ![r] = 0]
  BY DEF Free
<1>3. ordered \in Seq(Blocks) /\ ToSet(ordered) = ToSet(blocks[r]) /\ IsInjective(ordered)
  BY <1>1, ReverseInjective
<1>4. \A b \in ToSet(blocks[r]) :
        /\ b \in Blocks /\ r \in Holders(b)
        /\ b \notin ToSet(pool.free) /\ pool.ref[b] > 0
  <2>. SUFFICES ASSUME NEW b \in ToSet(blocks[r])
                PROVE  /\ b \in Blocks /\ r \in Holders(b)
                       /\ b \notin ToSet(pool.free) /\ pool.ref[b] > 0
    OBVIOUS
  <2>1. b \in Blocks
    BY <1>1 DEF ToSet
  <2>2. r \in Holders(b)
    BY DEF Holders, Holds
  <2>. QED BY <2>1, <2>2, Counted
<1>. HIDE DEF ordered, f
<1>5. /\ f \in Pools(Tokens) /\ f.hash = pool.hash
      /\ IsInjective(f.free)
      /\ ToSet(f.free) = ToSet(pool.free) \cup {b \in ToSet(ordered) : pool.ref[b] = 1}
      /\ f.ref = [b \in Blocks |-> IF b \in ToSet(ordered) THEN pool.ref[b] - 1 ELSE pool.ref[b]]
  <2>1. \A b \in ToSet(ordered) : b \notin ToSet(pool.free) /\ pool.ref[b] > 0
    BY <1>3, <1>4
  <2>. QED BY <1>1, <1>3, <2>1, FreeFacts DEF f
<1>6. /\ blocks'[r] = <<>> /\ cachedBlocks'[r] = 0
      /\ \A q \in Requests \ {r} : blocks'[q] = blocks[q] /\ cachedBlocks'[q] = cachedBlocks[q]
  BY <1>1, <1>2
<1>7. blocks' \in [Requests -> Seq(Blocks)] /\ cachedBlocks' \in [Requests -> Nat]
  BY <1>1, <1>2
<1>8. \A b \in Blocks : Holders(b)' = Holders(b) \ {r}
  <2>. SUFFICES ASSUME NEW b \in Blocks PROVE Holders(b)' = Holders(b) \ {r}
    OBVIOUS
  <2>1. \A q \in Requests : Holds(q, b)' <=> Holds(q, b) /\ q # r
    BY <1>6 DEF Holds, ToSet
  <2>2. Holders(b) = {q \in Requests : Holds(q, b)} /\ Holders(b)' = {q \in Requests : Holds(q, b)'}
    BY DEF Holders
  <2>. HIDE DEF Holds, Holders
  <2>. QED BY <2>1, <2>2
<1>9. ASSUME NEW b \in Blocks
      PROVE  /\ pool'.ref[b] = Cardinality(Holders(b)')
             /\ b \in ToSet(pool'.free) <=> Holders(b)' = {}
  <2>1. /\ IsFiniteSet(Holders(b)) /\ pool.ref[b] = Cardinality(Holders(b))
        /\ pool.ref[b] \in Nat
        /\ b \in ToSet(pool.free) <=> Holders(b) = {}
    BY Counted DEF AccountInv
  <2>2. CASE b \in ToSet(blocks[r])
    <3>1. r \in Holders(b) /\ b \notin ToSet(pool.free)
      BY <1>4, <2>2
    <3>2. IsFiniteSet(Holders(b) \ {r}) /\ Cardinality(Holders(b) \ {r}) = Cardinality(Holders(b)) - 1
      BY <2>1, <3>1, FS_RemoveElement
    <3>3. Cardinality(Holders(b) \ {r}) = 0 <=> Holders(b) \ {r} = {}
      BY <3>2, FS_EmptySet
    <3>4. pool'.ref[b] = pool.ref[b] - 1
      BY <1>2, <1>3, <1>5, <2>2
    <3>5. b \in ToSet(pool'.free) <=> pool.ref[b] = 1
      BY <1>2, <1>3, <1>5, <2>2, <3>1
    <3>6. Holders(b)' = Holders(b) \ {r}
      BY <1>8
    <3>7. pool'.ref[b] = Cardinality(Holders(b)')
      BY <2>1, <3>2, <3>4, <3>6
    <3>8. pool.ref[b] = 1 <=> Holders(b) \ {r} = {}
      BY <2>1, <3>2, <3>3
    <3>. QED BY <3>5, <3>6, <3>7, <3>8
  <2>3. CASE b \notin ToSet(blocks[r])
    <3>1. r \notin Holders(b)
      BY <2>3 DEF Holders, Holds
    <3>2. Holders(b)' = Holders(b)
      BY <1>8, <3>1
    <3>3. pool'.ref[b] = pool.ref[b]
      BY <1>2, <1>3, <1>5, <2>3
    <3>4. b \in ToSet(pool'.free) <=> b \in ToSet(pool.free)
      BY <1>2, <1>3, <1>5, <2>3
    <3>. QED BY <2>1, <3>2, <3>3, <3>4
  <2>. QED BY <2>2, <2>3
<1>10. AccountInv'
  <2>1. IsInjective(pool'.free)
    BY <1>2, <1>5
  <2>2. \A q \in Requests : IsInjective(blocks'[q])
    <3>1. IsInjective(<<>>)
      BY DEF IsInjective
    <3>. QED BY <1>6, <3>1 DEF AccountInv
  <2>3. ASSUME NEW b \in Blocks, NEW q1 \in Holders(b)', NEW q2 \in Holders(b)', q1 # q2
        PROVE pool'.hash[b] # NoHash
    <3>1. q1 \in Holders(b) /\ q2 \in Holders(b)
      BY <1>8
    <3>2. pool.hash[b] # NoHash
      BY <2>3, <3>1 DEF AccountInv
    <3>. QED BY <1>2, <1>5, <3>2
  <2>. HIDE DEF Holders
  <2>. QED BY <1>9, <2>1, <2>2, <2>3 DEF AccountInv
<1>11. CacheInv'
  <2>1. ASSUME NEW q \in Requests PROVE cachedBlocks'[q] <= Len(blocks'[q])
    BY <1>6 DEF CacheInv
  <2>2. ASSUME NEW q \in Requests, NEW i \in DOMAIN blocks'[q]
        PROVE  IF i <= cachedBlocks'[q]
                 THEN /\ i * BlockSize <= Len(tokens'[q])
                      /\ pool'.hash[blocks'[q][i]] = SubSeq(tokens'[q], 1, i * BlockSize)
                 ELSE pool'.hash[blocks'[q][i]] = NoHash
    <3>1. q # r
      BY <1>6
    <3>2. blocks'[q] = blocks[q] /\ cachedBlocks'[q] = cachedBlocks[q] /\ tokens'[q] = tokens[q]
      BY <1>6, <3>1
    <3>3. pool'.hash = pool.hash
      BY <1>2, <1>5
    <3>. QED BY <3>2, <3>3 DEF CacheInv, CommittedBlocksAreCached
  <2>. QED BY <2>1, <2>2 DEF CacheInv, CommittedBlocksAreCached
<1>. QED BY <1>2, <1>5, <1>7, <1>10, <1>11

-------------------------------------------------------------------------------
(* Queues. *)

\* All but the last of a queue.
LEMMA FrontFacts ==
  ASSUME NEW T, NEW s \in Seq(T), s # <<>>, IsInjective(s)
  PROVE  /\ Front(s) \in Seq(T) /\ Len(Front(s)) = Len(s) - 1 /\ IsInjective(Front(s))
         /\ \A i \in DOMAIN Front(s) : Front(s)[i] = s[i]
         /\ Last(s) \in T /\ Last(s) \in ToSet(s)
         /\ ToSet(Front(s)) = ToSet(s) \ {Last(s)}
<1>. DEFINE f == Front(s)
            n == Len(s)
<1>1. n \in Nat /\ n > 0 /\ DOMAIN s = 1..n
  BY EmptySeq
<1>2. f = SubSeq(s, 1, n - 1)
  BY DEF Front
<1>. HIDE DEF f
<1>3. f \in Seq(T) /\ Len(f) = n - 1 /\ DOMAIN f = 1..(n - 1) /\ \A i \in 1..(n - 1) : f[i] = s[i]
  BY <1>1, <1>2
<1>4. Last(s) = s[n]
  BY DEF Last
<1>. HIDE DEF n
<1>5. n \in DOMAIN s /\ s[n] \in T /\ s[n] \in ToSet(s)
  BY <1>1 DEF ToSet
<1>6. IsInjective(f)
  BY <1>1, <1>3 DEF IsInjective
<1>7. \A x \in ToSet(f) : x \in ToSet(s) /\ x # s[n]
  <2>. SUFFICES ASSUME NEW i \in 1..(n - 1) PROVE s[i] \in ToSet(s) /\ s[i] # s[n]
    BY <1>3 DEF ToSet
  <2>1. i \in DOMAIN s /\ i # n
    BY <1>1
  <2>. QED BY <1>5, <2>1 DEF ToSet, IsInjective
<1>8. \A x \in ToSet(s) : x # s[n] => x \in ToSet(f)
  <2>. SUFFICES ASSUME NEW i \in 1..n, s[i] # s[n] PROVE s[i] \in ToSet(f)
    BY <1>1 DEF ToSet
  <2>1. i \in 1..(n - 1)
    <3>1. i # n
      OBVIOUS
    <3>. QED BY <1>1, <3>1
  <2>2. f[i] = s[i] /\ i \in DOMAIN f
    BY <1>3, <2>1
  <2>. QED BY <2>2 DEF ToSet
<1>. QED BY <1>3, <1>4, <1>5, <1>6, <1>7, <1>8 DEF f, n

\* All but the first of a queue.
LEMMA TailFacts ==
  ASSUME NEW T, NEW s \in Seq(T), s # <<>>, IsInjective(s)
  PROVE  /\ Tail(s) \in Seq(T) /\ IsInjective(Tail(s))
         /\ Head(s) \in T /\ Head(s) \in ToSet(s)
         /\ ToSet(Tail(s)) = ToSet(s) \ {Head(s)}
<1>. DEFINE t == Tail(s)
            n == Len(s)
<1>1. n \in Nat /\ n > 0 /\ DOMAIN s = 1..n
  BY EmptySeq
<1>2. t \in Seq(T) /\ Len(t) = n - 1 /\ DOMAIN t = 1..(n - 1) /\ \A i \in 1..(n - 1) : t[i] = s[i + 1]
  OBVIOUS
<1>3. Head(s) = s[1]
  OBVIOUS
<1>. HIDE DEF n, t
<1>4. 1 \in DOMAIN s /\ s[1] \in T /\ s[1] \in ToSet(s)
  BY <1>1 DEF ToSet
<1>5. \A i \in 1..(n - 1) : i + 1 \in DOMAIN s /\ i + 1 # 1
  BY <1>1
<1>6. IsInjective(t)
  <2>1. ASSUME NEW i \in 1..(n - 1), NEW j \in 1..(n - 1), t[i] = t[j] PROVE i = j
    <3>1. i + 1 = j + 1
      BY <1>2, <1>5, <2>1 DEF IsInjective
    <3>. QED BY <3>1
  <2>. QED BY <1>2, <2>1 DEF IsInjective
<1>7. \A x \in ToSet(t) : x \in ToSet(s) /\ x # s[1]
  <2>. SUFFICES ASSUME NEW i \in 1..(n - 1) PROVE s[i + 1] \in ToSet(s) /\ s[i + 1] # s[1]
    BY <1>2 DEF ToSet
  <2>. QED BY <1>4, <1>5 DEF ToSet, IsInjective
<1>8. \A x \in ToSet(s) : x # s[1] => x \in ToSet(t)
  <2>. SUFFICES ASSUME NEW i \in 1..n, s[i] # s[1] PROVE s[i] \in ToSet(t)
    BY <1>1 DEF ToSet
  <2>1. i - 1 \in 1..(n - 1) /\ (i - 1) + 1 = i
    <3>1. i # 1
      OBVIOUS
    <3>. QED BY <1>1, <3>1
  <2>2. t[i - 1] = s[i] /\ i - 1 \in DOMAIN t
    BY <1>2, <2>1
  <2>. QED BY <2>2 DEF ToSet
<1>. QED BY <1>2, <1>3, <1>4, <1>6, <1>7, <1>8 DEF t

\* One more at the end of a queue.
LEMMA AppendFacts ==
  ASSUME NEW T, NEW s \in Seq(T), NEW x \in T, x \notin ToSet(s), IsInjective(s)
  PROVE  /\ Append(s, x) \in Seq(T) /\ IsInjective(Append(s, x))
         /\ ToSet(Append(s, x)) = ToSet(s) \cup {x}
         /\ Len(Append(s, x)) = Len(s) + 1
<1>. DEFINE one == <<x>>
<1>1. Append(s, x) = s \o one /\ one \in Seq(T) /\ Len(Append(s, x)) = Len(s) + 1
  OBVIOUS
<1>2. ToSet(one) = {x} /\ IsInjective(one)
  BY DEF ToSet, IsInjective
<1>3. ToSet(s) \cap ToSet(one) = {}
  BY <1>2
<1>. HIDE DEF one
<1>4. /\ s \o one \in Seq(T) /\ IsInjective(s \o one)
      /\ ToSet(s \o one) = ToSet(s) \cup ToSet(one)
  BY <1>1, <1>2, <1>3, ConcatInjective
<1>. QED BY <1>1, <1>2, <1>4

\* One more at the front of a queue.
LEMMA PrependFacts ==
  ASSUME NEW T, NEW s \in Seq(T), NEW x \in T, x \notin ToSet(s), IsInjective(s)
  PROVE  /\ <<x>> \o s \in Seq(T) /\ IsInjective(<<x>> \o s)
         /\ ToSet(<<x>> \o s) = ToSet(s) \cup {x}
<1>. DEFINE one == <<x>>
<1>1. one \in Seq(T)
  OBVIOUS
<1>2. ToSet(one) = {x} /\ IsInjective(one)
  BY DEF ToSet, IsInjective
<1>3. ToSet(one) \cap ToSet(s) = {}
  BY <1>2
<1>. HIDE DEF one
<1>4. /\ one \o s \in Seq(T) /\ IsInjective(one \o s)
      /\ ToSet(one \o s) = ToSet(one) \cup ToSet(s)
  BY <1>1, <1>2, <1>3, ConcatInjective
<1>. QED BY <1>2, <1>4 DEF one

\* A queue without one of its requests.
LEMMA WithoutFacts ==
  ASSUME NEW s \in Seq(Requests), NEW r \in Requests, IsInjective(s)
  PROVE  /\ Only(s, Requests \ {r}) \in Seq(Requests)
         /\ IsInjective(Only(s, Requests \ {r}))
         /\ ToSet(Only(s, Requests \ {r})) = ToSet(s) \ {r}
<1>. DEFINE S == Requests \ {r}
<1>1. Only(s, S) \in Seq(Requests) /\ IsInjective(Only(s, S))
  BY OnlyPlaces, OnlyInjective
<1>2. ToSet(Only(s, S)) = ToSet(s) \cap S
  BY OnlyElements
<1>3. ToSet(s) \subseteq Requests
  BY DEF ToSet
<1>. QED BY <1>1, <1>2, <1>3

-------------------------------------------------------------------------------
(* What an action that leaves the cache or the outputs alone keeps. *)

\* The accounts speak of the cache and of the tokens only.
LEMMA CacheUnchanged ==
  ASSUME AccountInv, CacheInv, UNCHANGED <<tokens, pool, blocks, cachedBlocks>>
  PROVE  AccountInv' /\ CacheInv'
<1>1. AccountInv'
  BY DEF AccountInv, Holders, Holds
<1>2. CacheInv'
  BY DEF CacheInv, CommittedBlocksAreCached
<1>. QED BY <1>1, <1>2

\* OutputInv speaks of the tokens only.
LEMMA OutputUnchanged ==
  ASSUME OutputInv, UNCHANGED tokens
  PROVE  OutputInv'
BY DEF OutputInv, NothingAfterStop

\* No step and no request at first.
LEMMA NoStepFacts ==
  /\ NoStep \in Steps
  /\ \A r \in Requests : NoStep.scheduled[r] = 0 /\ NoStep.drafted[r] = 0
  /\ NoStep.index = 1 /\ NoStep.batch = <<>>
BY Limits DEF NoStep, Steps

\* The invariant holds at first.
LEMMA InitInv == Init => IInv
<1>. SUFFICES ASSUME Init PROVE IInv
  OBVIOUS
<1>. USE DEF Init
<1>1. FullPool \in Pools(Tokens) /\ IsInjective(FullPool.free) /\ ToSet(FullPool.free) = Blocks
      /\ \A b \in Blocks : FullPool.ref[b] = 0 /\ FullPool.hash[b] = NoHash
  <2>1. [b \in Blocks |-> b] \in Seq(Blocks) /\ [b \in Blocks |-> NoHash] \in [Blocks -> Seq(Tokens)]
    BY Limits DEF Blocks, NoHash
  <2>. QED BY <2>1 DEF FullPool, Pools, IsInjective, ToSet
<1>2. ToSet(<<>>) = {} /\ IsInjective(<<>>)
  BY DEF ToSet, IsInjective
<1>3. TypeInv
  <2>1. 1 \in DOMAIN Batches /\ Batches[1] \subseteq Requests
    BY BatchesAssumption
  <2>. QED BY <1>1, <2>1, Limits, NoStepFacts DEF TypeInv
<1>4. QueueInv
  <2>1. \A r \in toCome : tokens[r] = <<>>
    BY BatchesAssumption
  <2>2. \A r \in Requests : tokens[r] = <<>> /\ r \notin ToSet(running) \cup ToSet(waiting)
    BY <1>2
  <2>. QED BY <1>2, <2>1, <2>2 DEF QueueInv
<1>5. NotRunningInv
  BY DEF NotRunningInv
<1>6. StepInv
  BY DEF StepInv
<1>7. PositionInv
  BY <1>2, NoStepFacts DEF PositionInv, InBatch
<1>8. OutputInv
  <2>1. ASSUME NEW r \in Requests, NEW n \in (Len(Prompt[r]) + 1)..Len(tokens[r]) PROVE FALSE
    <3>1. Len(Prompt[r]) \in Nat /\ Len(tokens[r]) = 0
      BY PromptAssumption
    <3>. QED BY <3>1
  <2>. QED BY <2>1 DEF OutputInv, NothingAfterStop
<1>9. CacheInv
  BY DEF CacheInv, CommittedBlocksAreCached
<1>10. AccountInv
  <2>1. \A b \in Blocks : Holders(b) = {}
    BY <1>2 DEF Holders, Holds
  <2>. QED BY <1>1, <1>2, <2>1, FS_EmptySet DEF AccountInv
<1>. QED BY <1>3, <1>4, <1>5, <1>6, <1>7, <1>8, <1>9, <1>10 DEF IInv

-------------------------------------------------------------------------------
(* schedule(): each of its turns keeps the invariant. *)

\* A step that is started has scheduled nothing.
LEMMA StartStepKeeps == ASSUME IInv, StartStep PROVE IInv'
<1>. USE DEF IInv
<1>1. /\ phase = "idle" /\ phase' = "running" /\ specEnabled' \in BOOLEAN
      /\ UNCHANGED <<tokens, computed, spec, waiting, running, finishedIds, pool, blocks,
                     cachedBlocks, step, toCome, rollout>>
  BY DEF StartStep, requestVars, queueVars, cacheVars, rolloutVars, TypeInv
<1>2. step = NoStep /\ Len(running) \in Nat
  BY <1>1 DEF StepInv, TypeInv
<1>3. TypeInv'
  BY <1>1 DEF TypeInv
<1>4. QueueInv'
  BY <1>1 DEF QueueInv
<1>5. NotRunningInv'
  BY <1>1 DEF NotRunningInv
<1>6. StepInv'
  BY <1>1, <1>2, NoStepFacts DEF StepInv
<1>7. PositionInv'
  <2>1. \A r \in Requests : step'.scheduled[r] = 0 /\ step'.drafted[r] = 0
    BY <1>1, <1>2, NoStepFacts
  <2>2. \A r \in Requests : r \in ToSet(running) => Behind(r)
    BY <1>1 DEF PositionInv, InBatch
  <2>. QED BY <1>1, <2>1, <2>2 DEF PositionInv, InBatch, Behind
<1>. QED BY <1>1, <1>3, <1>4, <1>5, <1>6, <1>7, CacheUnchanged, OutputUnchanged

\* When the loop over the running requests ends, what is scheduled is running.
LEMMA RunningScheduledKeeps == ASSUME IInv, RunningScheduled PROVE IInv'
<1>. USE DEF IInv
<1>1. /\ phase = "running" /\ phase' \in {"waiting", "forward"}
      /\ UNCHANGED <<tokens, computed, spec, waiting, running, finishedIds, specEnabled, pool,
                     blocks, cachedBlocks, step, toCome, rollout>>
  BY DEF RunningScheduled, requestVars, queueVars, cacheVars, rolloutVars
<1>2. TypeInv'
  BY <1>1 DEF TypeInv
<1>3. QueueInv'
  BY <1>1 DEF QueueInv
<1>4. NotRunningInv'
  BY <1>1 DEF NotRunningInv
<1>5. StepInv'
  <2>1. \A r \in Requests : step.scheduled[r] > 0 => r \in ToSet(running)
    BY <1>1 DEF StepInv, ToSet
  <2>. QED BY <1>1, <2>1 DEF StepInv
<1>6. PositionInv'
  BY <1>1 DEF PositionInv, InBatch, Behind, Computes
<1>. QED BY <1>1, <1>2, <1>3, <1>4, <1>5, <1>6, CacheUnchanged, OutputUnchanged

\* The loop over the waiting requests ends.
LEMMA WaitingScheduledKeeps == ASSUME IInv, WaitingScheduled PROVE IInv'
<1>. USE DEF IInv
<1>1. /\ phase = "waiting" /\ phase' = "forward"
      /\ UNCHANGED <<tokens, computed, spec, waiting, running, finishedIds, specEnabled, pool,
                     blocks, cachedBlocks, step, toCome, rollout>>
  BY DEF WaitingScheduled, requestVars, queueVars, cacheVars, rolloutVars
<1>2. TypeInv'
  BY <1>1 DEF TypeInv
<1>3. QueueInv'
  BY <1>1 DEF QueueInv
<1>4. NotRunningInv'
  BY <1>1 DEF NotRunningInv
<1>5. StepInv'
  BY <1>1 DEF StepInv
<1>6. PositionInv'
  BY <1>1 DEF PositionInv, InBatch, Behind, Computes
<1>. QED BY <1>1, <1>2, <1>3, <1>4, <1>5, <1>6, CacheUnchanged, OutputUnchanged

\* What a running request is given to compute lies behind its tokens and drafts, within
\* the budget, and before its last position.
LEMMA NumNewTokensFacts ==
  ASSUME IInv, NEW r \in Requests, AtRunning(r), NumNewTokens(r) > 0
  PROVE  /\ NumNewTokens(r) \in Nat
         /\ NumNewTokens(r) <= Len(tokens[r]) + spec[r] - computed[r]
         /\ NumNewTokens(r) <= step.budget
         /\ computed[r] + NumNewTokens(r) < MaxTotalTokens(r)
<1>. USE DEF IInv
<1>1. r \in ToSet(running)
  BY DEF AtRunning, TypeInv, Steps, ToSet
<1>2. tokens[r] # <<>> /\ Len(tokens[r]) \in Nat
  BY <1>1 DEF QueueInv, TypeInv
<1>3. MaxTotalTokens(r) \in Nat
  BY <1>2, NotStopped
<1>4. computed[r] \in Nat /\ spec[r] \in Nat /\ step.budget \in Nat
  BY Limits DEF TypeInv, Steps
<1>. DEFINE a == Len(tokens[r]) + spec[r] - computed[r]
            b == step.budget
            c == MaxTotalTokens(r) - 1 - computed[r]
            n == NumNewTokens(r)
<1>5. a \in Int /\ b \in Int /\ c \in Int
  BY <1>2, <1>3, <1>4
<1>6. n = Min({a, b, c})
  BY DEF NumNewTokens
<1>7. n <= a /\ n <= b /\ n <= c /\ n \in Int
  <2>. HIDE DEF a, b, c, n
  <2>. QED BY <1>5, <1>6, MinOfThree
<1>. HIDE DEF n
<1>. QED BY <1>2, <1>3, <1>4, <1>7 DEF n

\* An allocation for a running request that finds nothing in the prefix cache.
LEMMA MayAllocateRunning ==
  ASSUME TypeInv, NEW r \in Requests, tokens[r] # <<>>, NEW n \in Nat, NEW lookahead \in Nat,
         HasRoom(r, <<>>, n, lookahead)
  PROVE  MayAllocate(r, <<>>, n, lookahead)
<1>1. <<>> \in Seq(Blocks) /\ IsInjective(<<>>) /\ DOMAIN <<>> = {}
  BY DEF IsInjective
<1>. QED BY <1>1 DEF MayAllocate

\* The drafts a step verifies directly follow the tokens.
LEMMA ScheduledDrafts ==
  ASSUME NEW s \in Nat, NEW x \in Int, x <= s
  PROVE  Min({s, Max({0, x})}) = IF x <= 0 THEN 0 ELSE x
<1>1. Max({0, x}) = IF 0 >= x THEN 0 ELSE x
  BY MaxOfTwo
<1>. DEFINE m == Max({0, x})
<1>. HIDE DEF m
<1>2. m = (IF 0 >= x THEN 0 ELSE x) /\ m \in Int /\ s \in Int
  BY <1>1 DEF m
<1>3. Min({s, m}) = IF s <= m THEN s ELSE m
  BY <1>2, MinOfTwo
<1>4. Min({s, m}) = IF x <= 0 THEN 0 ELSE x
  BY <1>2, <1>3
<1>. QED BY <1>4 DEF m

\* A running request that has room is scheduled within it.
LEMMA ScheduleRunningKeeps ==
  ASSUME IInv, NEW r \in Requests, ScheduleRunning(r) PROVE IInv'
<1>. USE DEF IInv
<1>. DEFINE n == NumNewTokens(r)
            L == NumLookaheadTokens
            d == Min({spec[r], Max({0, n + computed[r] - Len(tokens[r])})})
            end == computed[r] + n
            len == Len(tokens[r])
<1>1. /\ AtRunning(r) /\ n > 0 /\ HasRoom(r, <<>>, n, L) /\ AllocateSlots(r, <<>>, n, L)
      /\ step' = [step EXCEPT !.index = @ + 1, !.budget = @ - n, !.scheduled[r] = n,
                              !.drafted[r] = d]
      /\ spec' = [spec EXCEPT ![r] = 0]
      /\ phase = "running"
      /\ UNCHANGED <<tokens, computed, waiting, running, finishedIds, specEnabled, phase,
                     toCome, rollout>>
  BY DEF ScheduleRunning, queueVars, rolloutVars, AtRunning
<1>2. /\ n \in Nat /\ n <= len + spec[r] - computed[r] /\ n <= step.budget
      /\ end < MaxTotalTokens(r)
  BY <1>1, NumNewTokensFacts
<1>3. L \in Nat
  BY Limits DEF NumLookaheadTokens
<1>4. r = running[step.index] /\ step.index \in DOMAIN running /\ r \in ToSet(running)
  <2>1. running \in Seq(Requests) /\ step.index \in Nat /\ step.index > 0
    BY DEF TypeInv, Steps
  <2>2. step.index <= Len(running) /\ r = running[step.index]
    BY <1>1 DEF AtRunning
  <2>3. step.index \in DOMAIN running
    BY <2>1, <2>2
  <2>. QED BY <2>2, <2>3 DEF ToSet
<1>5. tokens[r] # <<>> /\ len \in Nat /\ computed[r] \in Nat /\ spec[r] \in 0..Gamma /\ spec[r] \in Nat
  <2>1. tokens[r] \in Seq(Tokens) /\ computed[r] \in Nat /\ spec[r] \in 0..Gamma
    BY DEF TypeInv
  <2>2. tokens[r] # <<>>
    BY <1>4 DEF QueueInv
  <2>. QED BY <2>1, <2>2, Limits
<1>6. MaxTotalTokens(r) \in Nat /\ MaxTotalTokens(r) <= MaxModelLen
  BY <1>5, NotStopped
<1>. HIDE DEF n, L
<1>7. MayAllocate(r, <<>>, n, L)
  BY <1>1, <1>2, <1>3, <1>5, MayAllocateRunning
<1>. DEFINE mine == AllocationOf(r, <<>>, n, L)
<1>8. /\ pool' \in Pools(Tokens)
      /\ blocks' \in [Requests -> Seq(Blocks)]
      /\ cachedBlocks' \in [Requests -> Nat]
      /\ blocks' = [blocks EXCEPT ![r] = mine]
      /\ \A q \in Requests \ {r} : cachedBlocks'[q] = cachedBlocks[q]
      /\ AccountInv' /\ CacheInv'
  BY <1>1, <1>7, AllocationAccounted
<1>9. /\ blocks'[r] = mine /\ Len(mine) \in Nat
      /\ \A q \in Requests \ {r} : blocks'[q] = blocks[q]
  BY <1>8 DEF TypeInv
<1>10. end <= Len(mine) * BlockSize /\ computed[r] <= Len(mine) * BlockSize
  <2>. DEFINE need == NeedSlot(r, <<>>, n, L)
  <2>1. need <= Len(mine) * BlockSize
        /\ need = Min({computed[r] + Len(<<>>) * BlockSize + n + L, MaxModelLen})
    BY <1>7, AllocationHasRoom
  <2>2. computed[r] + Len(<<>>) * BlockSize + n + L = end + L
    <3>1. Len(<<>>) * BlockSize = 0
      BY Limits
    <3>. QED BY <1>2, <1>3, <1>5, <3>1
  <2>3. end + L \in Int /\ MaxModelLen \in Int /\ end \in Nat
    BY <1>2, <1>3, <1>5, Limits
  <2>. DEFINE room == Len(mine) * BlockSize
  <2>4. room \in Nat
    BY <1>9, RoomGrows
  <2>. HIDE DEF need, room, mine
  <2>5. need = IF end + L <= MaxModelLen THEN end + L ELSE MaxModelLen
    BY <2>1, <2>2, <2>3, MinOfTwo
  <2>6. need <= room
    BY <2>1 DEF room
  <2>7. computed[r] <= end
    BY <1>2, <1>5
  <2>. HIDE DEF end
  <2>8. end <= room
    BY <1>2, <1>3, <1>6, <2>3, <2>4, <2>5, <2>6
  <2>9. computed[r] <= room
    BY <1>5, <2>3, <2>4, <2>7, <2>8
  <2>. QED BY <2>8, <2>9 DEF room
<1>. HIDE DEF mine
<1>11. /\ d = (IF end - len <= 0 THEN 0 ELSE end - len)
       /\ d \in 0..Gamma
  <2>. DEFINE x == n + computed[r] - len
  <2>1. x \in Int /\ x <= spec[r] /\ x = end - len
    BY <1>2, <1>5
  <2>2. d = Min({spec[r], Max({0, x})})
    OBVIOUS
  <2>. HIDE DEF x, d, end, len
  <2>3. d = IF x <= 0 THEN 0 ELSE x
    BY <1>5, <2>1, <2>2, ScheduledDrafts
  <2>4. Gamma \in Nat /\ spec[r] <= Gamma
    BY <1>5, Limits
  <2>5. d \in 0..Gamma
    BY <1>5, <2>1, <2>3, <2>4
  <2>. QED BY <2>1, <2>3, <2>5
<1>. HIDE DEF d
<1>12. /\ step' \in Steps
       /\ step'.index = step.index + 1
       /\ step'.scheduled = [step.scheduled EXCEPT ![r] = n]
       /\ step'.drafted = [step.drafted EXCEPT ![r] = d]
  <2>1. /\ step.index \in Nat \ {0} /\ step.budget \in Nat /\ step.preempted \in BOOLEAN
        /\ step.scheduled \in [Requests -> Nat] /\ step.drafted \in [Requests -> 0..Gamma]
        /\ step.batch \in Seq(Requests) /\ step.fits \in BOOLEAN
    BY DEF TypeInv, Steps
  <2>2. step.index + 1 \in Nat \ {0} /\ step.budget - n \in Nat
    BY <1>2, <2>1
  <2>. DEFINE s == [step.scheduled EXCEPT ![r] = n]
              f == [step.drafted EXCEPT ![r] = d]
  <2>3. s \in [Requests -> Nat] /\ f \in [Requests -> 0..Gamma]
    BY <1>2, <1>11, <2>1
  <2>4. step' = [step EXCEPT !.index = step.index + 1, !.budget = step.budget - n,
                             !.scheduled = s, !.drafted = f]
    BY <1>1 DEF TypeInv, Steps
  <2>. HIDE DEF s, f
  <2>5. step' = [index |-> step.index + 1, budget |-> step.budget - n,
                 preempted |-> step.preempted, scheduled |-> s, drafted |-> f,
                 batch |-> step.batch, fits |-> step.fits]
    BY <2>4 DEF TypeInv, Steps
  <2>. QED BY <2>1, <2>2, <2>3, <2>5 DEF Steps, s, f
<1>13. /\ step'.scheduled[r] = n /\ step'.drafted[r] = d
       /\ \A q \in Requests \ {r} : /\ step'.scheduled[q] = step.scheduled[q]
                                    /\ step'.drafted[q] = step.drafted[q]
  BY <1>12 DEF TypeInv, Steps
<1>14. TypeInv'
  <2>1. spec' \in [Requests -> 0..Gamma]
    BY <1>1, Limits DEF TypeInv
  <2>. QED BY <1>1, <1>8, <1>12, <2>1 DEF TypeInv
<1>15. QueueInv'
  BY <1>1 DEF QueueInv
<1>16. NotRunningInv'
  <2>1. ASSUME NEW q \in Requests, q \notin ToSet(running)
        PROVE blocks'[q] = <<>> /\ cachedBlocks'[q] = 0
    BY <1>4, <1>8, <1>9, <2>1 DEF NotRunningInv
  <2>. QED BY <1>1, <2>1 DEF NotRunningInv
<1>17. StepInv'
  <2>1. Len(running) \in Nat /\ step.index \in Nat /\ step.index <= Len(running)
    <3>1. running \in Seq(Requests)
      BY DEF TypeInv
    <3>2. DOMAIN running = 1..Len(running) /\ Len(running) \in Nat
      BY <3>1, LenProperties
    <3>. QED BY ONLY <1>4, <3>2
  <2>2. ASSUME NEW q \in Requests, step'.scheduled[q] > 0
        PROVE \E i \in DOMAIN running : i < step'.index /\ running[i] = q
    <3>1. CASE q = r
      <4>1. step.index < step'.index
        BY <1>12, <2>1
      <4>. QED BY <1>4, <3>1, <4>1
    <3>2. CASE q # r
      <4>1. step.scheduled[q] > 0
        BY <1>13, <2>2, <3>2
      <4>2. PICK i \in DOMAIN running : i < step.index /\ running[i] = q
        BY <1>1, <4>1 DEF StepInv
      <4>3. i < step'.index
        <5>1. i \in Nat
          <6>1. running \in Seq(Requests)
            BY DEF TypeInv
          <6>. QED BY <4>2, <6>1
        <5>. QED BY <1>12, <2>1, <4>2, <5>1
      <4>. QED BY <4>2, <4>3
    <3>. QED BY <3>1, <3>2
  <2>3. step'.index <= Len(running) + 1
    BY <1>12, <2>1
  <2>. QED BY <1>1, <2>2, <2>3 DEF StepInv
<1>18. PositionInv'
  <2>1. ASSUME NEW q \in Requests
        PROVE  /\ step'.scheduled[q] = 0 => step'.drafted[q] = 0
               /\ step'.scheduled[q] > 0 => Computes(q, computed[q] + step.scheduled[q])'
               /\ q \in ToSet(running) => Behind(q)'
    <3>1. CASE q = r
      <4>1. Computes(q, computed[q] + step.scheduled[q])'
        <5>1. /\ end < MaxTotalTokens(r) /\ end <= Len(blocks'[r]) * BlockSize
              /\ d = 0 => end <= len
              /\ d > 0 => end = len + d
          <6>1. end \in Nat
            BY <1>2, <1>5
          <6>. HIDE DEF end, len
          <6>2. (d = 0 => end <= len) /\ (d > 0 => end = len + d)
            BY <1>5, <1>11, <6>1
          <6>. QED BY <1>2, <1>9, <1>10, <6>2
        <5>2. MaxTotalTokens(r)' = MaxTotalTokens(r)
          BY DEF MaxTotalTokens
        <5>. QED BY <1>1, <1>13, <3>1, <5>1, <5>2 DEF Computes
      <4>2. Behind(q)'
        <5>1. computed[r] < len
          BY <1>1, <1>4 DEF PositionInv, InBatch, Behind
        <5>. QED BY <1>1, <1>9, <1>10, <3>1, <5>1 DEF Behind
      <4>3. step'.scheduled[q] # 0
        BY <1>1, <1>2, <1>13, <3>1
      <4>. QED BY <4>1, <4>2, <4>3
    <3>2. CASE q # r
      <4>1. /\ step'.scheduled[q] = step.scheduled[q] /\ step'.drafted[q] = step.drafted[q]
            /\ blocks'[q] = blocks[q]
        BY <1>9, <1>13, <3>2
      <4>2. /\ step.scheduled[q] = 0 => step.drafted[q] = 0
            /\ step.scheduled[q] > 0 => Computes(q, computed[q] + step.scheduled[q])
            /\ q \in ToSet(running) => Behind(q)
        BY <1>1 DEF PositionInv, InBatch
      <4>. QED BY <1>1, <4>1, <4>2 DEF Computes, Behind, MaxTotalTokens
    <3>. QED BY <3>1, <3>2
  <2>. QED BY <1>1, <2>1 DEF PositionInv, InBatch
<1>. QED BY <1>1, <1>8, <1>14, <1>15, <1>16, <1>17, <1>18, OutputUnchanged

\* What the prefix cache has of a request: blocks for prefixes of its tokens, each
\* another one, and never its last token.
LEMMA HitFacts ==
  ASSUME pool \in Pools(Tokens), NEW ts \in Seq(Tokens), ts # <<>>,
         NEW found \in FindLongestCacheHit(pool, ts)
  PROVE  /\ found \in Seq(Blocks) /\ IsInjective(found)
         /\ Len(found) * BlockSize < Len(ts)
         /\ \A i \in DOMAIN found :
              /\ i * BlockSize <= Len(ts)
              /\ pool.hash[found[i]] = SubSeq(ts, 1, i * BlockSize)
<1>. DEFINE most == (Len(ts) - 1) \div BlockSize
            S == {n \in 0..most : \A i \in 1..n : Found(pool, ts, i) # {}}
            length == Max(S)
<1>1. Len(ts) \in Nat /\ Len(ts) > 0 /\ Len(ts) - 1 \in Nat
  BY EmptySeq
<1>2. most \in Nat /\ most * BlockSize <= Len(ts) - 1
  <2>. DEFINE k == Len(ts) - 1
  <2>1. k \in Nat
    BY <1>1
  <2>. HIDE DEF k
  <2>2. k \div BlockSize \in Nat /\ (k \div BlockSize) * BlockSize <= k
    BY <2>1, FullBlocks
  <2>. QED BY <2>2 DEF k
<1>3. length \in 0..most
  <2>1. 0 \in S /\ S \in SUBSET (0..most)
    <3>. HIDE DEF most
    <3>. QED BY <1>2
  <2>. HIDE DEF S, most
  <2>. QED BY <1>2, <2>1, MaxOfNaturals
<1>4. found \in {hit \in [1..length -> Blocks] : \A i \in 1..length : hit[i] \in Found(pool, ts, i)}
  BY DEF FindLongestCacheHit
<1>. HIDE DEF length, most, S
<1>5. /\ found \in Seq(Blocks) /\ Len(found) = length /\ DOMAIN found = 1..length /\ length \in Nat
      /\ \A i \in 1..length : found[i] \in Found(pool, ts, i)
  BY <1>2, <1>3, <1>4
<1>6. length * BlockSize \in Nat /\ length * BlockSize <= most * BlockSize /\ most * BlockSize \in Nat
  BY <1>2, <1>3, RoomGrows
<1>7. Len(found) * BlockSize < Len(ts)
  BY <1>1, <1>2, <1>5, <1>6
<1>8. ASSUME NEW i \in 1..length
      PROVE  /\ i \in Nat /\ i * BlockSize \in Nat /\ i * BlockSize <= Len(ts)
             /\ pool.hash[found[i]] = SubSeq(ts, 1, i * BlockSize)
             /\ Len(pool.hash[found[i]]) = i * BlockSize
  <2>1. i \in Nat /\ i <= length
    BY <1>5
  <2>2. i * BlockSize \in Nat /\ i * BlockSize <= length * BlockSize
    BY <1>5, <2>1, RoomGrows
  <2>3. pool.hash[found[i]] = SubSeq(ts, 1, i * BlockSize)
    BY <1>5 DEF Found
  <2>. DEFINE k == i * BlockSize
  <2>4. k \in Nat /\ k <= Len(ts)
    BY <1>1, <1>2, <1>6, <2>2
  <2>. HIDE DEF k
  <2>5. Len(SubSeq(ts, 1, k)) = k
    BY <2>4
  <2>. QED BY <2>1, <2>3, <2>4, <2>5 DEF k
<1>9. IsInjective(found)
  <2>1. ASSUME NEW i \in 1..length, NEW j \in 1..length, found[i] = found[j] PROVE i = j
    <3>1. i \in Nat /\ j \in Nat /\ i * BlockSize = j * BlockSize
      BY <1>8, <2>1
    <3>2. i * BlockSize <= j * BlockSize /\ j * BlockSize <= i * BlockSize
      BY <1>8, <3>1
    <3>3. i <= j /\ j <= i
      BY <3>1, <3>2, RoomGrows
    <3>. QED BY <3>1, <3>3
  <2>. QED BY <1>5, <2>1 DEF IsInjective
<1>. QED BY <1>5, <1>7, <1>8, <1>9

\* The last running request makes room: it was not scheduled yet.
LEMMA PreemptLastKeeps ==
  ASSUME IInv, NEW r \in Requests, PreemptLast(r) PROVE IInv'
<1>. USE DEF IInv
<1>. DEFINE p == Last(running)
<1>1. /\ AtRunning(r) /\ phase = "running"
      /\ running' = Front(running) /\ Free(p)
      /\ computed' = [computed EXCEPT ![p] = 0]
      /\ waiting' = <<p>> \o waiting
      /\ step' = [step EXCEPT !.preempted = TRUE]
      /\ phase' \in {"running", "forward"}
      /\ UNCHANGED <<tokens, spec, finishedIds, specEnabled, toCome, rollout>>
  BY DEF PreemptLast, rolloutVars, AtRunning
<1>2. /\ running \in Seq(Requests) /\ waiting \in Seq(Requests)
      /\ IsInjective(running) /\ IsInjective(waiting)
      /\ ToSet(running) \cap ToSet(waiting) = {}
      /\ computed \in [Requests -> Nat]
  BY DEF TypeInv, QueueInv
<1>3. /\ step.index \in Nat /\ step.index > 0 /\ step.index <= Len(running)
      /\ step.scheduled \in [Requests -> Nat] /\ step.drafted \in [Requests -> 0..Gamma]
  <2>1. /\ step.index \in Nat /\ step.index > 0
        /\ step.scheduled \in [Requests -> Nat] /\ step.drafted \in [Requests -> 0..Gamma]
    BY DEF TypeInv, Steps
  <2>2. step.index <= Len(running)
    BY <1>1 DEF AtRunning
  <2>. QED BY <2>1, <2>2
<1>4. running # <<>> /\ Len(running) \in Nat
  BY <1>2, <1>3
<1>5. /\ Front(running) \in Seq(Requests) /\ Len(Front(running)) = Len(running) - 1
      /\ IsInjective(Front(running))
      /\ \A i \in DOMAIN Front(running) : Front(running)[i] = running[i]
      /\ p \in Requests /\ p \in ToSet(running)
      /\ ToSet(Front(running)) = ToSet(running) \ {p}
  BY <1>2, <1>4, FrontFacts
<1>6. /\ <<p>> \o waiting \in Seq(Requests) /\ IsInjective(<<p>> \o waiting)
      /\ ToSet(<<p>> \o waiting) = ToSet(waiting) \cup {p}
  <2>1. p \in Requests /\ p \notin ToSet(waiting)
    BY <1>2, <1>5
  <2>. HIDE DEF p
  <2>. QED BY <1>2, <2>1, PrependFacts
<1>7. running[Len(running)] = p
  BY DEF Last
<1>. HIDE DEF p
<1>8. \A i \in DOMAIN running : i < step.index => i \in DOMAIN Front(running) /\ running[i] # p
  <2>. SUFFICES ASSUME NEW i \in DOMAIN running, i < step.index
                PROVE i \in DOMAIN Front(running) /\ running[i] # p
    OBVIOUS
  <2>1. i \in Nat /\ i > 0 /\ i <= Len(running) - 1
    <3>1. i \in 1..Len(running)
      BY <1>2
    <3>. QED BY <1>3, <1>4, <3>1
  <2>2. Len(running) \in DOMAIN running /\ i # Len(running)
    BY <1>2, <1>4, <2>1
  <2>3. running[i] # p
    BY <1>2, <1>7, <2>2 DEF IsInjective
  <2>. QED BY <1>5, <2>1, <2>3
<1>9. \A q \in Requests : step.scheduled[q] > 0 =>
        \E i \in DOMAIN running : i < step.index /\ running[i] = q
  BY <1>1 DEF StepInv
<1>10. step.scheduled[p] = 0
  <2>1. ~(step.scheduled[p] > 0)
    BY <1>5, <1>8, <1>9
  <2>. QED BY <1>3, <1>5, <2>1
<1>11. /\ pool' \in Pools(Tokens)
       /\ blocks' \in [Requests -> Seq(Blocks)]
       /\ cachedBlocks' \in [Requests -> Nat]
       /\ blocks' = [blocks EXCEPT ![p] = <<>>]
       /\ cachedBlocks' = [cachedBlocks EXCEPT ![p] = 0]
       /\ AccountInv' /\ CacheInv'
  BY <1>1, <1>5, ReleaseAccounted
<1>12. /\ blocks'[p] = <<>> /\ cachedBlocks'[p] = 0 /\ computed'[p] = 0
       /\ \A q \in Requests \ {p} : /\ blocks'[q] = blocks[q] /\ cachedBlocks'[q] = cachedBlocks[q]
                                    /\ computed'[q] = computed[q]
  BY <1>1, <1>5, <1>11 DEF TypeInv
<1>13. /\ step' \in Steps /\ step'.index = step.index
       /\ step'.scheduled = step.scheduled /\ step'.drafted = step.drafted
  BY <1>1 DEF TypeInv, Steps
<1>14. TypeInv'
  <2>1. computed' \in [Requests -> Nat]
    BY <1>1, <1>2
  <2>2. phase' \in {"idle", "running", "waiting", "forward", "update"}
    BY <1>1
  <2>. QED BY <1>1, <1>5, <1>6, <1>11, <1>13, <2>1, <2>2 DEF TypeInv
<1>15. QueueInv'
  <2>1. ToSet(running') \cap ToSet(waiting') = {}
    BY <1>1, <1>2, <1>5, <1>6
  <2>2. ToSet(running') \cup ToSet(waiting') = ToSet(running) \cup ToSet(waiting)
    BY <1>1, <1>5, <1>6
  <2>. QED BY <1>1, <1>5, <1>6, <2>1, <2>2 DEF QueueInv
<1>16. NotRunningInv'
  <2>1. ASSUME NEW q \in Requests, q \notin ToSet(running')
        PROVE blocks'[q] = <<>> /\ cachedBlocks'[q] = 0 /\ ~(computed'[q] > 0)
    <3>1. CASE q = p
      BY <1>12, <3>1
    <3>2. CASE q # p
      <4>1. q \notin ToSet(running)
        BY <1>1, <1>5, <2>1, <3>2
      <4>. QED BY <1>1, <1>12, <3>2, <4>1 DEF NotRunningInv
    <3>. QED BY <3>1, <3>2
  <2>. QED BY <2>1 DEF NotRunningInv
<1>17. StepInv'
  <2>1. step'.index <= Len(running') + 1
    BY <1>1, <1>3, <1>4, <1>5, <1>13
  <2>2. ASSUME NEW q \in Requests, step'.scheduled[q] > 0
        PROVE  /\ \E i \in DOMAIN running' : i < step'.index /\ running'[i] = q
               /\ q \in ToSet(running')
    <3>1. PICK i \in DOMAIN running : i < step.index /\ running[i] = q
      BY <1>9, <1>13, <2>2
    <3>2. i \in DOMAIN running' /\ running'[i] = q
      BY <1>1, <1>5, <1>8, <3>1
    <3>. QED BY <1>13, <3>1, <3>2 DEF ToSet
  <2>. QED BY <1>1, <2>1, <2>2 DEF StepInv
<1>18. PositionInv'
  <2>1. ASSUME NEW q \in Requests
        PROVE  /\ step'.scheduled[q] = 0 => step'.drafted[q] = 0
               /\ step'.scheduled[q] > 0 => Computes(q, computed[q] + step.scheduled[q])'
               /\ q \in ToSet(running') => Behind(q)'
    <3>1. /\ step.scheduled[q] = 0 => step.drafted[q] = 0
          /\ step.scheduled[q] > 0 => Computes(q, computed[q] + step.scheduled[q])
          /\ q \in ToSet(running) => Behind(q)
      BY <1>1 DEF PositionInv, InBatch
    <3>2. CASE q = p
      BY <1>1, <1>5, <1>10, <1>13, <3>1, <3>2
    <3>3. CASE q # p
      <4>1. q \in ToSet(running') => q \in ToSet(running)
        BY <1>1, <1>5
      <4>2. blocks'[q] = blocks[q] /\ computed'[q] = computed[q]
        BY <1>12, <3>3
      <4>. QED BY <1>1, <1>13, <3>1, <4>1, <4>2 DEF Computes, Behind, MaxTotalTokens
    <3>. QED BY <3>2, <3>3
  <2>. QED BY <1>1, <2>1 DEF PositionInv, InBatch
<1>. QED BY <1>1, <1>11, <1>14, <1>15, <1>16, <1>17, <1>18, OutputUnchanged

\* The first waiting request has no blocks; it starts after those found for it.
LEMMA AdmitWaitingKeeps ==
  ASSUME IInv, waiting # <<>>, NEW found \in FindLongestCacheHit(pool, tokens[Head(waiting)]),
         AdmitWaiting(Head(waiting), found)
  PROVE  IInv'
<1>. USE DEF IInv
<1>. DEFINE r == Head(waiting)
            len == Len(tokens[r])
            base == Len(found) * BlockSize
            n == Min({len - base, step.budget})
<1>1. /\ phase = "waiting" /\ step.budget > 0 /\ HasRoom(r, found, n, 0)
      /\ AllocateSlots(r, found, n, 0)
      /\ waiting' = Tail(waiting) /\ running' = Append(running, r)
      /\ computed' = [computed EXCEPT ![r] = base]
      /\ step' = [step EXCEPT !.budget = @ - n, !.scheduled[r] = n]
      /\ UNCHANGED <<tokens, spec, finishedIds, specEnabled, phase, toCome, rollout>>
  BY DEF AdmitWaiting, Admissible, rolloutVars
<1>2. /\ running \in Seq(Requests) /\ waiting \in Seq(Requests)
      /\ IsInjective(running) /\ IsInjective(waiting)
      /\ ToSet(running) \cap ToSet(waiting) = {}
      /\ computed \in [Requests -> Nat] /\ tokens \in [Requests -> Seq(Tokens)]
  BY DEF TypeInv, QueueInv
<1>3. /\ step.index \in Nat \ {0} /\ step.budget \in Nat /\ step.preempted \in BOOLEAN
      /\ step.scheduled \in [Requests -> Nat] /\ step.drafted \in [Requests -> 0..Gamma]
      /\ step.batch \in Seq(Requests) /\ step.fits \in BOOLEAN
  BY DEF TypeInv, Steps
<1>4. /\ Tail(waiting) \in Seq(Requests) /\ IsInjective(Tail(waiting))
      /\ r \in Requests /\ r \in ToSet(waiting) /\ r \notin ToSet(running)
      /\ ToSet(Tail(waiting)) = ToSet(waiting) \ {r}
  BY <1>2, TailFacts
<1>. HIDE DEF r
<1>5. /\ Append(running, r) \in Seq(Requests) /\ IsInjective(Append(running, r))
      /\ ToSet(Append(running, r)) = ToSet(running) \cup {r}
  BY <1>2, <1>4, AppendFacts
<1>6. tokens[r] # <<>> /\ tokens[r] \in Seq(Tokens)
  BY <1>2, <1>4 DEF QueueInv
<1>7. blocks[r] = <<>> /\ cachedBlocks[r] = 0 /\ computed[r] = 0
  <2>1. blocks[r] = <<>> /\ cachedBlocks[r] = 0 /\ ~(computed[r] > 0)
    BY <1>1, <1>4 DEF NotRunningInv
  <2>2. computed[r] \in Nat
    BY <1>2, <1>4
  <2>. QED BY <2>1, <2>2
<1>8. step.scheduled[r] = 0 /\ step.drafted[r] = 0
  <2>1. ~(step.scheduled[r] > 0) /\ step.scheduled[r] \in Nat
    BY <1>1, <1>3, <1>4 DEF StepInv
  <2>. QED BY <1>4, <2>1 DEF PositionInv
<1>9. /\ found \in Seq(Blocks) /\ IsInjective(found) /\ base < len
      /\ \A i \in DOMAIN found :
           /\ i * BlockSize <= len
           /\ pool.hash[found[i]] = SubSeq(tokens[r], 1, i * BlockSize)
  <2>1. found \in FindLongestCacheHit(pool, tokens[r]) /\ pool \in Pools(Tokens)
    BY DEF r, TypeInv
  <2>. QED BY <1>6, <2>1, HitFacts
<1>10. /\ len \in Nat /\ base \in Nat /\ len < MaxTotalTokens(r)
       /\ MaxTotalTokens(r) \in Nat /\ MaxTotalTokens(r) <= MaxModelLen
  <2>1. Len(found) \in Nat
    BY <1>9
  <2>2. base \in Nat
    BY <2>1, RoomGrows
  <2>. QED BY <1>4, <1>6, <2>2, NotStopped
<1>11. n \in Nat /\ n > 0 /\ n <= len - base /\ n <= step.budget
  <2>. DEFINE a == len - base
              b == step.budget
  <2>1. a \in Int /\ b \in Int /\ a > 0 /\ b > 0
    BY <1>1, <1>3, <1>9, <1>10
  <2>2. n = Min({a, b})
    OBVIOUS
  <2>. HIDE DEF a, b, n
  <2>3. n = IF a <= b THEN a ELSE b
    BY <2>1, <2>2, MinOfTwo
  <2>4. n \in Nat /\ n > 0 /\ n <= a /\ n <= b
    BY <2>1, <2>3
  <2>. QED BY <2>4 DEF a, b
<1>. HIDE DEF n
<1>12. MayAllocate(r, found, n, 0)
  BY <1>1, <1>4, <1>6, <1>7, <1>9, <1>11 DEF MayAllocate
<1>. DEFINE mine == AllocationOf(r, found, n, 0)
            end == base + n
<1>13. /\ pool' \in Pools(Tokens)
       /\ blocks' \in [Requests -> Seq(Blocks)]
       /\ cachedBlocks' \in [Requests -> Nat]
       /\ blocks' = [blocks EXCEPT ![r] = mine]
       /\ \A q \in Requests \ {r} : cachedBlocks'[q] = cachedBlocks[q]
       /\ AccountInv' /\ CacheInv'
  BY <1>1, <1>12, AllocationAccounted
<1>14. /\ blocks'[r] = mine /\ Len(mine) \in Nat /\ computed'[r] = base
       /\ \A q \in Requests \ {r} : blocks'[q] = blocks[q] /\ computed'[q] = computed[q]
  BY <1>1, <1>2, <1>4, <1>13 DEF TypeInv
<1>15. end <= Len(mine) * BlockSize /\ base <= Len(mine) * BlockSize
  <2>. DEFINE need == NeedSlot(r, found, n, 0)
              room == Len(mine) * BlockSize
  <2>1. need <= room /\ need = Min({computed[r] + base + n + 0, MaxModelLen})
    BY <1>12, AllocationHasRoom
  <2>2. computed[r] + base + n + 0 = end
    BY <1>7, <1>10, <1>11
  <2>3. end \in Int /\ MaxModelLen \in Int /\ end <= MaxModelLen /\ base <= end
    BY <1>10, <1>11, Limits
  <2>4. room \in Nat
    BY <1>14, RoomGrows
  <2>. HIDE DEF need, room, mine, end, base
  <2>5. need = IF end <= MaxModelLen THEN end ELSE MaxModelLen
    BY <2>1, <2>2, <2>3, MinOfTwo
  <2>6. end <= room /\ base <= room
    BY <1>10, <2>1, <2>3, <2>4, <2>5
  <2>. QED BY <2>6 DEF room
<1>. HIDE DEF mine
<1>16. /\ step' \in Steps /\ step'.drafted = step.drafted
       /\ step'.scheduled = [step.scheduled EXCEPT ![r] = n]
  <2>. DEFINE s == [step.scheduled EXCEPT ![r] = n]
  <2>1. s \in [Requests -> Nat]
    BY <1>3, <1>11
  <2>2. step.budget - n \in Nat
    <3>1. n \in Nat /\ step.budget \in Nat /\ n <= step.budget
      BY <1>3, <1>11
    <3>. QED BY <3>1
  <2>3. step' = [step EXCEPT !.budget = step.budget - n, !.scheduled = s]
    BY <1>1 DEF TypeInv, Steps
  <2>. HIDE DEF s
  <2>4. step' = [index |-> step.index, budget |-> step.budget - n,
                 preempted |-> step.preempted, scheduled |-> s, drafted |-> step.drafted,
                 batch |-> step.batch, fits |-> step.fits]
    BY <2>3 DEF TypeInv, Steps
  <2>. QED BY <1>3, <2>1, <2>2, <2>4 DEF Steps, s
<1>17. /\ step'.scheduled[r] = n /\ step'.drafted[r] = 0
       /\ \A q \in Requests \ {r} : /\ step'.scheduled[q] = step.scheduled[q]
                                    /\ step'.drafted[q] = step.drafted[q]
  BY <1>3, <1>4, <1>8, <1>16
<1>18. TypeInv'
  <2>1. computed' \in [Requests -> Nat]
    BY <1>1, <1>2, <1>10
  <2>. QED BY <1>1, <1>4, <1>5, <1>13, <1>16, <2>1 DEF TypeInv
<1>19. QueueInv'
  <2>1. ToSet(running') \cap ToSet(waiting') = {}
    BY <1>1, <1>2, <1>4, <1>5
  <2>2. ToSet(running') \cup ToSet(waiting') = ToSet(running) \cup ToSet(waiting)
    BY <1>1, <1>4, <1>5
  <2>. QED BY <1>1, <1>4, <1>5, <2>1, <2>2 DEF QueueInv
<1>20. NotRunningInv'
  <2>1. ASSUME NEW q \in Requests, q \notin ToSet(running')
        PROVE blocks'[q] = <<>> /\ cachedBlocks'[q] = 0 /\ ~(computed'[q] > 0)
    <3>1. q # r /\ q \notin ToSet(running)
      BY <1>1, <1>5, <2>1
    <3>. QED BY <1>1, <1>13, <1>14, <3>1 DEF NotRunningInv
  <2>. QED BY <2>1 DEF NotRunningInv
<1>21. StepInv'
  <2>1. \A q \in Requests : step'.scheduled[q] > 0 => q \in ToSet(running')
    BY <1>1, <1>5, <1>17 DEF StepInv
  <2>. QED BY <1>1, <2>1 DEF StepInv
<1>22. PositionInv'
  <2>1. ASSUME NEW q \in Requests
        PROVE  /\ step'.scheduled[q] = 0 => step'.drafted[q] = 0
               /\ step'.scheduled[q] > 0 => Computes(q, computed[q] + step.scheduled[q])'
               /\ q \in ToSet(running') => Behind(q)'
    <3>1. CASE q = r
      <4>1. end < MaxTotalTokens(r) /\ end <= len
        <5>. HIDE DEF base, len
        <5>. QED BY <1>10, <1>11
      <4>2. MaxTotalTokens(q)' = MaxTotalTokens(q)
        BY DEF MaxTotalTokens
      <4>3. Computes(q, computed[q] + step.scheduled[q])'
        BY <1>1, <1>14, <1>15, <1>17, <3>1, <4>1, <4>2 DEF Computes
      <4>4. Behind(q)'
        BY <1>1, <1>9, <1>14, <1>15, <3>1 DEF Behind
      <4>. QED BY <1>17, <3>1, <4>3, <4>4
    <3>2. CASE q # r
      <4>1. /\ step.scheduled[q] = 0 => step.drafted[q] = 0
            /\ step.scheduled[q] > 0 => Computes(q, computed[q] + step.scheduled[q])
            /\ q \in ToSet(running) => Behind(q)
        BY <1>1 DEF PositionInv, InBatch
      <4>2. q \in ToSet(running') => q \in ToSet(running)
        BY <1>1, <1>5, <3>2
      <4>3. /\ step'.scheduled[q] = step.scheduled[q] /\ step'.drafted[q] = step.drafted[q]
            /\ blocks'[q] = blocks[q] /\ computed'[q] = computed[q]
        BY <1>14, <1>17, <3>2
      <4>. QED BY <1>1, <4>1, <4>2, <4>3 DEF Computes, Behind, MaxTotalTokens
    <3>. QED BY <3>1, <3>2
  <2>. QED BY <1>1, <2>1 DEF PositionInv, InBatch
<1>. QED BY <1>1, <1>13, <1>18, <1>19, <1>20, <1>21, <1>22, OutputUnchanged

-------------------------------------------------------------------------------
(* The forward pass and its output: each turn keeps the invariant. *)

\* The batch has the scheduled requests, and their tokens count as computed.
LEMMA ForwardKeeps == ASSUME IInv, Forward PROVE IInv'
<1>. USE DEF IInv
<1>. DEFINE S == {r \in Requests : step.scheduled[r] > 0}
            batch == Only(running, S)
            fits == /\ batch # <<>>
                    /\ Max({[r \in Requests |-> computed[r] + step.scheduled[r]][q] :
                              q \in ToSet(batch)}) + Gamma <= MaxModelLen
<1>1. /\ phase = "forward" /\ phase' = "update" /\ finishedIds' = {}
      /\ computed' = [r \in Requests |-> computed[r] + step.scheduled[r]]
      /\ step' = [step EXCEPT !.index = 1, !.batch = batch, !.fits = fits]
      /\ UNCHANGED <<tokens, spec, waiting, running, specEnabled, pool, blocks, cachedBlocks,
                     toCome, rollout>>
  BY DEF Forward, queueVars, cacheVars, rolloutVars
<1>2. /\ running \in Seq(Requests) /\ IsInjective(running) /\ computed \in [Requests -> Nat]
  BY DEF TypeInv, QueueInv
<1>3. /\ step.index \in Nat \ {0} /\ step.budget \in Nat /\ step.preempted \in BOOLEAN
      /\ step.scheduled \in [Requests -> Nat] /\ step.drafted \in [Requests -> 0..Gamma]
      /\ step.batch \in Seq(Requests) /\ step.fits \in BOOLEAN
  BY DEF TypeInv, Steps
<1>4. fits \in BOOLEAN
  OBVIOUS
<1>5. batch \in Seq(Requests) /\ IsInjective(batch) /\ ToSet(batch) = ToSet(running) \cap S
  <2>. HIDE DEF S
  <2>. QED BY <1>2, OnlyPlaces, OnlyInjective, OnlyElements
<1>. HIDE DEF batch, fits
<1>6. /\ step' \in Steps /\ step'.index = 1 /\ step'.batch = batch
      /\ step'.scheduled = step.scheduled /\ step'.drafted = step.drafted
  <2>1. step' = [index |-> 1, budget |-> step.budget, preempted |-> step.preempted,
                 scheduled |-> step.scheduled, drafted |-> step.drafted, batch |-> batch,
                 fits |-> fits]
    BY <1>1 DEF TypeInv, Steps
  <2>. QED BY <1>3, <1>4, <1>5, <2>1 DEF Steps
<1>7. \A q \in Requests : step.scheduled[q] > 0 => q \in ToSet(running)
  BY <1>1 DEF StepInv
<1>8. \A q \in Requests : InBatch(q)' <=> step.scheduled[q] > 0
  <2>. SUFFICES ASSUME NEW q \in Requests PROVE InBatch(q)' <=> step.scheduled[q] > 0
    OBVIOUS
  <2>1. \A i \in DOMAIN batch : i >= 1
    <3>1. DOMAIN batch = 1..Len(batch)
      BY <1>5
    <3>. QED BY <3>1
  <2>2. InBatch(q)' <=> \E i \in DOMAIN batch : batch[i] = q
    BY <1>1, <1>6, <2>1 DEF InBatch
  <2>3. InBatch(q)' <=> q \in ToSet(batch)
    BY <2>2 DEF ToSet
  <2>. QED BY <1>5, <1>7, <2>3
<1>9. TypeInv'
  <2>1. computed' \in [Requests -> Nat]
    BY <1>1, <1>2, <1>3
  <2>. QED BY <1>1, <1>6, <2>1 DEF TypeInv
<1>10. QueueInv'
  BY <1>1 DEF QueueInv
<1>11. NotRunningInv'
  <2>1. ASSUME NEW q \in Requests, q \notin ToSet(running)
        PROVE blocks[q] = <<>> /\ cachedBlocks[q] = 0 /\ ~(computed'[q] > 0)
    <3>1. blocks[q] = <<>> /\ cachedBlocks[q] = 0 /\ ~(computed[q] > 0)
      BY <1>1, <2>1 DEF NotRunningInv
    <3>2. ~(step.scheduled[q] > 0)
      BY <1>7, <2>1
    <3>3. computed[q] \in Nat /\ step.scheduled[q] \in Nat
      BY <1>2, <1>3
    <3>. QED BY <1>1, <3>1, <3>2, <3>3
  <2>. QED BY <1>1, <2>1 DEF NotRunningInv
<1>12. StepInv'
  <2>1. \A i \in DOMAIN batch : batch[i] \in ToSet(running)
    BY <1>5 DEF ToSet
  <2>. QED BY <1>1, <1>5, <1>6, <2>1 DEF StepInv
<1>13. PositionInv'
  <2>1. ASSUME NEW q \in Requests
        PROVE  /\ step'.scheduled[q] = 0 => step'.drafted[q] = 0
               /\ InBatch(q)' => Computes(q, computed[q])'
               /\ q \in ToSet(running) /\ ~InBatch(q)' => Behind(q)'
    <3>1. /\ step.scheduled[q] = 0 => step.drafted[q] = 0
          /\ step.scheduled[q] > 0 => Computes(q, computed[q] + step.scheduled[q])
          /\ q \in ToSet(running) => Behind(q)
      BY <1>1 DEF PositionInv, InBatch
    <3>2. computed'[q] = computed[q] + step.scheduled[q]
      BY <1>1
    <3>3. computed[q] \in Nat /\ step.scheduled[q] \in Nat
      BY <1>2, <1>3
    <3>4. InBatch(q)' => Computes(q, computed[q])'
      BY <1>1, <1>6, <1>8, <3>1, <3>2 DEF Computes, MaxTotalTokens
    <3>5. ~InBatch(q)' => computed'[q] = computed[q]
      BY <1>8, <3>2, <3>3
    <3>6. q \in ToSet(running) /\ ~InBatch(q)' => Behind(q)'
      BY <1>1, <3>1, <3>5 DEF Behind
    <3>. QED BY <1>6, <3>1, <3>4, <3>6
  <2>. QED BY <1>1, <2>1 DEF PositionInv
<1>. QED BY <1>1, <1>9, <1>10, <1>11, <1>12, <1>13, CacheUnchanged, OutputUnchanged

\* The request at index is in the batch, and running.
LEMMA AtBatchFacts ==
  ASSUME IInv, NEW r \in Requests, AtBatch(r)
  PROVE  /\ phase = "update" /\ InBatch(r) /\ Computes(r, computed[r])
         /\ step.index \in DOMAIN step.batch /\ r = step.batch[step.index]
         /\ r \in ToSet(running) /\ tokens[r] # <<>> /\ r \notin ToSet(waiting)
<1>. USE DEF IInv
<1>1. phase = "update" /\ step.index <= Len(step.batch) /\ r = step.batch[step.index]
  BY DEF AtBatch
<1>2. step.index \in Nat /\ step.index > 0 /\ step.batch \in Seq(Requests)
  BY DEF TypeInv, Steps
<1>3. step.index \in DOMAIN step.batch /\ step.index >= step.index
  BY <1>1, <1>2
<1>4. InBatch(r) /\ r \in ToSet(running)
  BY <1>1, <1>3 DEF InBatch, StepInv
<1>5. tokens[r] # <<>> /\ r \notin ToSet(waiting)
  BY <1>4 DEF QueueInv
<1>. QED BY <1>1, <1>3, <1>4, <1>5 DEF PositionInv

\* The batch goes on with the next request: what holds of it is that it is no longer in
\* the rest of the batch.
LEMMA NextInBatch ==
  ASSUME IInv, NEW r \in Requests, AtBatch(r), step' = [step EXCEPT !.index = @ + 1],
         phase' = phase
  PROVE  /\ step' \in Steps /\ step'.index = step.index + 1 /\ step'.batch = step.batch
         /\ step'.scheduled = step.scheduled /\ step'.drafted = step.drafted
         /\ ~InBatch(r)'
         /\ \A q \in Requests \ {r} : InBatch(q)' <=> InBatch(q)
         /\ \A i \in DOMAIN step.batch : i >= step'.index => i >= step.index /\ step.batch[i] # r
<1>1. /\ step.index \in Nat \ {0} /\ step.budget \in Nat /\ step.preempted \in BOOLEAN
      /\ step.scheduled \in [Requests -> Nat] /\ step.drafted \in [Requests -> 0..Gamma]
      /\ step.batch \in Seq(Requests) /\ step.fits \in BOOLEAN
  BY DEF IInv, TypeInv, Steps
<1>2. /\ step' \in Steps /\ step'.index = step.index + 1 /\ step'.batch = step.batch
      /\ step'.scheduled = step.scheduled /\ step'.drafted = step.drafted
  <2>1. step' = [index |-> step.index + 1, budget |-> step.budget, preempted |-> step.preempted,
                 scheduled |-> step.scheduled, drafted |-> step.drafted, batch |-> step.batch,
                 fits |-> step.fits]
    BY DEF IInv, TypeInv, Steps
  <2>2. step.index + 1 \in Nat \ {0}
    BY <1>1
  <2>. QED BY <1>1, <2>1, <2>2 DEF Steps
<1>3. phase = "update" /\ step.index \in DOMAIN step.batch /\ r = step.batch[step.index]
      /\ IsInjective(step.batch)
  BY AtBatchFacts DEF IInv, StepInv
<1>4. \A i \in DOMAIN step.batch : i \in Nat
  BY <1>1
<1>5. \A i \in DOMAIN step.batch :
        /\ i >= step'.index => i >= step.index /\ i # step.index
        /\ i >= step.index /\ i # step.index => i >= step'.index
  <2>. SUFFICES ASSUME NEW i \in DOMAIN step.batch
                PROVE  i >= step'.index <=> i >= step.index /\ i # step.index
    OBVIOUS
  <2>. DEFINE d == step.index
  <2>1. i \in Nat /\ d \in Nat /\ step'.index = d + 1
    BY <1>1, <1>2, <1>4
  <2>. HIDE DEF d
  <2>2. i >= d + 1 <=> i >= d /\ i # d
    BY <2>1
  <2>. QED BY <2>1, <2>2 DEF d
<1>6. \A i \in DOMAIN step.batch : i # step.index <=> step.batch[i] # r
  BY <1>3 DEF IsInjective
<1>. QED BY <1>2, <1>3, <1>5, <1>6 DEF InBatch

\* A prompt that is not complete has something left to compute.
LEMMA PrefillContinuesKeeps ==
  ASSUME IInv, NEW r \in Requests, PrefillContinues(r) PROVE IInv'
<1>. USE DEF IInv
<1>1. /\ AtBatch(r) /\ computed[r] < Len(tokens[r])
      /\ step' = [step EXCEPT !.index = @ + 1]
      /\ UNCHANGED <<tokens, computed, spec, waiting, running, finishedIds, specEnabled, pool,
                     blocks, cachedBlocks, phase, toCome, rollout>>
  BY DEF PrefillContinues, requestVars, queueVars, cacheVars, rolloutVars
<1>2. phase = "update" /\ Computes(r, computed[r]) /\ r \in ToSet(running)
  BY <1>1, AtBatchFacts
<1>3. /\ step' \in Steps /\ step'.index = step.index + 1 /\ step'.batch = step.batch
      /\ step'.scheduled = step.scheduled /\ step'.drafted = step.drafted
      /\ ~InBatch(r)'
      /\ \A q \in Requests \ {r} : InBatch(q)' <=> InBatch(q)
      /\ \A i \in DOMAIN step.batch : i >= step'.index => i >= step.index /\ step.batch[i] # r
  BY <1>1, NextInBatch
<1>4. TypeInv'
  BY <1>1, <1>3 DEF TypeInv
<1>5. QueueInv'
  BY <1>1 DEF QueueInv
<1>6. NotRunningInv'
  BY <1>1 DEF NotRunningInv
<1>7. StepInv'
  BY <1>1, <1>2, <1>3 DEF StepInv
<1>8. PositionInv'
  <2>1. Behind(r)
    BY <1>1, <1>2 DEF Behind, Computes
  <2>2. ASSUME NEW q \in Requests
        PROVE  /\ step'.scheduled[q] = 0 => step'.drafted[q] = 0
               /\ InBatch(q)' => Computes(q, computed[q])'
               /\ q \in ToSet(running) /\ ~InBatch(q)' => Behind(q)'
    <3>1. Behind(q)' <=> Behind(q)
      BY <1>1 DEF Behind
    <3>2. Computes(q, computed[q])' <=> Computes(q, computed[q])
      BY <1>1, <1>3 DEF Computes, MaxTotalTokens
    <3>. QED BY <1>2, <1>3, <2>1, <3>1, <3>2 DEF PositionInv
  <2>. QED BY <1>1, <1>2, <2>2 DEF PositionInv
<1>. QED BY <1>1, <1>4, <1>5, <1>6, <1>7, <1>8, CacheUnchanged, OutputUnchanged

\* The prefixes of a concatenation.
LEMMA PrefixOfConcat ==
  ASSUME NEW T, NEW s \in Seq(T), NEW t \in Seq(T)
  PROVE  /\ \A n \in 1..Len(s) : SubSeq(s \o t, 1, n) = SubSeq(s, 1, n)
         /\ \A i \in 1..Len(t) : SubSeq(s \o t, 1, Len(s) + i) = s \o SubSeq(t, 1, i)
<1>1. ASSUME NEW n \in 1..Len(s) PROVE SubSeq(s \o t, 1, n) = SubSeq(s, 1, n)
  <2>1. 1 \in 1..Len(s)
    OBVIOUS
  <2>. QED BY <2>1, SubSeqOfConcat1
<1>2. ASSUME NEW i \in 1..Len(t) PROVE SubSeq(s \o t, 1, Len(s) + i) = s \o SubSeq(t, 1, i)
  <2>. DEFINE st == s \o t
              a == SubSeq(st, 1, Len(s) + i)
              u == SubSeq(t, 1, i)
              b == s \o u
              k == Len(s)
  <2>1. /\ st \in Seq(T) /\ Len(st) = k + Len(t) /\ k \in Nat /\ Len(t) \in Nat
        /\ i \in Nat /\ i <= Len(t) /\ s \in Seq(T) /\ t \in Seq(T)
        /\ \A j \in 1..(k + Len(t)) : st[j] = IF j <= k THEN s[j] ELSE t[j - k]
    OBVIOUS
  <2>2. u \in Seq(T) /\ Len(u) = i /\ \A j \in 1..i : u[j] = t[j]
    OBVIOUS
  <2>. HIDE DEF st, u
  <2>3. b \in Seq(T) /\ Len(b) = k + i
        /\ \A j \in 1..(k + i) : b[j] = IF j <= k THEN s[j] ELSE u[j - k]
    <3>1. /\ b \in Seq(T) /\ Len(b) = Len(s) + Len(u)
          /\ \A j \in 1..(Len(s) + Len(u)) : b[j] = IF j <= Len(s) THEN s[j] ELSE u[j - Len(s)]
      BY <2>2, ConcatProperties
    <3>. QED BY <2>2, <3>1
  <2>. HIDE DEF k
  <2>4. a \in Seq(T) /\ Len(a) = k + i /\ \A j \in 1..(k + i) : a[j] = st[j]
    <3>1. a = SubSeq(st, 1, k + i)
      BY DEF k
    <3>2. k + i \in Nat /\ k + i <= Len(st)
      BY <2>1
    <3>. QED BY <2>1, <3>1, <3>2
  <2>. HIDE DEF a, b
  <2>5. \A j \in 1..(k + i) : a[j] = b[j]
    <3>. SUFFICES ASSUME NEW j \in 1..(k + i) PROVE a[j] = b[j]
      OBVIOUS
    <3>1. j \in 1..(k + Len(t)) /\ (~(j <= k) => j - k \in 1..i)
      BY <2>1
    <3>. QED BY <2>1, <2>2, <2>3, <2>4, <3>1
  <2>6. a = b
    BY <2>3, <2>4, <2>5, SeqEqual
  <2>. QED BY <2>6 DEF a, b, st, u
<1>. QED BY <1>1, <1>2

\* A request that goes on has got all the generated tokens, and none of them stops it.
LEMMA OutputFacts ==
  ASSUME IInv, NEW r \in Requests, NEW accepted, NEW new, Generated(r, accepted, new)
  PROVE  /\ accepted \in Nat /\ accepted <= step.drafted[r]
         /\ new \in Seq(Tokens) /\ Len(new) = accepted + 1
         /\ ~Stops(r, WithOutput(r, new)) =>
              /\ WithOutput(r, new) = tokens[r] \o new
              /\ \A i \in 1..(accepted + 1) : ~Stops(r, tokens[r] \o SubSeq(new, 1, i))
<1>1. /\ accepted \in 0..step.drafted[r] /\ new \in [1..(accepted + 1) -> SampledTokens \cup {EOS}]
  BY DEF Generated
<1>2. step.drafted[r] \in Nat
  BY Limits DEF IInv, TypeInv, Steps
<1>3. accepted \in Nat /\ accepted <= step.drafted[r]
  BY <1>1, <1>2
<1>4. new \in Seq(Tokens) /\ Len(new) = accepted + 1 /\ DOMAIN new = 1..(accepted + 1)
  <2>1. new \in [1..(accepted + 1) -> Tokens]
    BY <1>1 DEF Tokens
  <2>2. accepted + 1 \in Nat
    BY <1>3
  <2>. QED BY <2>1, <2>2
<1>5. ASSUME ~Stops(r, WithOutput(r, new))
      PROVE  /\ WithOutput(r, new) = tokens[r] \o new
             /\ \A i \in 1..(accepted + 1) : ~Stops(r, tokens[r] \o SubSeq(new, 1, i))
  <2>. DEFINE S == {i \in DOMAIN new : Stops(r, tokens[r] \o SubSeq(new, 1, i))}
  <2>1. WithOutput(r, new) = tokens[r] \o SubSeq(new, 1, IF S = {} THEN Len(new) ELSE Min(S))
    BY DEF WithOutput
  <2>2. S = {}
    <3>. SUFFICES ASSUME S # {} PROVE FALSE
      OBVIOUS
    <3>1. S \in SUBSET Nat
      BY <1>3, <1>4
    <3>2. Min(S) \in S
      <4>. HIDE DEF S
      <4>. QED BY <3>1, MinOfNaturals
    <3>3. Stops(r, tokens[r] \o SubSeq(new, 1, Min(S)))
      BY <3>2
    <3>. QED BY <1>5, <2>1, <3>3
  <2>3. SubSeq(new, 1, Len(new)) = new
    BY <1>4, SubSeqFull
  <2>. QED BY <1>4, <2>1, <2>2, <2>3
<1>. QED BY <1>3, <1>4, <1>5

\* A request that goes on has not computed its last token, and what is rejected is no
\* longer counted.
LEMMA RequestContinuesKeeps ==
  ASSUME IInv, NEW r \in Requests, NEW accepted, NEW new, RequestContinues(r, accepted, new)
  PROVE  IInv'
<1>. USE DEF IInv
<1>. DEFINE output == tokens[r] \o new
            len == Len(tokens[r])
            drafted == step.drafted[r]
<1>1. /\ Generated(r, accepted, new) /\ AtBatch(r) /\ computed[r] >= len
      /\ ~Stops(r, WithOutput(r, new))
      /\ tokens' = [tokens EXCEPT ![r] = WithOutput(r, new)]
      /\ computed' = [computed EXCEPT ![r] = computed[r] - (drafted - accepted)]
      /\ step' = [step EXCEPT !.index = @ + 1]
      /\ UNCHANGED <<spec, waiting, running, finishedIds, specEnabled, pool, blocks,
                     cachedBlocks, phase, toCome, rollout>>
  BY DEF RequestContinues, Generated, ComputedAfter, queueVars, cacheVars, rolloutVars
<1>2. /\ accepted \in Nat /\ accepted <= drafted /\ new \in Seq(Tokens) /\ Len(new) = accepted + 1
      /\ WithOutput(r, new) = output
      /\ \A i \in 1..(accepted + 1) : ~Stops(r, tokens[r] \o SubSeq(new, 1, i))
  BY <1>1, OutputFacts
<1>3. /\ phase = "update" /\ InBatch(r) /\ Computes(r, computed[r])
      /\ r \in ToSet(running) /\ tokens[r] # <<>>
  BY <1>1, AtBatchFacts
<1>4. /\ step' \in Steps /\ step'.index = step.index + 1 /\ step'.batch = step.batch
      /\ step'.scheduled = step.scheduled /\ step'.drafted = step.drafted
      /\ ~InBatch(r)'
      /\ \A q \in Requests \ {r} : InBatch(q)' <=> InBatch(q)
      /\ \A i \in DOMAIN step.batch : i >= step'.index => i >= step.index /\ step.batch[i] # r
  BY <1>1, NextInBatch
<1>5. /\ tokens \in [Requests -> Seq(Tokens)] /\ computed \in [Requests -> Nat]
      /\ blocks \in [Requests -> Seq(Blocks)] /\ tokens[r] \in Seq(Tokens) /\ len \in Nat
      /\ drafted \in Nat /\ computed[r] \in Nat
  BY Limits DEF TypeInv, Steps
<1>6. /\ output \in Seq(Tokens) /\ Len(output) = len + accepted + 1
      /\ \A n \in 1..len : SubSeq(output, 1, n) = SubSeq(tokens[r], 1, n)
      /\ \A i \in 1..(accepted + 1) : SubSeq(output, 1, len + i) = tokens[r] \o SubSeq(new, 1, i)
  <2>1. output \in Seq(Tokens) /\ Len(output) = len + Len(new)
    BY <1>2, <1>5, ConcatProperties
  <2>2. /\ \A n \in 1..len : SubSeq(output, 1, n) = SubSeq(tokens[r], 1, n)
        /\ \A i \in 1..Len(new) : SubSeq(output, 1, len + i) = tokens[r] \o SubSeq(new, 1, i)
    BY <1>2, <1>5, PrefixOfConcat
  <2>. HIDE DEF output, len
  <2>3. Len(output) = len + accepted + 1
    BY <1>2, <1>5, <2>1
  <2>. QED BY <1>2, <2>1, <2>2, <2>3
<1>7. computed[r] = len + drafted
  <2>1. (drafted = 0 => computed[r] <= len) /\ (drafted > 0 => computed[r] = len + drafted)
    BY <1>3 DEF Computes
  <2>. HIDE DEF len, drafted
  <2>. QED BY <1>1, <1>5, <2>1
<1>8. tokens'[r] = output /\ \A q \in Requests \ {r} : tokens'[q] = tokens[q]
  BY <1>1, <1>2, <1>5
<1>9. computed'[r] = len + accepted /\ \A q \in Requests \ {r} : computed'[q] = computed[q]
  <2>1. computed'[r] = computed[r] - (drafted - accepted)
    BY <1>1, <1>5
  <2>2. \A q \in Requests \ {r} : computed'[q] = computed[q]
    BY <1>1, <1>5
  <2>. HIDE DEF len, drafted
  <2>3. computed[r] - (drafted - accepted) = len + accepted
    BY <1>2, <1>5, <1>7
  <2>. QED BY <2>1, <2>2, <2>3
<1>. HIDE DEF output, len, drafted
<1>10. output # <<>> /\ len <= Len(output)
  <2>1. Len(output) > 0 /\ len <= Len(output)
    BY <1>2, <1>5, <1>6
  <2>. QED BY <2>1, EmptySeq
<1>11. TypeInv'
  <2>1. tokens' \in [Requests -> Seq(Tokens)]
    BY <1>1, <1>2, <1>5, <1>6
  <2>2. computed' \in [Requests -> Nat]
    <3>1. computed[r] - (drafted - accepted) \in Nat
      BY <1>2, <1>5, <1>7
    <3>. QED BY <1>1, <1>5, <3>1
  <2>. QED BY <1>1, <1>4, <2>1, <2>2 DEF TypeInv
<1>12. QueueInv'
  <2>1. \A q \in Requests : tokens'[q] # <<>> <=> tokens[q] # <<>>
    BY <1>3, <1>8, <1>10
  <2>2. \A q \in toCome : q \in Requests
    BY DEF TypeInv
  <2>. QED BY <1>1, <2>1, <2>2 DEF QueueInv
<1>13. NotRunningInv'
  <2>1. \A q \in Requests : q \notin ToSet(running) => tokens'[q] = tokens[q] /\ computed'[q] = computed[q]
    BY <1>3, <1>8, <1>9
  <2>. QED BY <1>1, <2>1 DEF NotRunningInv
<1>14. StepInv'
  BY <1>1, <1>3, <1>4 DEF StepInv
<1>15. PositionInv'
  <2>1. Behind(r)'
    <3>1. len + accepted < Len(output)
      BY <1>2, <1>5, <1>6
    <3>2. len + accepted <= Len(blocks[r]) * BlockSize
      <4>1. computed[r] <= Len(blocks[r]) * BlockSize
        BY <1>3 DEF Computes
      <4>. DEFINE room == Len(blocks[r]) * BlockSize
      <4>2. room \in Nat
        <5>1. Len(blocks[r]) \in Nat
          BY <1>5
        <5>. QED BY <5>1, RoomGrows
      <4>3. computed[r] <= room
        BY <4>1
      <4>. HIDE DEF room
      <4>4. len + accepted <= room
        BY <1>2, <1>5, <1>7, <4>2, <4>3
      <4>. QED BY <4>4 DEF room
    <3>. QED BY <1>1, <1>8, <1>9, <3>1, <3>2 DEF Behind
  <2>2. ASSUME NEW q \in Requests \ {r}
        PROVE  /\ Computes(q, computed[q])' <=> Computes(q, computed[q])
               /\ Behind(q)' <=> Behind(q)
    BY <1>1, <1>4, <1>8, <1>9 DEF Computes, Behind, MaxTotalTokens
  <2>3. ASSUME NEW q \in Requests
        PROVE  /\ step'.scheduled[q] = 0 => step'.drafted[q] = 0
               /\ InBatch(q)' => Computes(q, computed[q])'
               /\ q \in ToSet(running) /\ ~InBatch(q)' => Behind(q)'
    BY <1>3, <1>4, <2>1, <2>2 DEF PositionInv
  <2>. QED BY <1>1, <1>3, <2>3 DEF PositionInv
<1>16. OutputInv'
  <2>1. ASSUME NEW q \in Requests, tokens'[q] # <<>> PROVE Len(Prompt[q]) <= Len(tokens'[q])
    <3>1. CASE q = r
      <4>1. Len(Prompt[r]) <= len /\ Len(Prompt[r]) \in Nat
        BY <1>3, PromptAssumption DEF OutputInv, len
      <4>2. Len(Prompt[r]) <= Len(output)
        BY <1>2, <1>5, <1>6, <4>1
      <4>. QED BY <1>8, <3>1, <4>2
    <3>2. CASE q # r
      BY <1>8, <2>1, <3>2 DEF OutputInv
    <3>. QED BY <3>1, <3>2
  <2>2. ASSUME NEW q \in Requests, NEW n \in (Len(Prompt[q]) + 1)..Len(tokens'[q])
        PROVE  ~Stops(q, SubSeq(tokens'[q], 1, n))
    <3>1. CASE q = r
      <4>1. Len(Prompt[r]) \in Nat
        BY PromptAssumption
      <4>2. n \in (Len(Prompt[r]) + 1)..(len + accepted + 1) /\ n \in Nat
        BY <1>2, <1>5, <1>6, <1>8, <3>1, <4>1
      <4>3. CASE n <= len
        <5>1. n \in (Len(Prompt[r]) + 1)..len /\ n \in 1..len
          BY <1>5, <4>1, <4>2, <4>3
        <5>2. ~Stops(r, SubSeq(tokens[r], 1, n))
          BY <5>1 DEF OutputInv, NothingAfterStop, len
        <5>. QED BY <1>6, <1>8, <3>1, <5>1, <5>2
      <4>4. CASE n > len
        <5>1. n - len \in 1..(accepted + 1) /\ len + (n - len) = n
          BY <1>2, <1>5, <4>2, <4>4
        <5>. QED BY <1>2, <1>6, <1>8, <3>1, <5>1
      <4>. QED BY <1>5, <4>2, <4>3, <4>4
    <3>2. CASE q # r
      BY <1>8, <3>2 DEF OutputInv, NothingAfterStop
    <3>. QED BY <3>1, <3>2
  <2>3. NothingAfterStop'
    <3>1. \A q \in Requests : \A n \in (Len(Prompt[q]) + 1)..Len(tokens'[q]) :
            ~Stops(q, SubSeq(tokens'[q], 1, n))
      BY <2>2
    <3>. QED BY <3>1 DEF NothingAfterStop, Stops
  <2>. QED BY <2>1, <2>3 DEF OutputInv
<1>17. AccountInv'
  BY <1>1 DEF AccountInv, Holders, Holds
<1>18. CacheInv'
  <2>1. ASSUME NEW q \in Requests, NEW i \in DOMAIN blocks[q]
        PROVE  IF i <= cachedBlocks[q]
                 THEN /\ i * BlockSize <= Len(tokens'[q])
                      /\ pool.hash[blocks[q][i]] = SubSeq(tokens'[q], 1, i * BlockSize)
                 ELSE pool.hash[blocks[q][i]] = NoHash
    <3>1. IF i <= cachedBlocks[q]
            THEN /\ i * BlockSize <= Len(tokens[q])
                 /\ pool.hash[blocks[q][i]] = SubSeq(tokens[q], 1, i * BlockSize)
            ELSE pool.hash[blocks[q][i]] = NoHash
      BY DEF CacheInv, CommittedBlocksAreCached
    <3>2. CASE q = r /\ i <= cachedBlocks[q]
      <4>1. i \in Nat /\ i > 0
        BY <1>5
      <4>. DEFINE k == i * BlockSize
      <4>2. k \in Nat /\ k <= len /\ k > 0
        <5>1. k \in Nat /\ (0 < i <=> 0 * BlockSize < i * BlockSize)
          BY <4>1, RoomGrows
        <5>2. 0 * BlockSize = 0
          BY Limits
        <5>3. k <= len
          BY <3>1, <3>2 DEF len
        <5>. QED BY <4>1, <5>1, <5>2, <5>3
      <4>3. pool.hash[blocks[q][i]] = SubSeq(tokens[q], 1, k)
        BY <3>1, <3>2
      <4>. HIDE DEF k
      <4>4. k \in 1..len /\ k <= Len(output)
        BY <1>2, <1>5, <1>6, <4>2
      <4>5. k <= Len(tokens'[q]) /\ pool.hash[blocks[q][i]] = SubSeq(tokens'[q], 1, k)
        BY <1>6, <1>8, <3>2, <4>3, <4>4
      <4>. QED BY <3>2, <4>5 DEF k
    <3>3. CASE q # r
      BY <1>8, <3>1, <3>3
    <3>. QED BY <3>1, <3>2, <3>3
  <2>. QED BY <1>1, <2>1 DEF CacheInv, CommittedBlocksAreCached
<1>. QED BY <1>11, <1>12, <1>13, <1>14, <1>15, <1>16, <1>17, <1>18

\* A request that is gone has no output.
LEMMA OutputGone ==
  ASSUME TypeInv, OutputInv, NEW r \in Requests, tokens' = [tokens EXCEPT ![r] = <<>>]
  PROVE  OutputInv'
<1>1. tokens'[r] = <<>> /\ \A q \in Requests \ {r} : tokens'[q] = tokens[q]
  BY DEF TypeInv
<1>2. ASSUME NEW q \in Requests, tokens'[q] # <<>> PROVE Len(Prompt[q]) <= Len(tokens'[q])
  BY <1>1, <1>2 DEF OutputInv
<1>3. ASSUME NEW q \in Requests, NEW n \in (Len(Prompt[q]) + 1)..Len(tokens'[q])
      PROVE  ~Stops(q, SubSeq(tokens'[q], 1, n))
  <2>1. CASE q = r
    <3>1. Len(Prompt[q]) \in Nat /\ Len(tokens'[q]) = 0
      BY <1>1, <2>1, PromptAssumption
    <3>. QED BY <3>1
  <2>2. CASE q # r
    BY <1>1, <2>2 DEF OutputInv, NothingAfterStop
  <2>. QED BY <2>1, <2>2
<1>4. NothingAfterStop'
  BY <1>3 DEF NothingAfterStop, Stops
<1>. QED BY <1>2, <1>4 DEF OutputInv

\* A request that stops leaves the running queue and gives its blocks back.
LEMMA RequestStopsKeeps ==
  ASSUME IInv, NEW r \in Requests, NEW accepted, NEW new, RequestStops(r, accepted, new)
  PROVE  IInv'
<1>. USE DEF IInv
<1>. DEFINE len == Len(tokens[r])
            drafted == step.drafted[r]
            left == Only(running, Requests \ {r})
<1>1. /\ Generated(r, accepted, new) /\ AtBatch(r) /\ computed[r] >= len
      /\ tokens' = [tokens EXCEPT ![r] = <<>>]
      /\ computed' = [computed EXCEPT ![r] = computed[r] - (drafted - accepted)]
      /\ running' = left /\ Free(r)
      /\ finishedIds' = finishedIds \cup {r}
      /\ spec' = [spec EXCEPT ![r] = 0]
      /\ step' = [step EXCEPT !.index = @ + 1]
      /\ UNCHANGED <<waiting, specEnabled, phase, toCome, rollout>>
  BY DEF RequestStops, Generated, ComputedAfter, rolloutVars
<1>2. accepted \in Nat /\ accepted <= drafted
  BY <1>1, OutputFacts
<1>3. /\ phase = "update" /\ InBatch(r) /\ Computes(r, computed[r])
      /\ r \in ToSet(running) /\ tokens[r] # <<>> /\ r \notin ToSet(waiting)
  BY <1>1, AtBatchFacts
<1>4. /\ step' \in Steps /\ step'.index = step.index + 1 /\ step'.batch = step.batch
      /\ step'.scheduled = step.scheduled /\ step'.drafted = step.drafted
      /\ ~InBatch(r)'
      /\ \A q \in Requests \ {r} : InBatch(q)' <=> InBatch(q)
      /\ \A i \in DOMAIN step.batch : i >= step'.index => i >= step.index /\ step.batch[i] # r
  BY <1>1, NextInBatch
<1>5. /\ tokens \in [Requests -> Seq(Tokens)] /\ computed \in [Requests -> Nat]
      /\ len \in Nat /\ drafted \in Nat /\ computed[r] \in Nat
      /\ running \in Seq(Requests) /\ IsInjective(running)
  BY Limits DEF TypeInv, Steps, QueueInv
<1>6. left \in Seq(Requests) /\ IsInjective(left) /\ ToSet(left) = ToSet(running) \ {r}
  BY <1>5, WithoutFacts
<1>7. computed[r] - (drafted - accepted) \in Nat
  <2>1. (drafted = 0 => computed[r] <= len) /\ (drafted > 0 => computed[r] = len + drafted)
    BY <1>3 DEF Computes
  <2>. HIDE DEF len, drafted
  <2>. QED BY <1>1, <1>2, <1>5, <2>1
<1>. HIDE DEF len, drafted, left
<1>8. /\ tokens'[r] = <<>>
      /\ \A q \in Requests \ {r} : tokens'[q] = tokens[q] /\ computed'[q] = computed[q]
  BY <1>1, <1>5
<1>9. /\ pool' \in Pools(Tokens)
      /\ blocks' \in [Requests -> Seq(Blocks)]
      /\ cachedBlocks' \in [Requests -> Nat]
      /\ blocks' = [blocks EXCEPT ![r] = <<>>]
      /\ cachedBlocks' = [cachedBlocks EXCEPT ![r] = 0]
      /\ AccountInv' /\ CacheInv'
  BY <1>1, <1>8, ReleaseAccounted
<1>10. /\ blocks'[r] = <<>> /\ cachedBlocks'[r] = 0
       /\ \A q \in Requests \ {r} : blocks'[q] = blocks[q] /\ cachedBlocks'[q] = cachedBlocks[q]
  BY <1>9 DEF TypeInv
<1>11. TypeInv'
  <2>1. tokens' \in [Requests -> Seq(Tokens)] /\ computed' \in [Requests -> Nat]
    BY <1>1, <1>5, <1>7
  <2>2. spec' \in [Requests -> 0..Gamma]
    BY <1>1, Limits DEF TypeInv
  <2>. QED BY <1>1, <1>4, <1>6, <1>9, <2>1, <2>2 DEF TypeInv
<1>12. QueueInv'
  <2>1. \A q \in Requests : tokens'[q] # <<>> <=> tokens[q] # <<>> /\ q # r
    BY <1>8
  <2>2. \A q \in toCome : q \in Requests
    BY DEF TypeInv
  <2>. QED BY <1>1, <1>3, <1>6, <2>1, <2>2 DEF QueueInv
<1>13. NotRunningInv'
  <2>1. ASSUME NEW q \in Requests, q \notin ToSet(running')
        PROVE  /\ blocks'[q] = <<>> /\ cachedBlocks'[q] = 0
               /\ computed'[q] > 0 => phase' = "update" /\ tokens'[q] = <<>>
    <3>1. CASE q = r
      BY <1>1, <1>3, <1>8, <1>10, <3>1
    <3>2. CASE q # r
      <4>1. q \notin ToSet(running)
        BY <1>1, <1>6, <2>1, <3>2
      <4>. QED BY <1>1, <1>8, <1>10, <3>2, <4>1 DEF NotRunningInv
    <3>. QED BY <3>1, <3>2
  <2>. QED BY <2>1 DEF NotRunningInv
<1>14. StepInv'
  <2>1. \A i \in DOMAIN step.batch : i >= step'.index => step.batch[i] \in ToSet(running')
    BY <1>1, <1>3, <1>4, <1>6 DEF StepInv
  <2>. QED BY <1>1, <1>3, <1>4, <2>1 DEF StepInv
<1>15. PositionInv'
  <2>1. ASSUME NEW q \in Requests \ {r}
        PROVE  /\ Computes(q, computed[q])' <=> Computes(q, computed[q])
               /\ Behind(q)' <=> Behind(q)
    BY <1>1, <1>4, <1>8, <1>10 DEF Computes, Behind, MaxTotalTokens
  <2>2. ASSUME NEW q \in Requests
        PROVE  /\ step'.scheduled[q] = 0 => step'.drafted[q] = 0
               /\ InBatch(q)' => Computes(q, computed[q])'
               /\ q \in ToSet(running') /\ ~InBatch(q)' => Behind(q)'
    BY <1>1, <1>4, <1>6, <2>1 DEF PositionInv
  <2>. QED BY <1>1, <1>3, <2>2 DEF PositionInv
<1>16. OutputInv'
  BY <1>1, OutputGone
<1>. QED BY <1>9, <1>11, <1>12, <1>13, <1>14, <1>15, <1>16

\* After the last of the batch, what is running is behind again.
LEMMA PostStepKeeps == ASSUME IInv, PostStep PROVE IInv'
<1>. USE DEF IInv
<1>1. /\ phase = "update" /\ step.index > Len(step.batch) /\ phase' = "idle"
      /\ computed' = [r \in Requests |-> IF tokens[r] = <<>> THEN 0 ELSE computed[r]]
      /\ \A r \in Requests : spec'[r] \in 0..Gamma
      /\ DOMAIN spec' = Requests /\ spec' = [r \in Requests |-> spec'[r]]
      /\ step' = NoStep
      /\ UNCHANGED <<tokens, waiting, running, finishedIds, specEnabled, pool, blocks,
                     cachedBlocks, toCome, rollout>>
  <2>1. spec \in [Requests -> 0..Gamma] /\ Proposals \subseteq 0..Gamma
    BY Limits DEF TypeInv, Proposals
  <2>. QED BY <2>1 DEF PostStep, queueVars, cacheVars, rolloutVars
<1>2. \A q \in Requests : ~InBatch(q)
  <2>1. step.batch \in Seq(Requests) /\ step.index \in Nat
    BY DEF TypeInv, Steps
  <2>2. \A i \in DOMAIN step.batch : ~(i >= step.index)
    BY <1>1, <2>1
  <2>. QED BY <2>2 DEF InBatch
<1>3. TypeInv'
  <2>1. computed' \in [Requests -> Nat]
    BY <1>1 DEF TypeInv
  <2>2. spec' \in [Requests -> 0..Gamma]
    BY <1>1
  <2>. QED BY <1>1, <2>1, <2>2, NoStepFacts DEF TypeInv
<1>4. QueueInv'
  BY <1>1 DEF QueueInv
<1>5. NotRunningInv'
  <2>1. ASSUME NEW q \in Requests, q \notin ToSet(running)
        PROVE blocks[q] = <<>> /\ cachedBlocks[q] = 0 /\ ~(computed'[q] > 0)
    BY <1>1, <2>1 DEF NotRunningInv
  <2>. QED BY <1>1, <2>1 DEF NotRunningInv
<1>6. StepInv'
  BY <1>1 DEF StepInv
<1>7. PositionInv'
  <2>1. ASSUME NEW q \in Requests
        PROVE  /\ step'.scheduled[q] = 0 /\ step'.drafted[q] = 0
               /\ q \in ToSet(running) => Behind(q)'
    <3>1. ASSUME q \in ToSet(running) PROVE Behind(q)'
      <4>1. tokens[q] # <<>>
        BY <3>1 DEF QueueInv
      <4>2. computed'[q] = computed[q] /\ Behind(q)
        BY <1>1, <1>2, <3>1, <4>1 DEF PositionInv
      <4>. QED BY <1>1, <4>2 DEF Behind
    <3>. QED BY <1>1, <3>1, NoStepFacts
  <2>. QED BY <1>1, <2>1 DEF PositionInv, InBatch
<1>. QED BY <1>1, <1>3, <1>4, <1>5, <1>6, <1>7, CacheUnchanged, OutputUnchanged

-------------------------------------------------------------------------------
(* Messages, and the rollouts. *)

\* Between two steps nothing is scheduled, and what is running is behind.
LEMMA IdleFacts ==
  ASSUME IInv, phase = "idle"
  PROVE  /\ step = NoStep /\ \A q \in Requests : step.scheduled[q] = 0 /\ step.drafted[q] = 0
         /\ \A q \in Requests : q \in ToSet(running) => Behind(q)
         /\ \A q \in Requests : q \notin ToSet(running) => computed[q] = 0
<1>1. step = NoStep
  BY DEF IInv, StepInv
<1>2. \A q \in Requests : q \in ToSet(running) => Behind(q)
  BY DEF IInv, PositionInv, InBatch
<1>3. \A q \in Requests : q \notin ToSet(running) => ~(computed[q] > 0) /\ computed[q] \in Nat
  BY DEF IInv, NotRunningInv, TypeInv
<1>. QED BY <1>1, <1>2, <1>3, NoStepFacts

\* A new request waits, with its prompt.
LEMMA AddRequestKeeps ==
  ASSUME IInv, NEW r \in Requests, AddRequest(r) PROVE IInv'
<1>. USE DEF IInv
<1>1. /\ phase = "idle" /\ r \in toCome /\ toCome' = toCome \ {r}
      /\ tokens' = [tokens EXCEPT ![r] = Prompt[r]]
      /\ waiting' = Append(waiting, r)
      /\ UNCHANGED <<computed, spec, running, finishedIds, specEnabled, pool, blocks,
                     cachedBlocks, phase, step, rollout>>
  BY DEF AddRequest, cacheVars
<1>2. /\ step = NoStep /\ \A q \in Requests : step.scheduled[q] = 0 /\ step.drafted[q] = 0
      /\ \A q \in Requests : q \in ToSet(running) => Behind(q)
  BY <1>1, IdleFacts
<1>3. tokens[r] = <<>> /\ r \notin ToSet(running) /\ r \notin ToSet(waiting)
  BY <1>1 DEF QueueInv
<1>4. /\ Append(waiting, r) \in Seq(Requests) /\ IsInjective(Append(waiting, r))
      /\ ToSet(Append(waiting, r)) = ToSet(waiting) \cup {r}
  BY <1>3, AppendFacts DEF TypeInv, QueueInv
<1>5. Prompt[r] \in Seq(Tokens) /\ Prompt[r] # <<>> /\ Len(Prompt[r]) \in Nat
  <2>1. Prompt[r] \in Seq(ToSet(Prompt[r])) /\ Prompt[r] # <<>>
    BY PromptAssumption
  <2>2. ToSet(Prompt[r]) \subseteq Tokens
    BY DEF Tokens
  <2>3. Prompt[r] \in Seq(Tokens)
    BY <2>1, <2>2, SeqMonotonic
  <2>. QED BY <2>1, <2>3
<1>6. /\ tokens \in [Requests -> Seq(Tokens)]
      /\ tokens'[r] = Prompt[r] /\ \A q \in Requests \ {r} : tokens'[q] = tokens[q]
  BY <1>1 DEF TypeInv
<1>7. blocks[r] = <<>>
  BY <1>3 DEF NotRunningInv
<1>8. TypeInv'
  <2>1. tokens' \in [Requests -> Seq(Tokens)]
    BY <1>1, <1>5, <1>6
  <2>. QED BY <1>1, <1>4, <2>1 DEF TypeInv
<1>9. QueueInv'
  <2>1. \A q \in Requests : tokens'[q] # <<>> <=> tokens[q] # <<>> \/ q = r
    BY <1>5, <1>6
  <2>2. \A q \in toCome : q \in Requests
    BY DEF TypeInv
  <2>. QED BY <1>1, <1>3, <1>4, <2>1, <2>2 DEF QueueInv
<1>10. NotRunningInv'
  <2>1. \A q \in Requests : q \notin ToSet(running) => computed[q] = 0
    BY <1>1, IdleFacts
  <2>. QED BY <1>1, <2>1 DEF NotRunningInv
<1>11. StepInv'
  BY <1>1 DEF StepInv
<1>12. PositionInv'
  <2>1. ASSUME NEW q \in Requests, q \in ToSet(running) PROVE Behind(q)'
    <3>1. q # r /\ Behind(q)
      BY <1>2, <1>3, <2>1
    <3>. QED BY <1>1, <1>6, <3>1 DEF Behind
  <2>. QED BY <1>1, <1>2, <2>1 DEF PositionInv, InBatch
<1>13. OutputInv'
  <2>1. ASSUME NEW q \in Requests, tokens'[q] # <<>> PROVE Len(Prompt[q]) <= Len(tokens'[q])
    BY <1>5, <1>6, <2>1 DEF OutputInv
  <2>2. ASSUME NEW q \in Requests, NEW n \in (Len(Prompt[q]) + 1)..Len(tokens'[q])
        PROVE  ~Stops(q, SubSeq(tokens'[q], 1, n))
    <3>1. CASE q = r
      <4>1. n \in (Len(Prompt[r]) + 1)..Len(Prompt[r])
        BY <1>6, <3>1
      <4>. QED BY <1>5, <4>1
    <3>2. CASE q # r
      BY <1>6, <3>2 DEF OutputInv, NothingAfterStop
    <3>. QED BY <3>1, <3>2
  <2>3. NothingAfterStop'
    BY <2>2 DEF NothingAfterStop, Stops
  <2>. QED BY <2>1, <2>3 DEF OutputInv
<1>14. AccountInv'
  BY <1>1 DEF AccountInv, Holders, Holds
<1>15. CacheInv'
  <2>1. ASSUME NEW q \in Requests, NEW i \in DOMAIN blocks[q]
        PROVE  IF i <= cachedBlocks[q]
                 THEN /\ i * BlockSize <= Len(tokens'[q])
                      /\ pool.hash[blocks[q][i]] = SubSeq(tokens'[q], 1, i * BlockSize)
                 ELSE pool.hash[blocks[q][i]] = NoHash
    <3>1. q # r
      BY <1>7
    <3>2. tokens'[q] = tokens[q]
      BY <1>6, <3>1
    <3>. QED BY <3>2 DEF CacheInv, CommittedBlocksAreCached
  <2>. QED BY <1>1, <2>1 DEF CacheInv, CommittedBlocksAreCached
<1>. QED BY <1>8, <1>9, <1>10, <1>11, <1>12, <1>13, <1>14, <1>15

\* An aborted request leaves its queue and gives its blocks back.
LEMMA FinishRequestKeeps ==
  ASSUME IInv, NEW r \in Requests, FinishRequest(r) PROVE IInv'
<1>. USE DEF IInv
<1>. DEFINE stay == Only(running, Requests \ {r})
            wait == Only(waiting, Requests \ {r})
<1>1. /\ phase = "idle" /\ tokens[r] # <<>>
      /\ running' = stay /\ waiting' = wait
      /\ tokens' = [tokens EXCEPT ![r] = <<>>]
      /\ computed' = [computed EXCEPT ![r] = 0]
      /\ spec' = [spec EXCEPT ![r] = 0]
      /\ finishedIds' = finishedIds \cup {r}
      /\ Free(r)
      /\ UNCHANGED <<specEnabled, phase, step, toCome, rollout>>
  BY DEF FinishRequest, rolloutVars
<1>2. /\ step = NoStep /\ \A q \in Requests : step.scheduled[q] = 0 /\ step.drafted[q] = 0
      /\ \A q \in Requests : q \in ToSet(running) => Behind(q)
      /\ \A q \in Requests : q \notin ToSet(running) => computed[q] = 0
  BY <1>1, IdleFacts
<1>3. /\ running \in Seq(Requests) /\ IsInjective(running)
      /\ waiting \in Seq(Requests) /\ IsInjective(waiting)
      /\ tokens \in [Requests -> Seq(Tokens)] /\ computed \in [Requests -> Nat]
  BY DEF TypeInv, QueueInv
<1>4. /\ stay \in Seq(Requests) /\ IsInjective(stay) /\ ToSet(stay) = ToSet(running) \ {r}
      /\ wait \in Seq(Requests) /\ IsInjective(wait) /\ ToSet(wait) = ToSet(waiting) \ {r}
  BY <1>3, WithoutFacts
<1>. HIDE DEF stay, wait
<1>5. /\ tokens'[r] = <<>> /\ computed'[r] = 0
      /\ \A q \in Requests \ {r} : tokens'[q] = tokens[q] /\ computed'[q] = computed[q]
  BY <1>1, <1>3
<1>6. /\ pool' \in Pools(Tokens)
      /\ blocks' \in [Requests -> Seq(Blocks)]
      /\ cachedBlocks' \in [Requests -> Nat]
      /\ blocks' = [blocks EXCEPT ![r] = <<>>]
      /\ cachedBlocks' = [cachedBlocks EXCEPT ![r] = 0]
      /\ AccountInv' /\ CacheInv'
  BY <1>1, <1>5, ReleaseAccounted
<1>7. /\ blocks'[r] = <<>> /\ cachedBlocks'[r] = 0
      /\ \A q \in Requests \ {r} : blocks'[q] = blocks[q] /\ cachedBlocks'[q] = cachedBlocks[q]
  BY <1>6 DEF TypeInv
<1>8. TypeInv'
  <2>1. tokens' \in [Requests -> Seq(Tokens)] /\ computed' \in [Requests -> Nat]
    BY <1>1, <1>3
  <2>2. spec' \in [Requests -> 0..Gamma]
    BY <1>1, Limits DEF TypeInv
  <2>. QED BY <1>1, <1>4, <1>6, <2>1, <2>2 DEF TypeInv
<1>9. QueueInv'
  <2>1. \A q \in Requests : tokens'[q] # <<>> <=> tokens[q] # <<>> /\ q # r
    BY <1>5
  <2>2. \A q \in toCome : q \in Requests
    BY DEF TypeInv
  <2>. QED BY <1>1, <1>4, <2>1, <2>2 DEF QueueInv
<1>10. NotRunningInv'
  <2>1. ASSUME NEW q \in Requests, q \notin ToSet(running')
        PROVE blocks'[q] = <<>> /\ cachedBlocks'[q] = 0 /\ ~(computed'[q] > 0)
    <3>1. CASE q = r
      BY <1>5, <1>7, <3>1
    <3>2. CASE q # r
      <4>1. q \notin ToSet(running)
        BY <1>1, <1>4, <2>1, <3>2
      <4>. QED BY <1>2, <1>5, <1>7, <3>2, <4>1 DEF NotRunningInv
    <3>. QED BY <3>1, <3>2
  <2>. QED BY <2>1 DEF NotRunningInv
<1>11. StepInv'
  BY <1>1, <1>2 DEF StepInv
<1>12. PositionInv'
  <2>1. ASSUME NEW q \in Requests, q \in ToSet(running') PROVE Behind(q)'
    <3>1. q # r /\ Behind(q)
      BY <1>1, <1>2, <1>4, <2>1
    <3>. QED BY <1>5, <1>7, <3>1 DEF Behind
  <2>. QED BY <1>1, <1>2, <2>1 DEF PositionInv, InBatch
<1>13. OutputInv'
  BY <1>1, OutputGone
<1>. QED BY <1>6, <1>8, <1>9, <1>10, <1>11, <1>12, <1>13

\* The prefix cache is reset when no request is left.
LEMMA SleepAndWakeUpKeeps == ASSUME IInv, SleepAndWakeUp PROVE IInv'
<1>. USE DEF IInv
<1>1. /\ phase = "idle" /\ running = <<>> /\ waiting = <<>>
      /\ rollout < Len(Batches) /\ rollout' = rollout + 1
      /\ toCome' = Batches[rollout + 1]
      /\ pool' = ResetPrefixCache(pool)
      /\ specEnabled' \in BOOLEAN
      /\ UNCHANGED <<tokens, computed, spec, running, waiting, finishedIds, blocks,
                     cachedBlocks, phase, step>>
  BY DEF SleepAndWakeUp, RolloutOver, requestVars, queueVars, TypeInv
<1>2. ToSet(running) = {} /\ ToSet(waiting) = {}
  BY <1>1 DEF ToSet
<1>3. \A q \in Requests : tokens[q] = <<>> /\ blocks[q] = <<>>
  BY <1>2 DEF QueueInv, NotRunningInv
<1>4. pool' \in Pools(Tokens) /\ pool'.free = pool.free /\ pool'.ref = pool.ref
  <2>1. pool \in Pools(Tokens)
    BY DEF TypeInv
  <2>2. CASE Len(pool.free) < NumBlocks
    BY <1>1, <2>1, <2>2 DEF ResetPrefixCache
  <2>3. CASE ~(Len(pool.free) < NumBlocks)
    <3>. DEFINE hash == [b \in Blocks |-> NoHash]
    <3>1. hash \in [Blocks -> Seq(Tokens)]
      BY DEF NoHash
    <3>2. pool' = [pool EXCEPT !.hash = hash]
      BY <1>1, <2>3 DEF ResetPrefixCache
    <3>. HIDE DEF hash
    <3>. QED BY <2>1, <3>1, <3>2 DEF Pools
  <2>. QED BY <2>2, <2>3
<1>5. rollout + 1 \in DOMAIN Batches /\ Batches[rollout + 1] \subseteq Requests
  <2>1. Batches \in Seq(SUBSET Requests) /\ rollout \in DOMAIN Batches
    BY BatchesAssumption DEF TypeInv
  <2>2. rollout + 1 \in DOMAIN Batches
    BY <1>1, <2>1
  <2>. QED BY <2>1, <2>2
<1>6. TypeInv'
  BY <1>1, <1>4, <1>5 DEF TypeInv
<1>7. QueueInv'
  <2>1. \A q \in toCome' : q \in Requests
    BY <1>1, <1>5
  <2>. QED BY <1>1, <1>3, <2>1 DEF QueueInv
<1>8. NotRunningInv'
  BY <1>1 DEF NotRunningInv
<1>9. StepInv'
  BY <1>1 DEF StepInv
<1>10. PositionInv'
  <2>1. \A q \in Requests : step.scheduled[q] = 0 /\ step.drafted[q] = 0
    BY <1>1, IdleFacts
  <2>. QED BY <1>1, <1>2, <2>1 DEF PositionInv, InBatch
<1>11. OutputInv'
  BY <1>1, OutputUnchanged
<1>12. AccountInv'
  <2>1. \A b \in Blocks : Holders(b)' = Holders(b) /\ Holders(b) = {}
    BY <1>1, <1>3 DEF Holders, Holds, ToSet
  <2>2. \A q \in Requests : IsInjective(blocks'[q])
    BY <1>1 DEF AccountInv
  <2>. HIDE DEF Holders
  <2>. QED BY <1>4, <2>1, <2>2 DEF AccountInv
<1>13. CacheInv'
  <2>1. \A q \in Requests : cachedBlocks'[q] <= Len(blocks'[q]) /\ DOMAIN blocks'[q] = {}
    BY <1>1, <1>3 DEF CacheInv
  <2>. QED BY <2>1 DEF CacheInv, CommittedBlocksAreCached
<1>. QED BY <1>6, <1>7, <1>8, <1>9, <1>10, <1>11, <1>12, <1>13

-------------------------------------------------------------------------------
(* The invariant, and what it says. *)

\* Every action keeps the invariant.
LEMMA NextKeeps == IInv /\ [Next]_schedulerVars => IInv'
<1>. SUFFICES ASSUME IInv, [Next]_schedulerVars PROVE IInv'
  OBVIOUS
<1>1. CASE StartStep
  BY <1>1, StartStepKeeps
<1>2. ASSUME NEW r \in Requests, ScheduleRunning(r) PROVE IInv'
  BY <1>2, ScheduleRunningKeeps
<1>3. ASSUME NEW r \in Requests, PreemptLast(r) PROVE IInv'
  BY <1>3, PreemptLastKeeps
<1>4. CASE RunningScheduled
  BY <1>4, RunningScheduledKeeps
<1>5. ASSUME waiting # <<>>, NEW found \in FindLongestCacheHit(pool, tokens[Head(waiting)]),
             AdmitWaiting(Head(waiting), found)
      PROVE  IInv'
  BY <1>5, AdmitWaitingKeeps
<1>6. CASE WaitingScheduled
  BY <1>6, WaitingScheduledKeeps
<1>7. CASE Forward
  BY <1>7, ForwardKeeps
<1>8. ASSUME NEW r \in Requests, PrefillContinues(r) PROVE IInv'
  BY <1>8, PrefillContinuesKeeps
<1>9. ASSUME NEW r \in Requests, NEW accepted, NEW new,
             RequestContinues(r, accepted, new) \/ RequestStops(r, accepted, new)
      PROVE  IInv'
  BY <1>9, RequestContinuesKeeps, RequestStopsKeeps
<1>10. CASE PostStep
  BY <1>10, PostStepKeeps
<1>11. ASSUME NEW r \in Requests, AddRequest(r) \/ FinishRequest(r) PROVE IInv'
  BY <1>11, AddRequestKeeps, FinishRequestKeeps
<1>12. CASE SleepAndWakeUp
  BY <1>12, SleepAndWakeUpKeeps
<1>13. CASE UNCHANGED schedulerVars
  <2>1. UNCHANGED <<tokens, computed, spec, waiting, running, finishedIds, specEnabled, pool,
                    blocks, cachedBlocks, phase, step, toCome, rollout>>
    BY <1>13 DEF schedulerVars, requestVars, queueVars, cacheVars, rolloutVars
  <2>2. TypeInv' /\ QueueInv' /\ NotRunningInv' /\ StepInv'
    BY <2>1 DEF IInv, TypeInv, QueueInv, NotRunningInv, StepInv
  <2>3. PositionInv'
    BY <2>1 DEF IInv, PositionInv, Computes, InBatch, Behind, MaxTotalTokens
  <2>. QED BY <2>1, <2>2, <2>3, CacheUnchanged, OutputUnchanged DEF IInv
<1>14. CASE EngineStep
  BY <1>1, <1>2, <1>3, <1>4, <1>5, <1>6, <1>7, <1>8, <1>9, <1>10, <1>14 DEF EngineStep
<1>. QED BY <1>11, <1>12, <1>13, <1>14 DEF Next

\* The inductive invariant holds in every state.
THEOREM Invariance == Spec => []IInv
<1>1. Init => IInv
  BY InitInv
<1>2. IInv /\ [Next]_schedulerVars => IInv'
  BY NextKeeps
<1>. QED BY <1>1, <1>2, PTL DEF Spec

\* More than one element is two different ones.
LEMMA MoreThanOne ==
  ASSUME NEW S, IsFiniteSet(S), Cardinality(S) > 1
  PROVE  \E x, y \in S : x # y
<1>1. S # {}
  <2>1. Cardinality({}) = 0
    BY FS_EmptySet
  <2>. QED BY <2>1
<1>2. PICK x \in S : TRUE
  BY <1>1
<1>3. S # {x}
  <2>1. Cardinality({x}) = 1
    BY FS_Singleton
  <2>. QED BY <2>1
<1>. QED BY <1>2, <1>3

\* No block is lost, and none is shared that is not in the prefix cache.
LEMMA AccountsAreRight == IInv => BlocksAccountedFor
<1>. SUFFICES ASSUME IInv PROVE BlocksAccountedFor
  OBVIOUS
<1>1. /\ \A b \in Blocks : pool.ref[b] = Cardinality(Holders(b))
      /\ \A b \in Blocks : b \in ToSet(pool.free) <=> Holders(b) = {}
      /\ IsInjective(pool.free)
      /\ \A r \in Requests : IsInjective(blocks[r])
      /\ \A b \in Blocks : \A q, r \in Holders(b) : q # r => pool.hash[b] # NoHash
  BY DEF IInv, AccountInv
<1>2. ToSet(pool.free) \subseteq Blocks
  BY DEF IInv, TypeInv, Pools, ToSet
<1>3. ToSet(pool.free) = {b \in Blocks : Holders(b) = {}}
  BY <1>1, <1>2
<1>4. ASSUME NEW b \in Blocks, Cardinality(Holders(b)) > 1 PROVE pool.hash[b] # NoHash
  <2>. DEFINE S == Holders(b)
  <2>1. IsFiniteSet(S) /\ Cardinality(S) > 1
    BY <1>4, Counted DEF IInv
  <2>. HIDE DEF S
  <2>2. PICK x \in S, y \in S : x # y
    BY <2>1, MoreThanOne
  <2>. QED BY <1>1, <2>2 DEF S
<1>. QED BY <1>1, <1>3, <1>4 DEF BlocksAccountedFor, Holders, Holds

\* Every block is held by the requests it is counted for, or free, and no two requests
\* share one that is not committed (KVCacheManager and BlockPool).
THEOREM AccountsCorrect == Spec => []BlocksAccountedFor
BY Invariance, AccountsAreRight, PTL

\* The blocks other requests can find are the committed ones of their holder.
THEOREM CacheCorrect == Spec => []CommittedBlocksAreCached
<1>1. IInv => CommittedBlocksAreCached
  BY DEF IInv, CacheInv
<1>. QED BY <1>1, Invariance, PTL

\* Between two steps a running request has something to compute, and blocks for what it
\* has computed.
THEOREM ComputedCorrect == Spec => []ComputedIsBehind
<1>1. IInv => ComputedIsBehind
  <2>. SUFFICES ASSUME IInv, phase = "idle", NEW r \in ToSet(running) PROVE Behind(r)
    BY DEF ComputedIsBehind, Behind
  <2>1. r \in Requests
    BY DEF IInv, TypeInv, ToSet
  <2>. QED BY <2>1, IdleFacts
<1>. QED BY <1>1, Invariance, PTL

\* A step computes before the last position of a request, in its blocks, and verifies what
\* directly follows its tokens.
THEOREM PositionsCorrect == Spec => []PositionsAreInBounds
<1>1. IInv => PositionsAreInBounds
  <2>. SUFFICES ASSUME IInv, phase = "forward", NEW r \in Requests, step.scheduled[r] > 0
                PROVE  /\ computed[r] + step.scheduled[r] < MaxTotalTokens(r)
                       /\ computed[r] + step.scheduled[r] <= Len(blocks[r]) * BlockSize
                       /\ step.drafted[r] > 0 =>
                            computed[r] + step.scheduled[r] = Len(tokens[r]) + step.drafted[r]
    BY DEF PositionsAreInBounds
  <2>. QED BY DEF IInv, PositionInv, Computes
<1>. QED BY <1>1, Invariance, PTL

\* An output ends with the first token that stops it.
THEOREM OutputCorrect == Spec => []NothingAfterStop
<1>1. IInv => NothingAfterStop
  BY DEF IInv, OutputInv
<1>. QED BY <1>1, Invariance, PTL

-------------------------------------------------------------------------------
(* First come, first served. *)

\* What is kept of a queue keeps its order.
LEMMA OnlyKeepsOrder ==
  ASSUME NEW T, NEW s \in Seq(T), NEW S, NEW q \in S, NEW r \in S, Before(s, q, r)
  PROVE  Before(Only(s, S), q, r)
<1>. DEFINE kept == Only(s, S)
<1>1. PICK at : Places(s, S, kept, at)
  BY OnlyPlaces
<1>2. kept \in Seq(T)
  BY OnlyPlaces
<1>. HIDE DEF kept
<1>3. PICK i \in DOMAIN s, j \in DOMAIN s : i < j /\ s[i] = q /\ s[j] = r
  BY DEF Before
<1>4. PICK m \in DOMAIN kept, n \in DOMAIN kept : at[m] = i /\ at[n] = j
  BY <1>1, <1>3 DEF Places
<1>5. kept[m] = q /\ kept[n] = r
  BY <1>1, <1>3, <1>4 DEF Places
<1>6. m < n
  <2>1. m \in Nat /\ n \in Nat /\ i \in Nat /\ j \in Nat
    BY <1>2, <1>3, <1>4
  <2>2. m # n
    BY <1>3, <1>4, <2>1
  <2>3. ~(n < m)
    <3>1. n < m => j < i
      BY <1>1, <1>4 DEF Places
    <3>. QED BY <1>3, <2>1, <3>1
  <2>. QED BY <2>1, <2>2, <2>3
<1>7. Before(kept, q, r)
  BY <1>5, <1>6 DEF Before
<1>. QED BY <1>7 DEF kept

\* The order in a concatenation.
LEMMA BeforeInConcat ==
  ASSUME NEW T, NEW s \in Seq(T), NEW t \in Seq(T), NEW q, NEW r
  PROVE  Before(s \o t, q, r) <=>
           \/ Before(s, q, r) \/ Before(t, q, r)
           \/ q \in ToSet(s) /\ r \in ToSet(t)
<1>. DEFINE st == s \o t
            k == Len(s)
            l == Len(t)
<1>1. /\ st \in Seq(T) /\ Len(st) = k + l /\ k \in Nat /\ l \in Nat
      /\ \A i \in 1..(k + l) : st[i] = IF i <= k THEN s[i] ELSE t[i - k]
  BY ConcatProperties
<1>2. DOMAIN s = 1..k /\ DOMAIN t = 1..l /\ DOMAIN st = 1..(k + l)
  BY <1>1
<1>. HIDE DEF st, k, l
<1>3. ASSUME Before(st, q, r)
      PROVE  Before(s, q, r) \/ Before(t, q, r) \/ (q \in ToSet(s) /\ r \in ToSet(t))
  <2>1. PICK i \in 1..(k + l), j \in 1..(k + l) : i < j /\ st[i] = q /\ st[j] = r
    BY <1>2, <1>3 DEF Before
  <2>2. CASE j <= k
    <3>1. i \in 1..k /\ j \in 1..k
      BY <1>1, <2>1, <2>2
    <3>2. s[i] = q /\ s[j] = r
      BY <1>1, <2>1, <3>1
    <3>. QED BY <1>2, <2>1, <3>1, <3>2 DEF Before
  <2>3. CASE i > k
    <3>1. i - k \in 1..l /\ j - k \in 1..l /\ i - k < j - k /\ ~(i <= k) /\ ~(j <= k)
      BY <1>1, <2>1, <2>3
    <3>2. t[i - k] = q /\ t[j - k] = r
      BY <1>1, <2>1, <3>1
    <3>. QED BY <1>2, <3>1, <3>2 DEF Before
  <2>4. CASE i <= k /\ j > k
    <3>1. i \in 1..k /\ j - k \in 1..l /\ ~(j <= k)
      BY <1>1, <2>1, <2>4
    <3>2. s[i] = q /\ t[j - k] = r
      BY <1>1, <2>1, <2>4, <3>1
    <3>. QED BY <1>2, <3>1, <3>2 DEF ToSet
  <2>. QED BY <1>1, <2>1, <2>2, <2>3, <2>4
<1>4. ASSUME Before(s, q, r) PROVE Before(st, q, r)
  <2>1. PICK i \in 1..k, j \in 1..k : i < j /\ s[i] = q /\ s[j] = r
    BY <1>2, <1>4 DEF Before
  <2>2. i \in 1..(k + l) /\ j \in 1..(k + l) /\ i <= k /\ j <= k
    BY <1>1, <2>1
  <2>3. st[i] = q /\ st[j] = r
    BY <1>1, <2>1, <2>2
  <2>. QED BY <1>2, <2>1, <2>2, <2>3 DEF Before
<1>5. ASSUME Before(t, q, r) PROVE Before(st, q, r)
  <2>1. PICK i \in 1..l, j \in 1..l : i < j /\ t[i] = q /\ t[j] = r
    BY <1>2, <1>5 DEF Before
  <2>2. /\ i + k \in 1..(k + l) /\ j + k \in 1..(k + l) /\ i + k < j + k
        /\ ~(i + k <= k) /\ ~(j + k <= k) /\ (i + k) - k = i /\ (j + k) - k = j
    BY <1>1, <2>1
  <2>3. st[i + k] = q /\ st[j + k] = r
    BY <1>1, <2>1, <2>2
  <2>. QED BY <1>2, <2>2, <2>3 DEF Before
<1>6. ASSUME q \in ToSet(s), r \in ToSet(t) PROVE Before(st, q, r)
  <2>1. PICK i \in 1..k, j \in 1..l : s[i] = q /\ t[j] = r
    BY <1>2, <1>6 DEF ToSet
  <2>2. /\ i \in 1..(k + l) /\ j + k \in 1..(k + l) /\ i < j + k
        /\ i <= k /\ ~(j + k <= k) /\ (j + k) - k = j
    BY <1>1, <2>1
  <2>3. st[i] = q /\ st[j + k] = r
    BY <1>1, <2>1, <2>2
  <2>. QED BY <1>2, <2>2, <2>3 DEF Before
<1>. QED BY <1>3, <1>4, <1>5, <1>6 DEF st

\* What the order is kept of.
OrderKept ==
  \A q, r \in Requests :
    Before(Line, q, r) /\ {q, r} \subseteq ToSet(Line') => Before(Line, q, r)'

\* Moving the last running request to the front of those waiting keeps the line.
LEMMA PreemptionKeepsLine ==
  ASSUME NEW s \in Seq(Requests), NEW t \in Seq(Requests), s # <<>>
  PROVE  Front(s) \o (<<Last(s)>> \o t) = s \o t
<1>. DEFINE f == Front(s)
            last == <<Last(s)>>
            n == Len(s)
<1>1. n \in Nat /\ n > 0 /\ 1 \in 1..n /\ n \in 1..n
  BY EmptySeq
<1>2. SubSeq(s, 1, n) = SubSeq(s, 1, n - 1) \o <<s[n]>>
  BY <1>1, SubSeqRecursiveSecond
<1>3. SubSeq(s, 1, n) = s
  BY SubSeqFull
<1>4. s = f \o last
  BY <1>2, <1>3 DEF Front, Last
<1>5. s[n] \in Requests
  BY <1>1
<1>6. f \in Seq(Requests) /\ last \in Seq(Requests)
  <2>1. f \in Seq(Requests)
    BY <1>1 DEF Front
  <2>2. last \in Seq(Requests)
    BY <1>5 DEF Last
  <2>. QED BY <2>1, <2>2
<1>. HIDE DEF f, last
<1>7. (f \o last) \o t = f \o (last \o t)
  <2>1. f \in Seq(Requests) /\ last \in Seq(Requests) /\ t \in Seq(Requests)
    BY <1>6
  <2>. QED BY ONLY <2>1, ConcatAssociative, SMTT(60)
<1>. QED BY <1>4, <1>7 DEF f, last

\* Admitting the first of those waiting keeps the line.
LEMMA AdmissionKeepsLine ==
  ASSUME NEW s \in Seq(Requests), NEW t \in Seq(Requests), t # <<>>
  PROVE  Append(s, Head(t)) \o Tail(t) = s \o t
<1>. DEFINE first == <<Head(t)>>
            rest == Tail(t)
<1>1. Head(t) \in Requests /\ rest \in Seq(Requests)
  BY HeadTailProperties
<1>2. first \in Seq(Requests) /\ Append(s, Head(t)) = s \o first
  BY <1>1
<1>3. t = first \o rest
  <2>1. Len(t) \in Nat /\ Len(t) > 0 /\ 1 \in 1..Len(t) /\ Len(t) \in 1..Len(t)
    BY EmptySeq
  <2>2. SubSeq(t, 1, Len(t)) = <<t[1]>> \o SubSeq(t, 1 + 1, Len(t))
    BY <2>1, SubSeqRecursiveFirst
  <2>3. SubSeq(t, 1, Len(t)) = t
    BY SubSeqFull
  <2>4. Tail(t) = SubSeq(t, 2, Len(t)) /\ Head(t) = t[1]
    BY TailIsSubSeq
  <2>5. 1 + 1 = 2
    OBVIOUS
  <2>. QED BY <2>2, <2>3, <2>4, <2>5
<1>. HIDE DEF first, rest
<1>4. (s \o first) \o rest = s \o (first \o rest)
  <2>1. s \in Seq(Requests) /\ first \in Seq(Requests) /\ rest \in Seq(Requests)
    BY <1>1, <1>2
  <2>. QED BY ONLY <2>1, ConcatAssociative, SMTT(60)
<1>. QED BY <1>2, <1>3, <1>4 DEF rest

\* A line that stays, or gets one more at its end, keeps its order.
LEMMA SameLine == ASSUME Line' = Line PROVE OrderKept
BY DEF OrderKept, Before

\* Those who stay when a request leaves both queues keep their order.
LEMMA LeavingKeepsOrder ==
  ASSUME IInv, NEW x \in Requests,
         running' = Only(running, Requests \ {x}),
         waiting' = Only(waiting, Requests \ {x}) \/ (waiting' = waiting /\ x \notin ToSet(waiting))
  PROVE  OrderKept
<1>1. /\ running \in Seq(Requests) /\ waiting \in Seq(Requests)
      /\ IsInjective(running) /\ IsInjective(waiting)
  BY DEF IInv, TypeInv, QueueInv
<1>2. running' \in Seq(Requests) /\ ToSet(running') = ToSet(running) \ {x}
  BY <1>1, WithoutFacts
<1>3. waiting' \in Seq(Requests) /\ ToSet(waiting') = ToSet(waiting) \ {x}
  <2>1. CASE waiting' = Only(waiting, Requests \ {x})
    BY <1>1, <2>1, WithoutFacts
  <2>2. CASE waiting' = waiting /\ x \notin ToSet(waiting)
    BY <1>1, <2>2
  <2>. QED BY <2>1, <2>2
<1>. SUFFICES ASSUME NEW q \in Requests, NEW r \in Requests,
                     Before(Line, q, r), {q, r} \subseteq ToSet(Line')
              PROVE  Before(Line', q, r)
  BY DEF OrderKept
<1>4. q # x /\ r # x
  <2>1. ToSet(running' \o waiting') = ToSet(running') \cup ToSet(waiting')
    BY <1>2, <1>3, ConcatInjective
  <2>. QED BY <1>2, <1>3, <2>1 DEF Line
<1>5. \/ Before(running, q, r) \/ Before(waiting, q, r)
      \/ q \in ToSet(running) /\ r \in ToSet(waiting)
  BY <1>1, BeforeInConcat DEF Line
<1>6. \/ Before(running', q, r) \/ Before(waiting', q, r)
      \/ q \in ToSet(running') /\ r \in ToSet(waiting')
  <2>. DEFINE S == Requests \ {x}
  <2>1. q \in S /\ r \in S
    BY <1>4
  <2>. HIDE DEF S
  <2>2. ASSUME Before(running, q, r) PROVE Before(running', q, r)
    <3>1. Before(Only(running, S), q, r)
      BY <1>1, <2>1, <2>2, OnlyKeepsOrder
    <3>. QED BY <3>1 DEF S
  <2>3. ASSUME Before(waiting, q, r) PROVE Before(waiting', q, r)
    <3>1. Before(Only(waiting, S), q, r)
      BY <1>1, <2>1, <2>3, OnlyKeepsOrder
    <3>. QED BY <2>3, <3>1 DEF S
  <2>4. ASSUME q \in ToSet(running), r \in ToSet(waiting)
        PROVE  q \in ToSet(running') /\ r \in ToSet(waiting')
    BY <1>2, <1>3, <1>4, <2>4
  <2>. QED BY <1>5, <2>2, <2>3, <2>4
<1>. QED BY <1>2, <1>3, <1>6, BeforeInConcat DEF Line

\* Every step keeps the order of the line.
LEMMA StepKeepsOrder == IInv /\ [Next]_schedulerVars => OrderKept
<1>. SUFFICES ASSUME IInv, [Next]_schedulerVars PROVE OrderKept
  OBVIOUS
<1>1. /\ running \in Seq(Requests) /\ waiting \in Seq(Requests)
      /\ IsInjective(running) /\ IsInjective(waiting)
  BY DEF IInv, TypeInv, QueueInv
<1>2. CASE UNCHANGED queueVars
  BY <1>2, SameLine DEF Line, queueVars
<1>3. ASSUME NEW r \in Requests, PreemptLast(r) PROVE OrderKept
  <2>1. running' = Front(running) /\ waiting' = <<Last(running)>> \o waiting
    BY <1>3 DEF PreemptLast
  <2>2. running # <<>>
    <3>1. step.index \in Nat /\ step.index > 0
      BY DEF IInv, TypeInv, Steps
    <3>2. step.index <= Len(running)
      BY <1>3 DEF PreemptLast, AtRunning
    <3>. QED BY <1>1, <3>1, <3>2
  <2>3. Line' = Line
    BY <1>1, <2>1, <2>2, PreemptionKeepsLine DEF Line
  <2>. QED BY <2>3, SameLine
<1>4. ASSUME waiting # <<>>, NEW found, AdmitWaiting(Head(waiting), found) PROVE OrderKept
  <2>1. running' = Append(running, Head(waiting)) /\ waiting' = Tail(waiting)
    BY <1>4 DEF AdmitWaiting
  <2>2. Line' = Line
    BY <1>1, <1>4, <2>1, AdmissionKeepsLine DEF Line
  <2>. QED BY <2>2, SameLine
<1>5. ASSUME NEW r \in Requests, NEW accepted, NEW new, RequestStops(r, accepted, new)
      PROVE  OrderKept
  <2>1. running' = Only(running, Requests \ {r}) /\ waiting' = waiting /\ AtBatch(r)
    BY <1>5 DEF RequestStops, Generated
  <2>2. r \notin ToSet(waiting)
    BY <2>1, AtBatchFacts
  <2>. QED BY <2>1, <2>2, LeavingKeepsOrder
<1>6. ASSUME NEW r \in Requests, FinishRequest(r) PROVE OrderKept
  <2>1. running' = Only(running, Requests \ {r}) /\ waiting' = Only(waiting, Requests \ {r})
    BY <1>6 DEF FinishRequest
  <2>. QED BY <2>1, LeavingKeepsOrder
<1>7. ASSUME NEW r \in Requests, AddRequest(r) PROVE OrderKept
  <2>1. running' = running /\ waiting' = Append(waiting, r)
    BY <1>7 DEF AddRequest
  <2>. DEFINE one == <<r>>
  <2>2. waiting' = waiting \o one /\ one \in Seq(Requests)
    BY <1>1, <2>1
  <2>. HIDE DEF one
  <2>3. waiting' \in Seq(Requests) /\ \A p \in ToSet(waiting) : p \in ToSet(waiting')
    <3>1. waiting \o one \in Seq(Requests) /\ ToSet(waiting \o one) = ToSet(waiting) \cup ToSet(one)
      BY <1>1, <2>2, ConcatInjective
    <3>. QED BY <2>2, <3>1
  <2>4. ASSUME NEW p \in Requests, NEW q \in Requests, Before(Line, p, q) PROVE Before(Line', p, q)
    <3>1. \/ Before(running, p, q) \/ Before(waiting, p, q)
          \/ p \in ToSet(running) /\ q \in ToSet(waiting)
      BY <1>1, <2>4, BeforeInConcat DEF Line
    <3>2. Before(waiting, p, q) => Before(waiting', p, q)
      BY <1>1, <2>2, BeforeInConcat
    <3>3. \/ Before(running, p, q) \/ Before(waiting', p, q)
          \/ p \in ToSet(running) /\ q \in ToSet(waiting')
      BY <2>3, <3>1, <3>2
    <3>4. Before(running \o waiting', p, q)
      BY <1>1, <2>3, <3>3, BeforeInConcat
    <3>. QED BY <2>1, <3>4 DEF Line
  <2>. QED BY <2>4 DEF OrderKept
<1>8. CASE EngineStep
  <2>1. CASE \/ StartStep \/ RunningScheduled \/ WaitingScheduled \/ Forward \/ PostStep
    BY <1>2, <2>1 DEF StartStep, RunningScheduled, WaitingScheduled, Forward, PostStep
  <2>2. ASSUME NEW r \in Requests, NEW accepted, NEW new,
               ScheduleRunning(r) \/ PrefillContinues(r) \/ RequestContinues(r, accepted, new)
        PROVE  OrderKept
    BY <1>2, <2>2 DEF ScheduleRunning, PrefillContinues, RequestContinues
  <2>. QED BY <1>3, <1>4, <1>5, <1>8, <2>1, <2>2 DEF EngineStep
<1>9. CASE SleepAndWakeUp
  BY <1>2, <1>9 DEF SleepAndWakeUp
<1>10. CASE UNCHANGED schedulerVars
  BY <1>2, <1>10 DEF schedulerVars
<1>. QED BY <1>6, <1>7, <1>8, <1>9, <1>10 DEF Next

\* First come, first served: no step puts a request before one that was before it, be it
\* preempted, resumed, added or taken out.
THEOREM OrderCorrect == Spec => OrderIsKept
<1>1. IInv /\ [Next]_schedulerVars => [OrderKept]_schedulerVars
  BY StepKeepsOrder
<1>2. [][OrderKept]_schedulerVars => OrderIsKept
  BY PTL DEF OrderIsKept, OrderKept
<1>. QED BY <1>1, <1>2, Invariance, PTL DEF Spec

-------------------------------------------------------------------------------
(* Progress: the oldest running request. *)

\* A request that runs alone holds all blocks that are not free.
LEMMA AloneHasAll ==
  ASSUME IInv, NEW r \in Requests, ToSet(running) \subseteq {r}
  PROVE  Len(pool.free) + Len(blocks[r]) = NumBlocks
<1>. DEFINE F == ToSet(pool.free)
            M == ToSet(blocks[r])
<1>1. /\ pool.free \in Seq(Blocks) /\ IsInjective(pool.free)
      /\ blocks[r] \in Seq(Blocks) /\ IsInjective(blocks[r])
  BY DEF IInv, TypeInv, Pools, AccountInv
<1>2. /\ IsFiniteSet(F) /\ Cardinality(F) = Len(pool.free)
      /\ IsFiniteSet(M) /\ Cardinality(M) = Len(blocks[r])
  BY <1>1, InjectiveLength
<1>3. \A b \in Blocks : Holders(b) = IF b \in M THEN {r} ELSE {}
  <2>. SUFFICES ASSUME NEW b \in Blocks PROVE Holders(b) = IF b \in M THEN {r} ELSE {}
    OBVIOUS
  <2>1. \A q \in Requests : Holds(q, b) => q = r
    <3>. SUFFICES ASSUME NEW q \in Requests, q # r PROVE ~Holds(q, b)
      OBVIOUS
    <3>1. blocks[q] = <<>>
      BY DEF IInv, NotRunningInv
    <3>. QED BY <3>1 DEF Holds, ToSet
  <2>2. Holds(r, b) <=> b \in M
    BY DEF Holds
  <2>. QED BY <2>1, <2>2 DEF Holders
<1>4. F \cap M = {} /\ F \cup M = Blocks
  <2>1. F \subseteq Blocks /\ M \subseteq Blocks
    BY <1>1 DEF ToSet
  <2>2. \A b \in Blocks : b \in F <=> b \notin M
    BY <1>3 DEF IInv, AccountInv
  <2>. HIDE DEF F, M
  <2>. QED BY <2>1, <2>2
<1>. HIDE DEF F, M
<1>5. Cardinality(F \cup M) = Cardinality(F) + Cardinality(M) - Cardinality(F \cap M)
  BY <1>2, FS_Union
<1>6. Cardinality(F \cap M) = 0
  BY <1>4, FS_EmptySet
<1>7. Cardinality(Blocks) = NumBlocks
  <2>1. Cardinality(1..NumBlocks) = IF 1 > NumBlocks THEN 0 ELSE NumBlocks - 1 + 1
    BY Limits, FS_Interval
  <2>. QED BY <2>1, Limits DEF Blocks
<1>. DEFINE f == Cardinality(F)
            m == Cardinality(M)
<1>8. f \in Nat /\ m \in Nat
  BY <1>2, FS_CardinalityType
<1>9. f + m - 0 = NumBlocks
  BY <1>4, <1>5, <1>6, <1>7
<1>. HIDE DEF f, m
<1>10. f + m = NumBlocks
  BY <1>8, <1>9
<1>. QED BY <1>2, <1>10 DEF f, m

\* Its own blocks and the free ones are enough for any request that runs alone.
LEMMA AloneHasRoom ==
  ASSUME IInv, NEW r \in Requests, ToSet(running) \subseteq {r},
         NEW n \in Nat, NEW lookahead \in Nat
  PROVE  HasRoom(r, <<>>, n, lookahead)
<1>. DEFINE need == NeedSlot(r, <<>>, n, lookahead)
            a == computed[r] + Len(<<>>) * BlockSize + n + lookahead
            E == {i \in DOMAIN <<>> : pool.ref[<<>>[i]] = 0}
<1>1. computed[r] \in Nat /\ blocks[r] \in Seq(Blocks) /\ pool.free \in Seq(Blocks)
  BY DEF IInv, TypeInv, Pools
<1>2. a \in Nat
  <2>1. Len(<<>>) * BlockSize = 0
    BY Limits
  <2>. QED BY <1>1, <2>1
<1>3. need = Min({a, MaxModelLen})
  BY DEF NeedSlot
<1>. HIDE DEF a
<1>4. need \in Nat /\ need <= MaxModelLen
  <2>1. need = IF a <= MaxModelLen THEN a ELSE MaxModelLen
    BY <1>2, <1>3, Limits, MinOfTwo
  <2>. HIDE DEF need
  <2>. QED BY <1>2, <2>1, Limits
<1>. HIDE DEF need
<1>5. BlocksFor(need) \in Nat /\ BlocksFor(need) <= NumBlocks
  <2>. DEFINE all == NumBlocks * BlockSize
  <2>1. all \in Nat /\ MaxModelLen <= all
    BY Limits, RoomGrows, CapacityAssumption
  <2>. HIDE DEF all
  <2>2. need <= all
    BY <1>4, <2>1, Limits
  <2>3. need <= NumBlocks * BlockSize
    BY <2>2 DEF all
  <2>. QED BY <1>4, <2>3, Limits, BlocksForFacts
<1>6. Len(pool.free) + Len(blocks[r]) = NumBlocks
  BY AloneHasAll
<1>7. Cardinality(E) = 0
  <2>1. E = {}
    OBVIOUS
  <2>. QED BY <2>1, FS_EmptySet
<1>8. Len(<<>>) = 0 /\ Len(blocks[r]) \in Nat /\ Len(pool.free) \in Nat
  BY <1>1
<1>9. HasRoom(r, <<>>, n, lookahead) <=>
        BlocksFor(need) - Len(<<>>) - Len(blocks[r]) + Cardinality(E) <= Len(pool.free)
  BY DEF HasRoom, need
<1>. DEFINE k == BlocksFor(need)
            own == Len(blocks[r])
            free == Len(pool.free)
            zero == Len(<<>>)
            c == Cardinality(E)
<1>10. /\ k \in Nat /\ own \in Nat /\ free \in Nat /\ zero = 0 /\ c = 0
       /\ k <= NumBlocks /\ free + own = NumBlocks /\ NumBlocks \in Nat
  BY <1>5, <1>6, <1>7, <1>8, Limits
<1>11. HasRoom(r, <<>>, n, lookahead) <=> k - zero - own + c <= free
  BY <1>9
<1>. HIDE DEF k, own, free, zero, c
<1>12. k - zero - own + c <= free
  BY <1>10
<1>. QED BY <1>11, <1>12

\* What a step may do to the running queue while it is scheduled.
OldestStays ==
  phase = "running" /\ running # <<>> => running' # <<>> /\ Head(running') = Head(running)

\* Only a request that does not run alone is preempted.
LEMMA PreemptionSparesOldest ==
  ASSUME IInv, NEW r \in Requests, PreemptLast(r) PROVE OldestStays
<1>1. /\ AtRunning(r) /\ NumNewTokens(r) > 0
      /\ ~HasRoom(r, <<>>, NumNewTokens(r), NumLookaheadTokens)
      /\ running' = Front(running)
  BY DEF PreemptLast
<1>2. running \in Seq(Requests) /\ step.index \in Nat /\ step.index > 0
  BY DEF IInv, TypeInv, Steps
<1>3. step.index <= Len(running) /\ r = running[step.index]
  BY <1>1 DEF AtRunning
<1>4. NumNewTokens(r) \in Nat /\ NumLookaheadTokens \in Nat
  BY <1>1, NumNewTokensFacts, Limits DEF NumLookaheadTokens
<1>5. Len(running) # 1
  <2>. SUFFICES ASSUME Len(running) = 1 PROVE FALSE
    OBVIOUS
  <2>1. step.index = 1 /\ DOMAIN running = 1..1
    BY <1>2, <1>3
  <2>2. ToSet(running) \subseteq {r}
    BY <1>3, <2>1 DEF ToSet
  <2>. QED BY <1>1, <1>4, <2>2, AloneHasRoom
<1>6. Len(running) \in Nat /\ Len(running) > 1
  <2>. DEFINE len == Len(running)
  <2>1. len \in Nat /\ len # 1 /\ step.index <= len
    BY <1>2, <1>3, <1>5
  <2>. HIDE DEF len
  <2>2. len > 1
    BY <1>2, <2>1
  <2>. QED BY <2>1, <2>2 DEF len
<1>7. /\ Len(Front(running)) = Len(running) - 1 /\ Front(running) \in Seq(Requests)
      /\ Front(running)[1] = running[1]
  <2>1. Len(running) - 1 \in Nat /\ 1 <= Len(running) - 1 /\ Len(running) - 1 <= Len(running)
    BY <1>6
  <2>. QED BY <1>2, <2>1 DEF Front
<1>8. Front(running) # <<>>
  BY <1>6, <1>7
<1>9. running # <<>> /\ Head(running) = running[1] /\ Head(Front(running)) = Front(running)[1]
  BY <1>2, <1>6, <1>7, <1>8
<1>. QED BY <1>1, <1>7, <1>8, <1>9 DEF OldestStays

\* The oldest running request is never the one that is preempted: alone, it has all
\* blocks, and the cache holds the longest request.
THEOREM OldestCorrect == Spec => OldestIsNotPreempted
<1>1. IInv /\ [Next]_schedulerVars => [OldestStays]_schedulerVars
  <2>. SUFFICES ASSUME IInv, Next PROVE OldestStays
    OBVIOUS
  <2>1. CASE phase # "running" \/ running' = running
    BY <2>1 DEF OldestStays
  <2>2. CASE \E r \in Requests : PreemptLast(r)
    BY <2>2, PreemptionSparesOldest
  <2>3. ASSUME phase = "running", \A r \in Requests : ~PreemptLast(r) PROVE running' = running
    <3>1. CASE EngineStep
      <4>1. \A r \in Requests : ~PrefillContinues(r)
        BY <2>3 DEF PrefillContinues, AtBatch
      <4>2. \A r \in Requests : \A accepted, new :
              ~RequestContinues(r, accepted, new) /\ ~RequestStops(r, accepted, new)
        BY <2>3 DEF RequestContinues, RequestStops, Generated, AtBatch
      <4>3. \A r, found : ~AdmitWaiting(r, found)
        BY <2>3 DEF AdmitWaiting
      <4>4. ~StartStep /\ ~WaitingScheduled /\ ~Forward /\ ~PostStep
        BY <2>3 DEF StartStep, WaitingScheduled, Forward, PostStep
      <4>5. RunningScheduled => running' = running
        BY DEF RunningScheduled, queueVars
      <4>6. \A r \in Requests : ScheduleRunning(r) => running' = running
        BY DEF ScheduleRunning, queueVars
      <4>. QED BY <2>3, <3>1, <4>1, <4>2, <4>3, <4>4, <4>5, <4>6 DEF EngineStep
    <3>2. \A r \in Requests : ~AddRequest(r) /\ ~FinishRequest(r)
      BY <2>3 DEF AddRequest, FinishRequest
    <3>3. ~SleepAndWakeUp
      BY <2>3 DEF SleepAndWakeUp, RolloutOver
    <3>. QED BY <3>1, <3>2, <3>3 DEF Next
  <2>. QED BY <2>1, <2>2, <2>3
<1>2. [][OldestStays]_schedulerVars => OldestIsNotPreempted
  BY PTL DEF OldestIsNotPreempted, OldestStays
<1>. QED BY <1>1, <1>2, Invariance, PTL DEF Spec

-------------------------------------------------------------------------------
(* The bounds of the numbers. *)

BoundsInv ==
  /\ \A r \in Requests : computed[r] <= MaxModelLen
  /\ step.budget <= MaxNumBatchedTokens
  /\ \A r \in Requests : step.scheduled[r] <= MaxNumBatchedTokens

\* What is running, or between steps, has not computed more than the model's length.
ComputedInBounds ==
  \A r \in Requests :
    phase # "update" \/ r \in ToSet(running) => computed[r] <= MaxModelLen

LEMMA ComputedBounded == IInv => ComputedInBounds
<1>. SUFFICES ASSUME IInv, NEW r \in Requests, phase # "update" \/ r \in ToSet(running)
              PROVE  computed[r] <= MaxModelLen
  BY DEF ComputedInBounds
<1>1. computed[r] \in Nat
  BY DEF IInv, TypeInv
<1>2. CASE r \in ToSet(running)
  <2>1. tokens[r] # <<>>
    BY <1>2 DEF IInv, QueueInv
  <2>2. /\ Len(tokens[r]) \in Nat /\ Len(tokens[r]) < MaxTotalTokens(r)
        /\ MaxTotalTokens(r) \in Nat /\ MaxTotalTokens(r) <= MaxModelLen
    BY <2>1, NotStopped DEF IInv
  <2>3. computed[r] < MaxTotalTokens(r) \/ computed[r] < Len(tokens[r])
    BY <1>2 DEF IInv, PositionInv, Computes, Behind
  <2>. QED BY <1>1, <2>2, <2>3, Limits
<1>3. CASE r \notin ToSet(running)
  <2>1. ~(computed[r] > 0)
    BY <1>3 DEF IInv, NotRunningInv
  <2>. QED BY <1>1, <2>1, Limits
<1>. QED BY <1>2, <1>3

\* What a step that keeps or lowers the rest does to the bounds.
LEMMA BoundsStay ==
  ASSUME BoundsInv, \A r \in Requests : computed'[r] <= MaxModelLen,
         step'.budget = step.budget, step'.scheduled = step.scheduled
  PROVE  BoundsInv'
BY DEF BoundsInv

\* Each step keeps the numbers within their bounds.
LEMMA StepKeepsBounds == IInv /\ BoundsInv /\ [Next]_schedulerVars => BoundsInv'
<1>. SUFFICES ASSUME IInv, BoundsInv, [Next]_schedulerVars PROVE BoundsInv'
  OBVIOUS
<1>1. IInv' /\ ComputedInBounds /\ ComputedInBounds'
  <2>1. IInv'
    BY NextKeeps
  <2>2. ComputedInBounds
    BY ComputedBounded
  <2>3. IInv' => ComputedInBounds'
    BY ComputedBounded, PTL
  <2>. QED BY <2>1, <2>2, <2>3
<1>2. phase' # "update" => \A r \in Requests : computed'[r] <= MaxModelLen
  BY <1>1 DEF ComputedInBounds
<1>3. computed' = computed => \A r \in Requests : computed'[r] <= MaxModelLen
  BY DEF BoundsInv
<1>4. /\ computed \in [Requests -> Nat]
      /\ step.scheduled \in [Requests -> Nat] /\ step.budget \in Nat
      /\ step.budget <= MaxNumBatchedTokens
  BY DEF IInv, TypeInv, Steps, BoundsInv
<1>5. ASSUME UNCHANGED computed, step'.budget = step.budget,
             step'.scheduled = step.scheduled
      PROVE  BoundsInv'
  BY <1>3, <1>5, BoundsStay
<1>6. CASE StartStep \/ RunningScheduled \/ WaitingScheduled
  BY <1>5, <1>6 DEF StartStep, RunningScheduled, WaitingScheduled, requestVars
<1>7. ASSUME NEW r \in Requests, ScheduleRunning(r) PROVE BoundsInv'
  <2>. DEFINE n == NumNewTokens(r)
  <2>1. AtRunning(r) /\ n > 0 /\ computed' = computed
    BY <1>7 DEF ScheduleRunning
  <2>2. n \in Nat /\ n <= step.budget
    BY <2>1, NumNewTokensFacts
  <2>. HIDE DEF n
  <2>3. step'.budget = step.budget - n /\ step'.scheduled = [step.scheduled EXCEPT ![r] = n]
    <3>. DEFINE d == Min({spec[r], Max({0, n + computed[r] - Len(tokens[r])})})
    <3>1. step' = [step EXCEPT !.index = @ + 1, !.budget = @ - n, !.scheduled[r] = n,
                               !.drafted[r] = d]
      BY <1>7 DEF ScheduleRunning, n
    <3>. HIDE DEF d
    <3>. QED BY <3>1 DEF IInv, TypeInv, Steps
  <2>4. n <= MaxNumBatchedTokens /\ step'.budget <= MaxNumBatchedTokens
    BY <1>4, <2>2, <2>3, Limits
  <2>. QED BY <1>3, <1>4, <2>1, <2>3, <2>4 DEF BoundsInv
<1>8. ASSUME NEW r \in Requests, PreemptLast(r) PROVE BoundsInv'
  <2>1. phase' # "update" /\ step' = [step EXCEPT !.preempted = TRUE]
    BY <1>8 DEF PreemptLast, AtRunning
  <2>2. step'.budget = step.budget /\ step'.scheduled = step.scheduled
    BY <2>1 DEF IInv, TypeInv, Steps
  <2>. QED BY <1>2, <2>1, <2>2, BoundsStay
<1>9. ASSUME waiting # <<>>, NEW found \in FindLongestCacheHit(pool, tokens[Head(waiting)]),
             AdmitWaiting(Head(waiting), found)
      PROVE  BoundsInv'
  <2>. DEFINE r == Head(waiting)
              n == Min({Len(tokens[r]) - Len(found) * BlockSize, step.budget})
  <2>1. /\ phase' # "update"
        /\ step' = [step EXCEPT !.budget = @ - n, !.scheduled[r] = n]
    BY <1>9 DEF AdmitWaiting
  <2>2. waiting \in Seq(Requests)
    BY DEF IInv, TypeInv
  <2>3. r \in Requests
    BY <1>9, <2>2, HeadTailProperties
  <2>. HIDE DEF r
  <2>4. step'.scheduled = [step.scheduled EXCEPT ![r] = n] /\ step'.budget = step.budget - n
    <3>. HIDE DEF n
    <3>. QED BY <2>1 DEF IInv, TypeInv, Steps
  <2>5. n \in Int /\ n <= step.budget /\ n >= 0
    <3>1. step' \in Steps
      BY <1>1 DEF IInv, TypeInv
    <3>2. step'.scheduled[r] = n /\ step'.scheduled[r] \in Nat
      <4>. HIDE DEF n
      <4>. QED BY <1>4, <2>3, <2>4, <3>1 DEF Steps
    <3>3. step.budget - n \in Nat
      <4>. HIDE DEF n
      <4>. QED BY <2>4, <3>1 DEF Steps
    <3>. HIDE DEF n
    <3>. QED BY <1>4, <3>2, <3>3
  <2>. HIDE DEF n
  <2>6. n <= MaxNumBatchedTokens /\ step'.budget <= MaxNumBatchedTokens
    BY <1>4, <2>4, <2>5, Limits
  <2>. QED BY <1>2, <1>4, <2>1, <2>3, <2>4, <2>6 DEF BoundsInv
<1>10. CASE Forward
  <2>1. /\ phase = "forward" /\ running' = running
        /\ computed' = [r \in Requests |-> computed[r] + step.scheduled[r]]
        /\ step'.budget = step.budget /\ step'.scheduled = step.scheduled
    BY <1>10 DEF Forward, queueVars, IInv, TypeInv, Steps
  <2>2. ASSUME NEW r \in Requests PROVE computed'[r] <= MaxModelLen
    <3>1. CASE r \in ToSet(running)
      BY <1>1, <2>1, <3>1 DEF ComputedInBounds
    <3>2. CASE r \notin ToSet(running)
      <4>1. ~(computed[r] > 0) /\ ~(step.scheduled[r] > 0)
        BY <2>1, <3>2 DEF IInv, NotRunningInv, StepInv
      <4>2. computed[r] \in Nat /\ step.scheduled[r] \in Nat
        BY <1>4
      <4>. QED BY <2>1, <4>1, <4>2, Limits
    <3>. QED BY <3>1, <3>2
  <2>. QED BY <2>1, <2>2, BoundsStay
<1>11. ASSUME NEW r \in Requests, PrefillContinues(r) PROVE BoundsInv'
  <2>1. UNCHANGED computed /\ step'.budget = step.budget
        /\ step'.scheduled = step.scheduled
    BY <1>11 DEF PrefillContinues, requestVars, IInv, TypeInv, Steps
  <2>. QED BY <1>5, <2>1
<1>12. ASSUME NEW r \in Requests, NEW accepted, NEW new,
              RequestContinues(r, accepted, new) \/ RequestStops(r, accepted, new)
       PROVE  BoundsInv'
  <2>1. /\ Generated(r, accepted, new)
        /\ computed' = [computed EXCEPT ![r] = computed[r] - (step.drafted[r] - accepted)]
        /\ step' = [step EXCEPT !.index = @ + 1]
    BY <1>12 DEF RequestContinues, RequestStops, ComputedAfter
  <2>2. step'.budget = step.budget /\ step'.scheduled = step.scheduled
    BY <2>1 DEF IInv, TypeInv, Steps
  <2>3. accepted \in Nat /\ accepted <= step.drafted[r] /\ step.drafted[r] \in Nat
    <3>1. accepted \in Nat /\ accepted <= step.drafted[r]
      BY <2>1, OutputFacts
    <3>2. step.drafted[r] \in 0..Gamma
      BY DEF IInv, TypeInv, Steps
    <3>. QED BY <3>1, <3>2, Limits
  <2>4. computed'[r] <= MaxModelLen
    <3>1. computed[r] <= MaxModelLen /\ computed[r] \in Nat
      BY <1>4 DEF BoundsInv
    <3>2. computed'[r] = computed[r] - (step.drafted[r] - accepted)
      BY <1>4, <2>1
    <3>. QED BY <2>3, <3>1, <3>2, Limits
  <2>5. \A q \in Requests : computed'[q] <= MaxModelLen
    BY <1>4, <2>1, <2>4 DEF BoundsInv
  <2>. QED BY <2>2, <2>5, BoundsStay
<1>13. CASE PostStep
  <2>1. phase' # "update" /\ step' = NoStep
    BY <1>13 DEF PostStep
  <2>. QED BY <1>2, <2>1, Limits DEF BoundsInv, NoStep
<1>14. ASSUME NEW r \in Requests, AddRequest(r) PROVE BoundsInv'
  BY <1>5, <1>14 DEF AddRequest
<1>15. ASSUME NEW r \in Requests, FinishRequest(r) PROVE BoundsInv'
  <2>1. phase' # "update" /\ step' = step
    BY <1>15 DEF FinishRequest
  <2>. QED BY <1>2, <2>1, BoundsStay
<1>16. CASE SleepAndWakeUp
  BY <1>5, <1>16 DEF SleepAndWakeUp, requestVars
<1>17. CASE UNCHANGED schedulerVars
  BY <1>5, <1>17 DEF schedulerVars, requestVars
<1>18. CASE EngineStep
  BY <1>6, <1>7, <1>8, <1>9, <1>10, <1>11, <1>12, <1>13, <1>18 DEF EngineStep
<1>. QED BY <1>14, <1>15, <1>16, <1>17, <1>18 DEF Next

\* TypeOK follows.
LEMMA TypeFollows == IInv /\ BoundsInv => TypeOK
<1>. SUFFICES ASSUME IInv, BoundsInv PROVE TypeOK
  OBVIOUS
<1>. USE DEF IInv
<1>1. \A r \in Requests : ToSet(tokens[r]) \subseteq Tokens /\ ToSet(blocks[r]) \subseteq Blocks
  <2>. SUFFICES ASSUME NEW r \in Requests
                PROVE ToSet(tokens[r]) \subseteq Tokens /\ ToSet(blocks[r]) \subseteq Blocks
    OBVIOUS
  <2>1. tokens[r] \in Seq(Tokens) /\ blocks[r] \in Seq(Blocks)
    BY DEF TypeInv
  <2>. QED BY <2>1 DEF ToSet
<1>2. \A b \in Blocks : ToSet(pool.hash[b]) \subseteq Tokens
  <2>. SUFFICES ASSUME NEW b \in Blocks PROVE ToSet(pool.hash[b]) \subseteq Tokens
    OBVIOUS
  <2>1. pool.hash[b] \in Seq(Tokens)
    BY DEF TypeInv, Pools
  <2>. QED BY <2>1 DEF ToSet
<1>3. computed \in [Requests -> 0..MaxModelLen] /\ spec \in [Requests -> 0..Gamma]
  <2>1. computed \in [Requests -> Nat] /\ spec \in [Requests -> 0..Gamma]
    BY DEF TypeInv
  <2>2. \A r \in Requests : computed[r] \in 0..MaxModelLen
    BY <2>1, Limits DEF BoundsInv
  <2>. QED BY <2>1, <2>2
<1>4. ToSet(waiting) \cup ToSet(running) = {r \in Requests : tokens[r] # <<>>}
  <2>1. ToSet(waiting) \cup ToSet(running) \subseteq Requests
    <3>1. waiting \in Seq(Requests) /\ running \in Seq(Requests)
      BY DEF TypeInv
    <3>. QED BY <3>1 DEF ToSet
  <2>. QED BY <2>1 DEF QueueInv
<1>5. pool.ref \in [Blocks -> 0..Cardinality(Requests)]
  <2>1. pool.ref \in [Blocks -> Nat]
    BY DEF TypeInv, Pools
  <2>2. ASSUME NEW b \in Blocks PROVE pool.ref[b] \in 0..Cardinality(Requests)
    <3>. DEFINE H == Holders(b)
    <3>1. H \subseteq Requests /\ pool.ref[b] = Cardinality(H)
      BY DEF Holders, AccountInv
    <3>. HIDE DEF H
    <3>2. Cardinality(H) <= Cardinality(Requests) /\ Cardinality(Requests) \in Nat
      BY <3>1, RequestsAssumption, FS_Subset, FS_CardinalityType
    <3>. QED BY <2>1, <3>1, <3>2
  <2>. QED BY <2>1, <2>2
<1>6. cachedBlocks \in [Requests -> 0..NumBlocks]
  <2>1. cachedBlocks \in [Requests -> Nat]
    BY DEF TypeInv
  <2>2. ASSUME NEW r \in Requests PROVE cachedBlocks[r] \in 0..NumBlocks
    <3>. DEFINE M == ToSet(blocks[r])
    <3>1. blocks[r] \in Seq(Blocks) /\ IsInjective(blocks[r]) /\ cachedBlocks[r] <= Len(blocks[r])
      BY DEF TypeInv, AccountInv, CacheInv
    <3>2. Cardinality(M) = Len(blocks[r]) /\ M \subseteq Blocks /\ Len(blocks[r]) \in Nat
      BY <1>1, <3>1, InjectiveLength
    <3>. HIDE DEF M
    <3>3. IsFiniteSet(Blocks) /\ Cardinality(Blocks) = NumBlocks
      <4>1. /\ IsFiniteSet(1..NumBlocks)
            /\ Cardinality(1..NumBlocks) = IF 1 > NumBlocks THEN 0 ELSE NumBlocks - 1 + 1
        BY Limits, FS_Interval
      <4>. QED BY <4>1, Limits DEF Blocks
    <3>4. Cardinality(M) <= Cardinality(Blocks)
      BY <3>2, <3>3, FS_Subset
    <3>5. cachedBlocks[r] \in Nat
      BY <2>1
    <3>. QED BY <3>1, <3>2, <3>3, <3>4, <3>5, Limits
  <2>. QED BY <2>1, <2>2
<1>7. /\ step.budget \in 0..MaxNumBatchedTokens
      /\ step.scheduled \in [Requests -> 0..MaxNumBatchedTokens]
      /\ step.drafted \in [Requests -> 0..Gamma]
  <2>1. /\ step.budget \in Nat /\ step.scheduled \in [Requests -> Nat]
        /\ step.drafted \in [Requests -> 0..Gamma]
    BY DEF TypeInv, Steps
  <2>2. \A r \in Requests : step.scheduled[r] \in 0..MaxNumBatchedTokens
    BY <2>1, Limits DEF BoundsInv
  <2>. QED BY <2>1, <2>2, Limits DEF BoundsInv
<1>8. /\ finishedIds \subseteq Requests /\ specEnabled \in BOOLEAN
      /\ phase \in {"idle", "running", "waiting", "forward", "update"}
      /\ toCome \subseteq Requests /\ rollout \in DOMAIN Batches
  BY DEF TypeInv
<1>. QED BY <1>1, <1>2, <1>3, <1>4, <1>5, <1>6, <1>7, <1>8 DEF TypeOK, Tokens

\* The variables keep to their types: no count runs out of its range, and a request is in
\* a queue exactly as long as it has tokens.
THEOREM TypeCorrect == Spec => []TypeOK
<1>1. Init => BoundsInv
  BY Limits DEF Init, BoundsInv, NoStep
<1>2. IInv /\ BoundsInv /\ [Next]_schedulerVars => BoundsInv'
  BY StepKeepsBounds
<1>. QED BY <1>1, <1>2, Invariance, TypeFollows, PTL DEF Spec

-------------------------------------------------------------------------------
(* What is seen from outside: the scheduler implements RequestOutputs.     *)

\* Only a request that is there has drafts, and none has any while speculation is off.
DraftsInv ==
  /\ \A r \in Requests : tokens[r] = <<>> => spec[r] = 0
  /\ ~specEnabled => \A r \in Requests : spec[r] = 0 /\ step.drafted[r] = 0

\* Without drafts nothing of a running request is drafted.
LEMMA NoneDrafted ==
  ASSUME NEW a \in Int, NEW S, S = {0, Max({0, a})}
  PROVE  Min(S) = 0
<1>1. Max({0, a}) \in Int /\ Max({0, a}) >= 0
  BY MaxOfTwo
<1>. DEFINE m == Max({0, a})
<1>2. Min({0, m}) = 0
  <2>1. m \in Int /\ m >= 0
    BY <1>1
  <2>. HIDE DEF m
  <2>. QED BY <2>1, MinOfTwo
<1>. QED BY <1>2

\* Each step keeps that: the drafter runs while speculation is on, and it goes off when
\* no request is left.
LEMMA StepKeepsDrafts == IInv /\ DraftsInv /\ [Next]_schedulerVars => DraftsInv'
<1>. SUFFICES ASSUME IInv, DraftsInv, [Next]_schedulerVars PROVE DraftsInv'
  OBVIOUS
<1>1. /\ tokens \in [Requests -> Seq(Tokens)] /\ spec \in [Requests -> 0..Gamma]
      /\ computed \in [Requests -> Nat] /\ step \in Steps
      /\ step.drafted \in [Requests -> 0..Gamma] /\ specEnabled \in BOOLEAN
  BY DEF IInv, TypeInv, Steps
<1>2. ASSUME UNCHANGED <<tokens, spec, step>>, specEnabled' \in {specEnabled, TRUE}
      PROVE  DraftsInv'
  BY <1>2 DEF DraftsInv
<1>3. ASSUME step'.drafted = step.drafted, specEnabled' = specEnabled,
             NEW r \in Requests, tokens'[r] = <<>> => spec'[r] = 0,
             \A q \in Requests \ {r} : tokens'[q] = tokens[q],
             spec'[r] \in {0, spec[r]}, \A q \in Requests \ {r} : spec'[q] = spec[q]
      PROVE  DraftsInv'
  <2>1. \A q \in Requests : tokens'[q] = <<>> => spec'[q] = 0
    BY <1>3 DEF DraftsInv
  <2>2. ~specEnabled => \A q \in Requests : spec'[q] = 0 /\ step'.drafted[q] = 0
    BY <1>3 DEF DraftsInv
  <2>. QED BY <1>3, <2>1, <2>2 DEF DraftsInv
<1>4. CASE StartStep
  BY <1>2, <1>4 DEF StartStep, requestVars
<1>5. ASSUME NEW r \in Requests, ScheduleRunning(r) PROVE DraftsInv'
  <2>. DEFINE n == NumNewTokens(r)
              d == Min({spec[r], Max({0, n + computed[r] - Len(tokens[r])})})
  <2>1. /\ n \in Int /\ tokens' = tokens /\ specEnabled' = specEnabled
        /\ spec' = [spec EXCEPT ![r] = 0]
        /\ step'.drafted = [step.drafted EXCEPT ![r] = d]
    BY <1>1, <1>5, NumNewTokensFacts DEF ScheduleRunning, Steps, AtRunning
  <2>2. spec[r] = 0 => d = 0
    <3>. HIDE DEF n
    <3>1. n + computed[r] - Len(tokens[r]) \in Int
      BY <1>1, <2>1
    <3>. QED BY <3>1, NoneDrafted
  <2>. HIDE DEF n, d
  <2>. QED BY <1>1, <2>1, <2>2 DEF DraftsInv
<1>6. ASSUME NEW r \in Requests, PreemptLast(r) PROVE DraftsInv'
  <2>1. UNCHANGED <<tokens, spec, specEnabled>> /\ step'.drafted = step.drafted
    BY <1>1, <1>6 DEF PreemptLast, Steps
  <2>. QED BY <2>1 DEF DraftsInv
<1>7. CASE RunningScheduled \/ WaitingScheduled
  BY <1>2, <1>7 DEF RunningScheduled, WaitingScheduled, requestVars
<1>8. ASSUME NEW r, NEW found, AdmitWaiting(r, found) PROVE DraftsInv'
  <2>1. UNCHANGED <<tokens, spec, specEnabled>> /\ step'.drafted = step.drafted
    BY <1>1, <1>8 DEF AdmitWaiting, Steps
  <2>. QED BY <2>1 DEF DraftsInv
<1>9. CASE Forward
  <2>1. UNCHANGED <<tokens, spec, specEnabled>> /\ step'.drafted = step.drafted
    BY <1>1, <1>9 DEF Forward, Steps
  <2>. QED BY <2>1 DEF DraftsInv
<1>10. ASSUME NEW r \in Requests, PrefillContinues(r) PROVE DraftsInv'
  <2>1. UNCHANGED <<tokens, spec, specEnabled>> /\ step'.drafted = step.drafted
    BY <1>1, <1>10 DEF PrefillContinues, requestVars, Steps
  <2>. QED BY <2>1 DEF DraftsInv
<1>11. ASSUME NEW r \in Requests, NEW accepted, NEW new, RequestContinues(r, accepted, new)
       PROVE  DraftsInv'
  <2>1. /\ UNCHANGED <<spec, specEnabled>> /\ step'.drafted = step.drafted
        /\ tokens' = [tokens EXCEPT ![r] = WithOutput(r, new)]
    BY <1>1, <1>11 DEF RequestContinues, Steps
  <2>2. tokens[r] # <<>> /\ WithOutput(r, new) # <<>>
    <3>1. AtBatch(r) /\ Generated(r, accepted, new) /\ ~Stops(r, WithOutput(r, new))
      BY <1>11 DEF RequestContinues, Generated
    <3>2. tokens[r] # <<>> /\ WithOutput(r, new) = tokens[r] \o new /\ new \in Seq(Tokens)
      BY <3>1, AtBatchFacts, OutputFacts
    <3>. QED BY <1>1, <3>2
  <2>. QED BY <1>1, <1>3, <2>1, <2>2
<1>12. ASSUME NEW r \in Requests, NEW accepted, NEW new, RequestStops(r, accepted, new)
       PROVE  DraftsInv'
  <2>1. /\ specEnabled' = specEnabled /\ step'.drafted = step.drafted
        /\ tokens' = [tokens EXCEPT ![r] = <<>>] /\ spec' = [spec EXCEPT ![r] = 0]
    BY <1>1, <1>12 DEF RequestStops, Steps
  <2>. QED BY <1>1, <1>3, <2>1
<1>13. CASE PostStep
  <2>1. /\ UNCHANGED <<tokens, specEnabled>> /\ step' = NoStep
        /\ \A r \in Requests :
             spec'[r] = spec[r] \/ (specEnabled /\ tokens[r] # <<>>)
    BY <1>13 DEF PostStep
  <2>. QED BY <2>1, NoStepFacts DEF DraftsInv
<1>14. ASSUME NEW r \in Requests, AddRequest(r) PROVE DraftsInv'
  <2>1. /\ UNCHANGED <<spec, specEnabled, step>> /\ r \in toCome
        /\ tokens' = [tokens EXCEPT ![r] = Prompt[r]]
    BY <1>14 DEF AddRequest
  <2>2. spec[r] = 0
    BY <2>1 DEF IInv, QueueInv, DraftsInv
  <2>. QED BY <1>1, <1>3, <2>1, <2>2
<1>15. ASSUME NEW r \in Requests, FinishRequest(r) PROVE DraftsInv'
  <2>1. /\ UNCHANGED <<specEnabled, step>> /\ tokens' = [tokens EXCEPT ![r] = <<>>]
        /\ spec' = [spec EXCEPT ![r] = 0]
    BY <1>15 DEF FinishRequest
  <2>. QED BY <1>1, <1>3, <2>1
<1>16. CASE SleepAndWakeUp
  <2>1. /\ phase = "idle" /\ running = <<>> /\ waiting = <<>>
        /\ UNCHANGED <<tokens, spec, step>>
    BY <1>16 DEF SleepAndWakeUp, RolloutOver, requestVars
  <2>2. \A r \in Requests : tokens[r] = <<>> /\ step.drafted[r] = 0
    BY <2>1, IdleFacts DEF IInv, QueueInv, ToSet
  <2>. QED BY <2>1, <2>2 DEF DraftsInv
<1>17. CASE UNCHANGED schedulerVars
  BY <1>2, <1>17 DEF schedulerVars, requestVars
<1>18. CASE EngineStep
  BY <1>4, <1>5, <1>6, <1>7, <1>8, <1>9, <1>10, <1>11, <1>12, <1>13, <1>18 DEF EngineStep
<1>. QED BY <1>14, <1>15, <1>16, <1>17, <1>18 DEF Next

\* What the requests have is as it was.
LEMMA Unseen ==
  ASSUME UNCHANGED <<tokens, toCome, rollout, specEnabled>>
  PROVE  UNCHANGED Outputs!vars
BY DEF Outputs!vars

\* The output of a step: as many tokens as were accepted and one more, none of them the
\* last of the request.
LEMMA ContinuingGenerates ==
  ASSUME IInv, DraftsInv, NEW r \in Requests, NEW accepted \in 0..Gamma, NEW new,
         RequestContinues(r, accepted, new)
  PROVE  Outputs!Next
<1>1. /\ Generated(r, accepted, new) /\ AtBatch(r) /\ ~Stops(r, WithOutput(r, new))
      /\ tokens' = [tokens EXCEPT ![r] = WithOutput(r, new)]
      /\ UNCHANGED <<toCome, rollout, specEnabled>>
  BY DEF RequestContinues, Generated, rolloutVars
<1>2. /\ accepted \in Nat /\ accepted <= step.drafted[r] /\ new \in Seq(Tokens)
      /\ WithOutput(r, new) = tokens[r] \o new
      /\ \A i \in 1..(accepted + 1) : ~Stops(r, tokens[r] \o SubSeq(new, 1, i))
      /\ new \in [1..(accepted + 1) -> SampledTokens \cup {EOS}]
  BY <1>1, OutputFacts DEF Generated
<1>3. tokens[r] # <<>> /\ tokens \in [Requests -> Seq(Tokens)]
  BY <1>1, AtBatchFacts DEF IInv, TypeInv
<1>. DEFINE n == accepted + 1
<1>4. n \in 1..Outputs!AtOnce
  <2>1. ~specEnabled => accepted = 0
    BY <1>2 DEF DraftsInv
  <2>. QED BY <1>2, <2>1, Limits DEF Outputs!AtOnce
<1>5. \A i \in 1..n : ~Outputs!Ended(r, tokens[r] \o SubSeq(new, 1, i))
  BY <1>2 DEF Outputs!Ended, Stops, Last
<1>6. DOMAIN new = 1..n
  BY <1>2
<1>. HIDE DEF n
<1>7. Outputs!Generate(r, new)
  BY <1>1, <1>2, <1>3, <1>5, <1>6 DEF Outputs!Generate
<1>8. new \in [1..n -> SampledTokens \cup {EOS}]
  BY <1>2 DEF n
<1>. QED BY <1>4, <1>7, <1>8 DEF Outputs!Next

\* Each step is one of RequestOutputs, or not seen.
LEMMA StepImplements ==
  IInv /\ DraftsInv /\ [Next]_schedulerVars => [Outputs!Next]_(Outputs!vars)
<1>. SUFFICES ASSUME IInv, DraftsInv, [Next]_schedulerVars
              PROVE  Outputs!Next \/ UNCHANGED Outputs!vars
  OBVIOUS
<1>1. CASE StartStep
  <2>1. UNCHANGED <<tokens, toCome, rollout>>
    BY <1>1 DEF StartStep, requestVars, rolloutVars
  <2>2. CASE specEnabled' = specEnabled
    BY <2>1, <2>2, Unseen
  <2>3. CASE specEnabled' = TRUE
    BY <2>1, <2>3 DEF Outputs!Next, Outputs!StartSpeculating
  <2>4. specEnabled' \in {specEnabled, TRUE}
    BY <1>1 DEF StartStep
  <2>. DEFINE seen == Outputs!Next \/ UNCHANGED Outputs!vars
  <2>5. specEnabled' = specEnabled => seen
    BY <2>2
  <2>6. specEnabled' = TRUE => seen
    BY <2>3
  <2>. HIDE DEF seen
  <2>7. ASSUME NEW a, NEW b, NEW c, c \in {a, b} PROVE c = a \/ c = b
    BY <2>7
  <2>8. specEnabled' = specEnabled \/ specEnabled' = TRUE
    BY ONLY <2>4, <2>7, Zenon
  <2>9. seen
    BY ONLY <2>5, <2>6, <2>8, Zenon
  <2>. QED BY <2>9 DEF seen
<1>2. ASSUME NEW r \in Requests, ScheduleRunning(r) \/ PreemptLast(r) \/ PrefillContinues(r)
      PROVE  UNCHANGED Outputs!vars
  BY <1>2, Unseen DEF ScheduleRunning, PreemptLast, PrefillContinues, requestVars, rolloutVars
<1>3. CASE RunningScheduled \/ WaitingScheduled \/ Forward \/ PostStep
  BY <1>3, Unseen DEF RunningScheduled, WaitingScheduled, Forward, PostStep, requestVars,
     rolloutVars
<1>4. ASSUME NEW r, NEW found, AdmitWaiting(r, found) PROVE UNCHANGED Outputs!vars
  BY <1>4, Unseen DEF AdmitWaiting, rolloutVars
<1>5. ASSUME NEW r \in Requests, NEW accepted \in 0..Gamma, NEW new,
             RequestContinues(r, accepted, new)
      PROVE  Outputs!Next
  BY <1>5, ContinuingGenerates
<1>6. ASSUME NEW r \in Requests, NEW accepted, NEW new, RequestStops(r, accepted, new)
      PROVE  Outputs!Next
  <2>1. /\ AtBatch(r) /\ tokens' = [tokens EXCEPT ![r] = <<>>]
        /\ UNCHANGED <<toCome, rollout, specEnabled>>
    BY <1>6 DEF RequestStops, Generated, rolloutVars
  <2>2. tokens[r] # <<>>
    BY <2>1, AtBatchFacts
  <2>. QED BY <2>1, <2>2 DEF Outputs!Next, Outputs!End
<1>7. ASSUME NEW r \in Requests, AddRequest(r) PROVE Outputs!Next
  BY <1>7 DEF AddRequest, Outputs!Next, Outputs!Submit
<1>8. ASSUME NEW r \in Requests, FinishRequest(r) PROVE Outputs!Next
  BY <1>8 DEF FinishRequest, rolloutVars, Outputs!Next, Outputs!End
<1>9. CASE SleepAndWakeUp
  <2>1. /\ running = <<>> /\ waiting = <<>> /\ toCome = {} /\ rollout < Len(Batches)
        /\ rollout' = rollout + 1 /\ toCome' = Batches[rollout + 1]
        /\ specEnabled' \in {specEnabled, FALSE} /\ tokens' = tokens
    BY <1>9 DEF SleepAndWakeUp, RolloutOver, requestVars
  <2>2. \A r \in Requests : tokens[r] = <<>>
    BY <2>1 DEF IInv, QueueInv, ToSet
  <2>. QED BY <2>1, <2>2 DEF Outputs!Next, Outputs!NextRollout
<1>10. CASE UNCHANGED schedulerVars
  BY <1>10, Unseen DEF schedulerVars, requestVars, rolloutVars
<1>11. CASE EngineStep
  BY <1>1, <1>2, <1>3, <1>4, <1>5, <1>6, <1>11 DEF EngineStep
<1>. QED BY <1>7, <1>8, <1>9, <1>10, <1>11 DEF Next

\* Whatever is preempted, cut into chunks, found in the cache or rejected, from outside the
\* scheduler is RequestOutputs: outputs only grow, by more than one token in a step only
\* while speculation is on, and none of a request that goes on would have ended it.
THEOREM OutputsImplemented == Spec => ImplementsRequestOutputs
<1>1. Init => DraftsInv
  BY NoStepFacts DEF Init, DraftsInv
<1>2. Init => Outputs!Init
  BY DEF Init, Outputs!Init
<1>3. IInv /\ DraftsInv /\ [Next]_schedulerVars => DraftsInv'
  BY StepKeepsDrafts
<1>4. IInv /\ DraftsInv /\ [Next]_schedulerVars => [Outputs!Next]_(Outputs!vars)
  BY StepImplements
<1>. QED BY <1>1, <1>2, <1>3, <1>4, Invariance, PTL
     DEF Spec, ImplementsRequestOutputs, Outputs!Spec
===============================================================================
