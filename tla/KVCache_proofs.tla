---------------------------- MODULE KVCache_proofs ----------------------------
(***************************************************************************)
(* What is in the KV cache, for every number of requests, blocks and       *)
(* tokens and all limits, when the drafter does not write there.           *)
(*                                                                         *)
(* The scheduler hands out blocks and gives them hashes before the worker  *)
(* has computed them, also to requests of the same step.  The invariant    *)
(* says which of the hashed slots are still to be written, by whom, and    *)
(* that nobody writes anything else there.                                 *)
(***************************************************************************)
EXTENDS KVCache, KVScheduler_proofs

-------------------------------------------------------------------------------
(* The persistent batch. *)

\* How many elements of S are no larger than x.
RankIn(S, x) == Cardinality({y \in S : y <= x})

\* The ranks are 1 to the size of the set, in the order of the elements.
LEMMA RankFacts ==
  ASSUME NEW m \in Nat, NEW S \in SUBSET (1..m)
  PROVE  /\ IsFiniteSet(S) /\ Cardinality(S) \in Nat
         /\ \A x \in S : RankIn(S, x) \in 1..Cardinality(S)
         /\ \A x, y \in S : RankIn(S, x) = RankIn(S, y) => x = y
         /\ \A k \in 1..Cardinality(S) : \E x \in S : RankIn(S, x) = k
         /\ \A x \in S : /\ Cardinality({y \in S : y < x}) = RankIn(S, x) - 1
                         /\ Cardinality({y \in S : y > x}) = Cardinality(S) - RankIn(S, x)
<1>. DEFINE n == Cardinality(S)
            upTo(x) == {y \in S : y <= x}
            below(x) == {y \in S : y < x}
            above(x) == {y \in S : y > x}
            rank == [x \in S |-> Cardinality(upTo(x))]
<1>1. IsFiniteSet(S) /\ n \in Nat /\ \A x \in S : x \in Nat
  <2>1. IsFiniteSet(1..m)
    BY FS_Interval
  <2>2. IsFiniteSet(S)
    BY <2>1, FS_Subset
  <2>. QED BY <2>2, FS_CardinalityType
<1>2. ASSUME NEW x \in S
      PROVE  /\ IsFiniteSet(upTo(x)) /\ IsFiniteSet(below(x)) /\ IsFiniteSet(above(x))
             /\ Cardinality(upTo(x)) \in 1..n
             /\ Cardinality(below(x)) = Cardinality(upTo(x)) - 1
             /\ Cardinality(above(x)) = n - Cardinality(upTo(x))
  <2>1. /\ upTo(x) \in SUBSET S /\ below(x) \in SUBSET S /\ above(x) \in SUBSET S
        /\ upTo(x) = below(x) \cup {x} /\ x \notin below(x)
        /\ S = upTo(x) \cup above(x) /\ upTo(x) \cap above(x) = {}
    <3>1. upTo(x) \in SUBSET S /\ below(x) \in SUBSET S /\ above(x) \in SUBSET S
      OBVIOUS
    <3>2. \A y \in S : /\ y <= x <=> (y < x \/ y = x)
                       /\ ~(x < x) /\ (y <= x <=> ~(y > x))
      BY <1>1
    <3>3. upTo(x) = below(x) \cup {x} /\ x \notin below(x)
      BY <3>2
    <3>4. S = upTo(x) \cup above(x) /\ upTo(x) \cap above(x) = {}
      BY <3>2
    <3>. QED BY <3>1, <3>3, <3>4
  <2>. HIDE DEF upTo, below, above
  <2>2. /\ IsFiniteSet(upTo(x)) /\ IsFiniteSet(below(x)) /\ IsFiniteSet(above(x))
        /\ Cardinality(upTo(x)) \in Nat /\ Cardinality(below(x)) \in Nat
        /\ Cardinality(above(x)) \in Nat /\ Cardinality(upTo(x)) <= n
    BY <1>1, <2>1, FS_Subset, FS_CardinalityType
  <2>3. Cardinality(upTo(x)) = Cardinality(below(x)) + 1
    <3>1. Cardinality(below(x) \cup {x}) = Cardinality(below(x)) + 1
      BY <2>1, <2>2, FS_AddElement
    <3>. QED BY <2>1, <3>1
  <2>4. n = Cardinality(upTo(x)) + Cardinality(above(x))
    <3>1. Cardinality(upTo(x) \cup above(x))
            = Cardinality(upTo(x)) + Cardinality(above(x))
                - Cardinality(upTo(x) \cap above(x))
      BY <2>2, FS_Union
    <3>2. Cardinality(upTo(x) \cap above(x)) = 0
      BY <2>1, FS_EmptySet
    <3>3. Cardinality(upTo(x) \cup above(x)) = n
      BY <2>1
    <3>. HIDE DEF n
    <3>. QED BY <2>2, <3>1, <3>2, <3>3
  <2>. HIDE DEF n
  <2>. QED BY <1>1, <2>2, <2>3, <2>4
<1>3. \A x, y \in S : x < y => rank[x] < rank[y]
  <2>. SUFFICES ASSUME NEW x \in S, NEW y \in S, x < y
                PROVE  Cardinality(upTo(x)) < Cardinality(upTo(y))
    OBVIOUS
  <2>1. upTo(x) \in SUBSET upTo(y) /\ y \in upTo(y) /\ y \notin upTo(x)
    <3>1. \A z \in S : z <= x => z <= y
      BY <1>1
    <3>2. y <= y /\ ~(y <= x)
      BY <1>1
    <3>. QED BY <3>1, <3>2
  <2>2. /\ IsFiniteSet(upTo(x)) /\ IsFiniteSet(upTo(y))
        /\ Cardinality(upTo(x)) \in 1..n /\ Cardinality(upTo(y)) \in 1..n /\ n \in Nat
    BY <1>1, <1>2
  <2>. HIDE DEF upTo, n
  <2>3. Cardinality(upTo(x)) <= Cardinality(upTo(y))
    BY <2>1, <2>2, FS_Subset
  <2>4. Cardinality(upTo(x)) # Cardinality(upTo(y))
    <3>1. upTo(x) # upTo(y)
      BY <2>1
    <3>. QED BY <2>1, <2>2, <3>1, FS_Subset
  <2>. QED BY <2>2, <2>3, <2>4
<1>4. \A x \in S : rank[x] = Cardinality(upTo(x)) /\ rank[x] \in 1..n
  BY <1>2
<1>. HIDE DEF rank, n
<1>5. \A x, y \in S : rank[x] = rank[y] => x = y
  <2>. SUFFICES ASSUME NEW x \in S, NEW y \in S, rank[x] = rank[y] PROVE x = y
    OBVIOUS
  <2>1. x \in Nat /\ y \in Nat /\ rank[x] \in 1..n /\ n \in Nat
    BY <1>1, <1>4
  <2>2. ~(x < y) /\ ~(y < x)
    BY <1>3, <2>1
  <2>. QED BY <2>1, <2>2
<1>6. \A k \in 1..n : \E x \in S : rank[x] = k
  <2>1. rank \in [S -> 1..n]
    BY <1>4 DEF rank
  <2>2. rank \in Injection(S, 1..n)
    BY <1>5, <2>1 DEF Injection, IsInjective
  <2>3. IsFiniteSet(1..n) /\ Cardinality(1..n) = n
    BY <1>1, FS_Interval
  <2>4. rank \in Surjection(S, 1..n)
    BY <1>1, <2>2, <2>3, FS_Injection DEF n
  <2>. QED BY <2>4 DEF Surjection
<1>7. \A x \in S : RankIn(S, x) = rank[x]
  BY <1>4 DEF RankIn
<1>. QED
  <2>1. \A x \in S : RankIn(S, x) \in 1..n
    BY <1>4, <1>7
  <2>2. \A x, y \in S : RankIn(S, x) = RankIn(S, y) => x = y
    BY <1>5, <1>7
  <2>3. \A k \in 1..n : \E x \in S : RankIn(S, x) = k
    BY <1>6, <1>7
  <2>4. \A x \in S : /\ Cardinality({y \in S : y < x}) = RankIn(S, x) - 1
                     /\ Cardinality({y \in S : y > x}) = n - RankIn(S, x)
    BY <1>2, <1>4, <1>7
  <2>. QED BY <1>1, <2>1, <2>2, <2>3, <2>4 DEF n

\* There are n numbers from 1 to n.
LEMMA CountTo ==
  ASSUME NEW n \in Nat
  PROVE  IsFiniteSet(1..n) /\ Cardinality(1..n) = n
BY FS_Interval

\* The k-th from below and from above are what they are called.
LEMMA NthFacts ==
  ASSUME NEW m \in Nat, NEW S \in SUBSET (1..m), NEW k \in 1..Cardinality(S)
  PROVE  /\ NthSmallest(S, k) \in S /\ RankIn(S, NthSmallest(S, k)) = k
         /\ NthLargest(S, k) \in S
         /\ RankIn(S, NthLargest(S, k)) = Cardinality(S) - k + 1
<1>. DEFINE n == Cardinality(S)
<1>1. n \in Nat /\ k \in 1..n
  BY RankFacts
<1>2. \A x \in S : RankIn(S, x) \in 1..n
  BY RankFacts
<1>3. \A j \in 1..n : \E x \in S : RankIn(S, x) = j
  BY RankFacts
<1>4. \A x \in S : /\ Cardinality({y \in S : y < x}) = RankIn(S, x) - 1
                   /\ Cardinality({y \in S : y > x}) = n - RankIn(S, x)
  BY RankFacts
<1>. HIDE DEF n
<1>5. NthSmallest(S, k) \in S /\ Cardinality({y \in S : y < NthSmallest(S, k)}) = k - 1
  <2>1. \E x \in S : Cardinality({y \in S : y < x}) = k - 1
    BY <1>1, <1>3, <1>4
  <2>. QED BY <2>1 DEF NthSmallest
<1>6. NthLargest(S, k) \in S /\ Cardinality({y \in S : y > NthLargest(S, k)}) = k - 1
  <2>1. n - k + 1 \in 1..n
    BY <1>1
  <2>2. PICK x \in S : RankIn(S, x) = n - k + 1
    BY <1>3, <2>1
  <2>3. Cardinality({y \in S : y > x}) = k - 1
    <3>1. Cardinality({y \in S : y > x}) = n - RankIn(S, x)
      BY <1>4
    <3>2. n - (n - k + 1) = k - 1
      BY <1>1
    <3>. QED BY <2>2, <3>1, <3>2
  <2>. QED BY <2>3 DEF NthLargest
<1>. DEFINE s == NthSmallest(S, k)
            l == NthLargest(S, k)
<1>7. /\ RankIn(S, s) \in Int /\ RankIn(S, l) \in Int
      /\ RankIn(S, s) - 1 = k - 1 /\ n - RankIn(S, l) = k - 1
  <2>1. s \in S /\ Cardinality({y \in S : y < s}) = k - 1
    BY <1>5
  <2>2. l \in S /\ Cardinality({y \in S : y > l}) = k - 1
    BY <1>6
  <2>. HIDE DEF s, l
  <2>3. RankIn(S, s) \in 1..n /\ RankIn(S, l) \in 1..n
    BY <1>2, <2>1, <2>2
  <2>4. RankIn(S, s) - 1 = k - 1
    BY <1>4, <2>1
  <2>5. n - RankIn(S, l) = k - 1
    BY <1>4, <2>2
  <2>. QED BY <1>1, <2>3, <2>4, <2>5
<1>. HIDE DEF s, l
<1>8. RankIn(S, s) = k /\ RankIn(S, l) = n - k + 1
  BY <1>1, <1>7
<1>. QED BY <1>5, <1>6, <1>8 DEF s, l, n

\* condense: as many rows as there are requests; the empty ones are filled from the
\* others, each once.
LEMMA Condensed ==
  ASSUME NEW m \in Nat, NEW occupied \in SUBSET (1..m)
  PROVE  LET n == Cardinality(occupied)
             H == (1..n) \ occupied
         IN  /\ \A row \in H : NthLargest(occupied, RankIn(H, row)) \in occupied
             /\ \A x \in occupied \ (1..n) :
                  \E row \in H : NthLargest(occupied, RankIn(H, row)) = x
<1>. DEFINE n == Cardinality(occupied)
            H == (1..n) \ occupied
            low == (1..n) \cap occupied
            high == occupied \ (1..n)
<1>1. n \in Nat /\ IsFiniteSet(occupied) /\ n = Cardinality(occupied)
  BY RankFacts
<1>. HIDE DEF n
<1>2. H \in SUBSET (1..n) /\ low \in SUBSET (1..n) /\ high \in SUBSET (1..m)
  OBVIOUS
<1>3. /\ IsFiniteSet(H) /\ Cardinality(H) \in Nat /\ IsFiniteSet(low) /\ Cardinality(low) \in Nat
      /\ IsFiniteSet(high) /\ Cardinality(high) \in Nat
  <2>. HIDE DEF low, high, H, n
  <2>. QED BY <1>1, <1>2, RankFacts
<1>4. Cardinality(H) = Cardinality(high)
  <2>1. 1..n = low \cup H /\ low \cap H = {} /\ occupied = low \cup high /\ low \cap high = {}
    OBVIOUS
  <2>2. Cardinality(1..n) = n
    BY <1>1, FS_Interval
  <2>. HIDE DEF low, high, H, n
  <2>3. /\ Cardinality(low \cup H) = Cardinality(low) + Cardinality(H) - Cardinality(low \cap H)
        /\ Cardinality(low \cup high)
             = Cardinality(low) + Cardinality(high) - Cardinality(low \cap high)
    BY <1>3, FS_Union
  <2>4. Cardinality({}) = 0
    BY FS_EmptySet
  <2>5. n = Cardinality(low) + Cardinality(H)
    <3>1. Cardinality(low \cup H) = n /\ Cardinality(low \cap H) = 0
      BY <2>1, <2>2, <2>4
    <3>. QED BY <1>3, <2>3, <3>1
  <2>6. n = Cardinality(low) + Cardinality(high)
    <3>1. Cardinality(low \cup high) = n /\ Cardinality(low \cap high) = 0
      BY <1>1, <2>1, <2>4
    <3>. QED BY <1>3, <2>3, <3>1
  <2>. QED BY <1>1, <1>3, <2>5, <2>6
<1>5. Cardinality(high) <= n
  BY <1>1, FS_Subset
<1>6. ASSUME NEW row \in H
      PROVE  /\ RankIn(H, row) \in 1..n
             /\ NthLargest(occupied, RankIn(H, row)) \in occupied
  <2>. HIDE DEF high, H, n
  <2>1. RankIn(H, row) \in 1..Cardinality(H)
    BY <1>1, <1>2, RankFacts
  <2>2. RankIn(H, row) \in 1..n
    BY <1>1, <1>3, <1>4, <1>5, <2>1
  <2>. QED BY <1>1, <2>2, NthFacts
<1>7. ASSUME NEW x \in occupied \ (1..n)
      PROVE  \E row \in H : NthLargest(occupied, RankIn(H, row)) = x
  <2>. DEFINE above == {y \in occupied : y > x}
              k == n - RankIn(occupied, x) + 1
  <2>1. RankIn(occupied, x) \in 1..n /\ Cardinality(above) = n - RankIn(occupied, x)
    BY <1>1, RankFacts
  <2>2. above \cup {x} \in SUBSET high /\ x \notin above /\ above \in SUBSET high
    BY <1>1, <1>7
  <2>. HIDE DEF above, high, H, n
  <2>3. Cardinality(above \cup {x}) = Cardinality(above) + 1
    <3>1. IsFiniteSet(above)
      BY <1>3, <2>2, FS_Subset
    <3>. QED BY <2>2, <3>1, FS_AddElement
  <2>4. Cardinality(above \cup {x}) <= Cardinality(high)
    BY <1>3, <2>2, FS_Subset
  <2>5. k \in 1..Cardinality(H) /\ k \in 1..n
    BY <1>1, <1>3, <1>4, <1>5, <2>1, <2>3, <2>4
  <2>6. PICK h \in H : RankIn(H, h) = k
    <3>1. \A j \in 1..Cardinality(H) : \E y \in H : RankIn(H, y) = j
      <4>1. H \in SUBSET (1..n) /\ n \in Nat
        BY <1>1, <1>2
      <4>. QED BY ONLY <4>1, RankFacts
    <3>. HIDE DEF k
    <3>. QED BY <2>5, <3>1
  <2>7. NthLargest(occupied, k) \in occupied
        /\ RankIn(occupied, NthLargest(occupied, k)) = n - k + 1
    <3>. HIDE DEF k
    <3>. QED BY <1>1, <2>5, NthFacts
  <2>8. n - k + 1 = RankIn(occupied, x)
    BY <1>1, <2>1
  <2>9. NthLargest(occupied, k) = x
    <3>1. \A y, z \in occupied : RankIn(occupied, y) = RankIn(occupied, z) => y = z
      BY RankFacts
    <3>. HIDE DEF k
    <3>. QED BY <1>7, <2>7, <2>8, <3>1
  <2>. QED BY <2>6, <2>9
<1>. QED BY <1>6, <1>7 DEF n, H

\* _update_states: the rows are the requests of the step's batch, each once.
LEMMA ForwardRows ==
  ASSUME rows \in Seq(Requests), Len(rows) <= MaxNumSeqs, IsInjective(rows),
         NEW s \in Seq(Requests), s = step'.batch, IsInjective(s), Len(s) <= MaxNumSeqs,
         rows' = UpdatedRows
  PROVE  /\ rows' \in Seq(Requests) /\ Len(rows') <= MaxNumSeqs /\ IsInjective(rows')
         /\ ToSet(rows') = ToSet(s)
<1>. DEFINE m == MaxNumSeqs
            batch == ToSet(s)
            stay == {row \in DOMAIN rows : rows[row] \in batch /\ rows[row] \notin finishedIds}
            kept == {rows[row] : row \in stay}
            joining == Only(s, Requests \ kept)
            empty == Rows \ stay
            joined == {NthSmallest(empty, k) : k \in DOMAIN joining}
            n == Cardinality(batch)
            occupied == stay \cup joined
            at(row) == IF row \in stay THEN rows[row] ELSE joining[RankIn(joined, row)]
            H == (1..n) \ occupied
            f == [row \in 1..n |-> IF row \in occupied THEN at(row)
                                   ELSE at(NthLargest(occupied, RankIn(H, row)))]
<1>1. rows' = f
  <2>1. rows' = UpdatedRows /\ s = step'.batch
    OBVIOUS
  <2>. QED BY ONLY <2>1 DEF UpdatedRows, RankIn
<1>2. m \in Nat /\ DOMAIN rows = 1..Len(rows) /\ Len(rows) \in Nat /\ Len(rows) <= m
  BY LimitsAssumption
<1>3. IsFiniteSet(batch) /\ n = Len(s) /\ n \in Nat /\ n <= m
  <2>1. IsFiniteSet(ToSet(s)) /\ Cardinality(ToSet(s)) = Len(s)
    BY InjectiveLength
  <2>2. Len(s) \in Nat
    OBVIOUS
  <2>. QED BY <2>1, <2>2
<1>4. stay \in SUBSET (1..m) /\ empty \in SUBSET (1..m) /\ stay \cap empty = {}
      /\ stay \cup empty = 1..m
  <2>1. stay \in SUBSET (1..m)
    <3>1. 1..Len(rows) \in SUBSET (1..m)
      BY <1>2
    <3>. QED BY <1>2, <3>1
  <2>. HIDE DEF stay
  <2>. QED BY <2>1 DEF Rows
<1>5. /\ kept \in SUBSET batch /\ kept \in SUBSET Requests /\ IsFiniteSet(stay)
      /\ Cardinality(stay) \in Nat /\ Cardinality(kept) = Cardinality(stay)
  <2>1. kept \in SUBSET batch /\ batch \in SUBSET Requests
    BY DEF ToSet
  <2>2. IsFiniteSet(stay) /\ Cardinality(stay) \in Nat
    BY <1>2, <1>4, RankFacts
  <2>. DEFINE g == [row \in stay |-> rows[row]]
  <2>3. g \in Surjection(stay, kept)
    BY DEF Surjection
  <2>4. g \in Injection(stay, kept)
    <3>1. g \in [stay -> kept]
      OBVIOUS
    <3>2. \A x, y \in stay : g[x] = g[y] => x = y
      BY DEF IsInjective
    <3>. HIDE DEF g, stay, kept
    <3>. QED BY <3>1, <3>2 DEF Injection, IsInjective
  <2>. HIDE DEF g, stay, kept
  <2>5. Cardinality(kept) = Cardinality(stay)
    BY <2>2, <2>3, <2>4, FS_Surjection
  <2>. QED BY <2>1, <2>2, <2>5
<1>6. /\ joining \in Seq(Requests) /\ IsInjective(joining) /\ ToSet(joining) = batch \ kept
      /\ Len(joining) \in Nat /\ DOMAIN joining = 1..Len(joining)
      /\ n = Cardinality(stay) + Len(joining)
  <2>. DEFINE S == Requests \ kept
  <2>1. joining \in Seq(Requests)
    BY OnlyPlaces
  <2>2. IsInjective(joining)
    BY OnlyInjective
  <2>3. ToSet(joining) = batch \ kept
    <3>1. ToSet(Only(s, S)) = ToSet(s) \cap S
      BY OnlyElements
    <3>2. batch \in SUBSET Requests
      BY DEF ToSet
    <3>. QED BY <3>1, <3>2
  <2>4. IsFiniteSet(ToSet(joining)) /\ Cardinality(ToSet(joining)) = Len(joining)
    BY <2>1, <2>2, InjectiveLength
  <2>. HIDE DEF joining, kept, batch, stay
  <2>5. Len(joining) \in Nat /\ DOMAIN joining = 1..Len(joining)
    BY <2>1
  <2>6. IsFiniteSet(kept)
    BY <1>3, <1>5, FS_Subset
  <2>7. Cardinality(kept \cup ToSet(joining))
          = Cardinality(kept) + Cardinality(ToSet(joining)) - Cardinality(kept \cap ToSet(joining))
    BY <2>4, <2>6, FS_Union
  <2>8. kept \cup ToSet(joining) = batch /\ Cardinality(kept \cap ToSet(joining)) = 0
    <3>1. kept \cap ToSet(joining) = {}
      BY <2>3
    <3>2. Cardinality({}) = 0
      BY FS_EmptySet
    <3>. QED BY <1>5, <2>3, <3>1, <3>2
  <2>9. n = Cardinality(stay) + Len(joining)
    <3>. HIDE DEF n
    <3>1. n = Cardinality(kept) + Cardinality(ToSet(joining)) - 0
      BY <2>7, <2>8 DEF n
    <3>. QED BY <1>5, <2>4, <2>5, <3>1
  <2>. QED BY <2>1, <2>2, <2>3, <2>5, <2>9
<1>7. /\ Cardinality(empty) \in Nat /\ IsFiniteSet(empty)
      /\ Len(joining) <= Cardinality(empty)
  <2>. HIDE DEF stay, empty, n, joining
  <2>1. IsFiniteSet(empty) /\ Cardinality(empty) \in Nat
    BY <1>2, <1>4, RankFacts
  <2>2. Cardinality(stay \cup empty)
          = Cardinality(stay) + Cardinality(empty) - Cardinality(stay \cap empty)
    BY <1>5, <2>1, FS_Union
  <2>3. Cardinality(stay \cup empty) = m /\ Cardinality(stay \cap empty) = 0
    <3>1. Cardinality(1..m) = m
      BY <1>2, FS_Interval
    <3>2. Cardinality({}) = 0
      BY FS_EmptySet
    <3>. QED BY <1>4, <3>1, <3>2
  <2>. QED BY ONLY <1>2, <1>3, <1>5, <1>6, <2>1, <2>2, <2>3
<1>8. ASSUME NEW k \in DOMAIN joining
      PROVE  NthSmallest(empty, k) \in empty /\ RankIn(empty, NthSmallest(empty, k)) = k
  <2>. HIDE DEF empty, joining
  <2>1. k \in 1..Cardinality(empty)
    BY <1>6, <1>7
  <2>. QED BY <1>2, <1>4, <2>1, NthFacts
<1>9. /\ joined \in SUBSET empty /\ joined \in SUBSET (1..m)
      /\ IsFiniteSet(joined) /\ Cardinality(joined) = Len(joining)
  <2>1. joined \in SUBSET empty
    <3>. HIDE DEF empty, joining
    <3>. QED BY ONLY <1>8
  <2>. DEFINE K == DOMAIN joining
              g == [k \in K |-> NthSmallest(empty, k)]
  <2>2. g \in Surjection(K, joined)
    BY DEF Surjection
  <2>3. g \in Injection(K, joined)
    <3>1. g \in [K -> joined]
      OBVIOUS
    <3>2. \A x, y \in K : g[x] = g[y] => x = y
      BY <1>8
    <3>. HIDE DEF g, K, joined
    <3>. QED BY <3>1, <3>2 DEF Injection, IsInjective
  <2>4. IsFiniteSet(K) /\ Cardinality(K) = Len(joining)
    <3>. DEFINE len == Len(joining)
    <3>1. K = 1..len /\ len \in Nat
      BY <1>6
    <3>. HIDE DEF len, K
    <3>2. IsFiniteSet(1..len) /\ Cardinality(1..len) = len
      BY ONLY <3>1, FS_Interval
    <3>. QED BY <3>1, <3>2 DEF len
  <2>. HIDE DEF g, K, joined, empty
  <2>5. Cardinality(joined) = Cardinality(K) /\ IsFiniteSet(joined)
    BY <2>2, <2>3, <2>4, FS_Surjection
  <2>. QED BY <1>4, <2>1, <2>4, <2>5
<1>10. stay \cap joined = {} /\ occupied \in SUBSET (1..m) /\ Cardinality(occupied) = n
  <2>. HIDE DEF stay, joined, empty, n, joining
  <2>1. stay \cap joined = {} /\ occupied \in SUBSET (1..m)
    BY <1>4, <1>9
  <2>2. Cardinality(stay \cup joined)
          = Cardinality(stay) + Cardinality(joined) - Cardinality(stay \cap joined)
    BY <1>5, <1>9, FS_Union
  <2>3. Cardinality(stay \cap joined) = 0
    BY <2>1, FS_EmptySet
  <2>. QED BY <1>5, <1>6, <1>9, <2>1, <2>2, <2>3
<1>11. ASSUME NEW row \in occupied PROVE at(row) \in batch
  <2>1. CASE row \in stay
    BY <2>1
  <2>2. CASE row \notin stay
    <3>1. row \in joined
      BY <2>2
    <3>2. RankIn(joined, row) \in 1..Len(joining)
      <4>. HIDE DEF joined, joining
      <4>. QED BY <1>2, <1>9, <3>1, RankFacts
    <3>3. joining[RankIn(joined, row)] \in ToSet(joining)
      <4>. HIDE DEF joined, joining
      <4>. QED BY <1>6, <3>2 DEF ToSet
    <3>. HIDE DEF joined, joining, stay, kept
    <3>. QED BY <1>6, <2>2, <3>3
  <2>. QED BY <2>1, <2>2
<1>12. ASSUME NEW b \in batch PROVE \E row \in occupied : at(row) = b
  <2>1. CASE b \in kept
    BY <2>1
  <2>2. CASE b \notin kept
    <3>. HIDE DEF joined, joining, stay, kept
    <3>1. b \in ToSet(joining)
      BY <1>6, <2>2
    <3>2. PICK k \in 1..Len(joining) : joining[k] = b
      BY <1>6, <3>1 DEF ToSet
    <3>3. \A j \in 1..Cardinality(joined) : \E row \in joined : RankIn(joined, row) = j
      BY <1>2, <1>9, RankFacts
    <3>4. PICK row \in joined : RankIn(joined, row) = k
      BY <1>9, <3>2, <3>3
    <3>5. row \notin stay /\ row \in occupied
      BY <1>10, <3>4
    <3>. QED BY <3>2, <3>4, <3>5
  <2>. QED BY <2>1, <2>2
<1>. HIDE DEF at, occupied, n, batch
<1>13. /\ \A row \in H : NthLargest(occupied, RankIn(H, row)) \in occupied
       /\ \A x \in occupied \ (1..n) :
            \E row \in H : NthLargest(occupied, RankIn(H, row)) = x
  <2>. DEFINE k == Cardinality(occupied)
              G == (1..k) \ occupied
  <2>1. /\ \A row \in G : NthLargest(occupied, RankIn(G, row)) \in occupied
        /\ \A x \in occupied \ (1..k) :
             \E row \in G : NthLargest(occupied, RankIn(G, row)) = x
    BY <1>2, <1>10, Condensed
  <2>2. k = n
    BY <1>10
  <2>. HIDE DEF k
  <2>. QED BY <2>1, <2>2
<1>14. f \in [1..n -> batch]
  BY <1>11, <1>13
<1>15. ASSUME NEW b \in batch PROVE \E row \in 1..n : f[row] = b
  <2>1. PICK x \in occupied : at(x) = b
    BY <1>12
  <2>2. CASE x \in 1..n
    BY <2>1, <2>2
  <2>3. CASE x \notin 1..n
    <3>1. PICK row \in H : NthLargest(occupied, RankIn(H, row)) = x
      BY <1>13, <2>3
    <3>. QED BY <2>1, <3>1
  <2>. QED BY <2>2, <2>3
<1>. HIDE DEF f
<1>16. batch \in SUBSET Requests
  BY DEF batch, ToSet
<1>17. f \in Seq(Requests) /\ Len(f) = n /\ DOMAIN f = 1..n
  <2>1. f \in [1..n -> Requests]
    BY <1>14, <1>16
  <2>. QED BY <1>3, <2>1
<1>18. ToSet(f) = batch
  BY <1>14, <1>15, <1>17 DEF ToSet
<1>19. IsInjective(f)
  <2>1. f \in Surjection(1..n, batch)
    BY <1>14, <1>15 DEF Surjection
  <2>2. IsFiniteSet(1..n) /\ Cardinality(1..n) = n
    BY ONLY <1>3, CountTo
  <2>3. f \in Injection(1..n, batch)
    BY <2>1, <2>2, FS_Surjection DEF n
  <2>. QED BY <1>17, <2>3 DEF Injection, IsInjective
<1>. QED BY <1>1, <1>3, <1>17, <1>18, <1>19 DEF batch

-------------------------------------------------------------------------------
(* Positions and slots. *)

Offsets == 0..(BlockSize - 1)

\* The position that is at this offset of the i-th block.
At(i, o) == (i - 1) * BlockSize + o

LEMMA AtFacts ==
  ASSUME NEW i \in Nat \ {0}, NEW o \in Offsets
  PROVE  /\ At(i, o) \in Nat /\ At(i, o) + 1 = i * BlockSize - BlockSize + o + 1
         /\ \A n \in Nat : i <= n <=> At(i, o) < n * BlockSize
<1>. DEFINE d == BlockSize
            x == (i - 1) * BlockSize
<1>1. d \in Nat /\ d > 0 /\ o \in Nat /\ o < d
  BY Limits DEF Offsets
<1>2. x \in Nat
  <2>1. i - 1 \in Nat
    OBVIOUS
  <2>. QED BY <2>1, RoomGrows
<1>3. x = i * d - d
  BY <1>1
<1>4. ASSUME NEW n \in Nat PROVE i <= n <=> x + o < n * BlockSize
  <2>1. i - 1 \in Nat /\ i \in Nat
    OBVIOUS
  <2>2. i <= n <=> i * BlockSize <= n * BlockSize
    BY <2>1, RoomGrows
  <2>3. n <= i - 1 <=> n * BlockSize <= (i - 1) * BlockSize
    BY <2>1, RoomGrows
  <2>4. n * BlockSize \in Nat /\ i * BlockSize \in Nat
    BY <2>1, RoomGrows
  <2>. DEFINE y == n * BlockSize
              z == i * BlockSize
  <2>5. z = x + d
    BY <1>1, <1>3, <2>1
  <2>. HIDE DEF x, y, z, d
  <2>6. y \in Nat /\ z \in Nat /\ (i <= n <=> z <= y) /\ (n <= i - 1 <=> y <= x)
    BY <2>2, <2>3, <2>4 DEF x, y, z
  <2>7. i <= n <=> x + o < y
    BY <1>1, <1>2, <2>1, <2>5, <2>6
  <2>. QED BY <2>7 DEF y
<1>. HIDE DEF x
<1>5. At(i, o) = x + o
  BY DEF At, x
<1>. QED BY <1>1, <1>2, <1>3, <1>4, <1>5

\* Where a position is.
LEMMA PlaceFacts ==
  ASSUME NEW p \in Nat
  PROVE  /\ p \div BlockSize + 1 \in Nat \ {0} /\ p % BlockSize \in Offsets
         /\ At(p \div BlockSize + 1, p % BlockSize) = p
         /\ \A n \in Nat : p \div BlockSize + 1 <= n <=> p < n * BlockSize
<1>. DEFINE d == BlockSize
            q == p \div d
            o == p % d
<1>1. d \in Nat /\ d > 0
  BY Limits
<1>. HIDE DEF d
<1>2. q \in Nat /\ o \in 0..(d - 1) /\ p = d * q + o
  BY <1>1, DivMod
<1>. HIDE DEF q, o
<1>3. q + 1 \in Nat \ {0} /\ o \in Offsets
  BY <1>2 DEF Offsets, d
<1>4. At(q + 1, o) = p
  <2>1. (q + 1) - 1 = q
    BY <1>2
  <2>2. q * d = d * q
    BY <1>1, <1>2
  <2>. QED BY <1>2, <2>1, <2>2 DEF At, d
<1>5. \A n \in Nat : q + 1 <= n <=> p < n * BlockSize
  BY <1>3, <1>4, AtFacts
<1>. QED BY <1>3, <1>4, <1>5 DEF q, o, d

\* The block and the offset of a position are its own.
LEMMA PlaceOfAt ==
  ASSUME NEW i \in Nat \ {0}, NEW o \in Offsets
  PROVE  At(i, o) \div BlockSize + 1 = i /\ At(i, o) % BlockSize = o
<1>. DEFINE p == At(i, o)
            c == p \div BlockSize + 1
            x == p % BlockSize
<1>1. p \in Nat /\ \A n \in Nat : i <= n <=> p < n * BlockSize
  BY AtFacts
<1>2. /\ c \in Nat \ {0} /\ x \in Offsets /\ At(c, x) = p
      /\ \A n \in Nat : c <= n <=> p < n * BlockSize
  <2>. HIDE DEF p
  <2>. QED BY <1>1, PlaceFacts
<1>. HIDE DEF p, c, x
<1>3. c = i
  <2>1. c <= c <=> i <= c
    BY <1>1, <1>2
  <2>2. c <= i <=> i <= i
    BY <1>1, <1>2
  <2>. QED BY <1>2, <2>1, <2>2
<1>4. x = o
  <2>. DEFINE y == (i - 1) * BlockSize
  <2>1. y + x = y + o
    BY <1>2, <1>3 DEF At, p
  <2>2. y \in Nat
    <3>1. i - 1 \in Nat
      OBVIOUS
    <3>. QED BY <3>1, RoomGrows
  <2>. HIDE DEF y
  <2>. QED BY <1>2, <2>1, <2>2, Limits DEF Offsets
<1>. QED BY <1>3, <1>4 DEF p, c, x

\* A prefix of a prefix.
LEMMA PrefixOfPrefix ==
  ASSUME NEW T, NEW ts \in Seq(T), NEW m \in 0..Len(ts), NEW n \in 0..m
  PROVE  Len(SubSeq(ts, 1, m)) = m /\ SubSeq(SubSeq(ts, 1, m), 1, n) = SubSeq(ts, 1, n)
<1>. DEFINE s == SubSeq(ts, 1, m)
            len == Len(ts)
<1>1. len \in Nat /\ m \in Nat /\ m <= len /\ n \in Nat /\ n <= m
  OBVIOUS
<1>2. s \in Seq(T) /\ Len(s) = m /\ \A k \in 1..m : s[k] = ts[k]
  <2>. HIDE DEF s, len
  <2>. QED BY <1>1, SubSeqProperties DEF s, len
<1>3. /\ SubSeq(ts, 1, n) = [k \in 1..n |-> ts[k]]
      /\ SubSeq(s, 1, n) = [k \in 1..n |-> s[k]]
  <2>. HIDE DEF s, len
  <2>. QED BY <1>1, <1>2
<1>. HIDE DEF s
<1>4. SubSeq(s, 1, n) = SubSeq(ts, 1, n)
  BY <1>1, <1>2, <1>3
<1>. QED BY <1>2, <1>4 DEF s

\* The tokens up to a position of a full block, by the block's hash.
LEMMA HashSlot ==
  ASSUME NEW ts \in Seq(Tokens), NEW i \in Nat \ {0}, i * BlockSize <= Len(ts),
         NEW o \in Offsets, NEW h, h = SubSeq(ts, 1, i * BlockSize)
  PROVE  /\ At(i, o) < Len(ts) /\ Len(h) - BlockSize + o + 1 = At(i, o) + 1
         /\ SubSeq(h, 1, Len(h) - BlockSize + o + 1) = SubSeq(ts, 1, At(i, o) + 1)
<1>. DEFINE m == i * BlockSize
            a == At(i, o)
<1>1. m \in Nat /\ a \in Nat /\ a < m /\ a + 1 = m - BlockSize + o + 1
  <2>1. i \in Nat /\ i <= i
    OBVIOUS
  <2>. QED BY <2>1, RoomGrows, AtFacts
<1>. HIDE DEF m, a
<1>2. m <= Len(ts) /\ h = SubSeq(ts, 1, m) /\ Len(ts) \in Nat
  BY DEF m
<1>3. Len(h) = m /\ SubSeq(h, 1, a + 1) = SubSeq(ts, 1, a + 1)
  <2>1. m \in 0..Len(ts) /\ a + 1 \in 0..m
    BY <1>1, <1>2
  <2>. QED BY <1>2, <2>1, PrefixOfPrefix
<1>4. a < Len(ts)
  BY <1>1, <1>2
<1>. QED BY <1>1, <1>3, <1>4 DEF a

-------------------------------------------------------------------------------
(* The inductive invariant, on top of the scheduler's. *)

\* What r has in the cache: the scheduler counts tokens before they are computed.
Done(r) == IF InBatch(r) THEN computed[r] - step.scheduled[r] ELSE computed[r]

\* What it will have at the end of the step.
End(r) == IF phase = "update" THEN computed[r] ELSE computed[r] + step.scheduled[r]

\* No request has two rows, and there are rows for all that may run.
RowTypes ==
  /\ rows \in Seq(Requests) /\ Len(rows) <= MaxNumSeqs /\ IsInjective(rows)
  /\ Len(running) <= MaxNumSeqs
  /\ table \in [Rows -> [Columns -> Blocks \cup {NullBlock}]]

\* The worker has a row for each request whose step it computes, with its blocks.
RowInv ==
  /\ RowTypes
  /\ \A r \in Requests : InBatch(r) =>
       \A c \in DOMAIN blocks[r] \cap Columns : table[RowIn(rows, r)][c] = blocks[r][c]

\* Blocks are cached as far as they are computed when the step ends.
DoneInv ==
  \A r \in ToSet(running) :
    /\ cachedBlocks[r] * BlockSize <= End(r)
    /\ InBatch(r) => step.scheduled[r] <= computed[r] /\ Done(r) < Len(tokens[r])

\* What is computed of r is there, in the blocks without a hash.
OwnInv ==
  \A r \in ToSet(running), i \in Nat \ {0}, o \in Offsets :
    i > cachedBlocks[r] /\ At(i, o) < Done(r) =>
      kv[blocks[r][i]][o] = Content(SubSeq(tokens[r], 1, At(i, o) + 1))

\* A slot of a block with a hash has what the hash says.
Right(b, o) ==
  kv[b][o] = Content(SubSeq(pool.hash[b], 1, Len(pool.hash[b]) - BlockSize + o + 1))

\* A request that holds the block will write there before the step ends.
Pending(b, o) ==
  \E r \in ToSet(running) : \E i \in DOMAIN blocks[r] :
    i <= cachedBlocks[r] /\ blocks[r][i] = b /\ At(i, o) >= Done(r)

CachedInv ==
  \A b \in Blocks : pool.hash[b] # NoHash =>
    \A o \in Offsets : Right(b, o) \/ Pending(b, o)

KVInv == RowInv /\ DoneInv /\ OwnInv /\ CachedInv

\* What the lemmas need of the types.
LEMMA RunningTypes ==
  ASSUME IInv
  PROVE  /\ \A r \in ToSet(running) : r \in Requests
         /\ \A r \in Requests :
              /\ tokens[r] \in Seq(Tokens) /\ Len(tokens[r]) \in Nat
              /\ computed[r] \in Nat /\ step.scheduled[r] \in Nat
              /\ blocks[r] \in Seq(Blocks) /\ Len(blocks[r]) \in Nat
              /\ DOMAIN blocks[r] = 1..Len(blocks[r])
              /\ \A i \in DOMAIN blocks[r] : i \in Nat \ {0} /\ blocks[r][i] \in Blocks
              /\ cachedBlocks[r] \in Nat
              /\ Done(r) \in Int
<1>1. /\ tokens \in [Requests -> Seq(Tokens)] /\ computed \in [Requests -> Nat]
      /\ blocks \in [Requests -> Seq(Blocks)] /\ cachedBlocks \in [Requests -> Nat]
      /\ step.scheduled \in [Requests -> Nat] /\ running \in Seq(Requests)
  BY DEF IInv, TypeInv, Steps
<1>2. \A r \in ToSet(running) : r \in Requests
  BY <1>1 DEF ToSet
<1>3. ASSUME NEW r \in Requests
      PROVE  /\ tokens[r] \in Seq(Tokens) /\ Len(tokens[r]) \in Nat
             /\ computed[r] \in Nat /\ step.scheduled[r] \in Nat
             /\ blocks[r] \in Seq(Blocks) /\ Len(blocks[r]) \in Nat
             /\ DOMAIN blocks[r] = 1..Len(blocks[r])
             /\ \A i \in DOMAIN blocks[r] : i \in Nat \ {0} /\ blocks[r][i] \in Blocks
             /\ cachedBlocks[r] \in Nat
  <2>1. tokens[r] \in Seq(Tokens) /\ blocks[r] \in Seq(Blocks)
    BY <1>1
  <2>2. computed[r] \in Nat /\ step.scheduled[r] \in Nat /\ cachedBlocks[r] \in Nat
    BY <1>1
  <2>. QED BY <2>1, <2>2
<1>4. ASSUME NEW r \in Requests PROVE Done(r) \in Int
  <2>1. computed[r] \in Nat /\ step.scheduled[r] \in Nat
    BY <1>1
  <2>. QED BY <2>1 DEF Done
<1>. QED BY <1>2, <1>3, <1>4

\* A block is held without a hash beyond those counted as cached, and by no other then.
LEMMA CachedFacts ==
  ASSUME IInv, NEW r \in Requests, NEW i \in DOMAIN blocks[r]
  PROVE  /\ i <= cachedBlocks[r] =>
              /\ i * BlockSize <= Len(tokens[r])
              /\ pool.hash[blocks[r][i]] = SubSeq(tokens[r], 1, i * BlockSize)
         /\ i > cachedBlocks[r] =>
              /\ pool.hash[blocks[r][i]] = NoHash
              /\ \A q \in Requests : q # r => blocks[r][i] \notin ToSet(blocks[q])
<1>1. i \in Nat \ {0} /\ cachedBlocks[r] \in Nat /\ blocks[r][i] \in Blocks
  BY RunningTypes
<1>2. IF i <= cachedBlocks[r]
        THEN /\ i * BlockSize <= Len(tokens[r])
             /\ pool.hash[blocks[r][i]] = SubSeq(tokens[r], 1, i * BlockSize)
        ELSE pool.hash[blocks[r][i]] = NoHash
  BY DEF IInv, CacheInv, CommittedBlocksAreCached
<1>3. ASSUME i > cachedBlocks[r], NEW q \in Requests, q # r, blocks[r][i] \in ToSet(blocks[q])
      PROVE  FALSE
  <2>. DEFINE b == blocks[r][i]
  <2>1. b \in ToSet(blocks[r])
    BY DEF ToSet
  <2>2. q \in Holders(b) /\ r \in Holders(b)
    BY <1>3, <2>1 DEF Holders, Holds
  <2>3. pool.hash[b] # NoHash
    <3>. HIDE DEF b
    <3>. QED BY <1>1, <1>3, <2>2 DEF IInv, AccountInv, b
  <2>. QED BY <1>1, <1>2, <1>3, <2>3
<1>. QED BY <1>1, <1>2, <1>3

\* The tokens of a slot of a committed block, by its hash.
LEMMA CachedSlot ==
  ASSUME IInv, NEW r \in Requests, NEW i \in DOMAIN blocks[r], i <= cachedBlocks[r],
         NEW o \in Offsets
  PROVE  /\ At(i, o) \in Nat /\ At(i, o) < Len(tokens[r]) /\ pool.hash[blocks[r][i]] # NoHash
         /\ SubSeq(pool.hash[blocks[r][i]], 1, Len(pool.hash[blocks[r][i]]) - BlockSize + o + 1)
              = SubSeq(tokens[r], 1, At(i, o) + 1)
         /\ Right(blocks[r][i], o) <=>
              kv[blocks[r][i]][o] = Content(SubSeq(tokens[r], 1, At(i, o) + 1))
<1>1. i \in Nat \ {0} /\ tokens[r] \in Seq(Tokens)
  BY RunningTypes
<1>2. /\ i * BlockSize <= Len(tokens[r])
      /\ pool.hash[blocks[r][i]] = SubSeq(tokens[r], 1, i * BlockSize)
  BY CachedFacts
<1>. DEFINE h == pool.hash[blocks[r][i]]
<1>3. /\ At(i, o) < Len(tokens[r])
      /\ SubSeq(h, 1, Len(h) - BlockSize + o + 1) = SubSeq(tokens[r], 1, At(i, o) + 1)
  <2>. HIDE DEF h
  <2>. QED BY <1>1, <1>2, HashSlot DEF h
<1>4. h # NoHash
  BY <1>1, <1>2, PrefixNotEmpty
<1>5. At(i, o) \in Nat
  BY <1>1, AtFacts
<1>. QED BY <1>3, <1>4, <1>5 DEF Right

\* Blocks given back keep their hash.
LEMMA FreedHashes ==
  ASSUME TypeInv, AccountInv, CacheInv, NEW r \in Requests, Free(r)
  PROVE  /\ pool'.hash = pool.hash
         /\ blocks' = [blocks EXCEPT ![r] = <<>>]
         /\ cachedBlocks' = [cachedBlocks EXCEPT ![r] = 0]
BY DEF Free, FreeBlocks, TypeInv, Pools

-------------------------------------------------------------------------------
(* Steps that write nothing and give no blocks. *)

\* What is in the cache stays right while requests at most leave, having nothing to
\* write any more, and those that stay have what they had.
LEMMA CacheStays ==
  ASSUME IInv, KVInv, kv' = kv, rollout' = rollout, pool'.hash = pool.hash,
         \A r \in ToSet(running') :
           /\ r \in ToSet(running) /\ tokens'[r] = tokens[r] /\ blocks'[r] = blocks[r]
           /\ cachedBlocks'[r] = cachedBlocks[r] /\ Done(r)' = Done(r),
         \A r \in ToSet(running) :
           r \in ToSet(running') \/ cachedBlocks[r] * BlockSize <= Done(r)
  PROVE  OwnInv' /\ CachedInv'
<1>1. OwnInv'
  <2>. SUFFICES ASSUME NEW r \in ToSet(running'), NEW i \in Nat \ {0}, NEW o \in Offsets,
                       i > cachedBlocks'[r], At(i, o) < Done(r)'
                PROVE  kv'[blocks'[r][i]][o] = [prefix |-> SubSeq(tokens'[r], 1, At(i, o) + 1),
                                                weights |-> rollout']
    BY DEF OwnInv, Content
  <2>1. /\ r \in ToSet(running) /\ i > cachedBlocks[r] /\ At(i, o) < Done(r)
        /\ tokens'[r] = tokens[r] /\ blocks'[r] = blocks[r]
    OBVIOUS
  <2>2. kv[blocks[r][i]][o] = Content(SubSeq(tokens[r], 1, At(i, o) + 1))
    BY <2>1 DEF KVInv, OwnInv
  <2>. QED BY <2>1, <2>2 DEF Content
<1>2. CachedInv'
  <2>. SUFFICES ASSUME NEW b \in Blocks, pool'.hash[b] # NoHash, NEW o \in Offsets
                PROVE  Right(b, o)' \/ Pending(b, o)'
    BY DEF CachedInv
  <2>1. Right(b, o) \/ Pending(b, o)
    BY DEF KVInv, CachedInv
  <2>2. CASE Right(b, o)
    BY <2>2 DEF Right, Content
  <2>3. CASE Pending(b, o)
    <3>0. PICK r \in ToSet(running) : \E i \in DOMAIN blocks[r] :
            i <= cachedBlocks[r] /\ blocks[r][i] = b /\ At(i, o) >= Done(r)
      BY <2>3 DEF Pending
    <3>1. PICK i \in DOMAIN blocks[r] :
            i <= cachedBlocks[r] /\ blocks[r][i] = b /\ At(i, o) >= Done(r)
      BY <3>0
    <3>2. r \in ToSet(running')
      <4>1. /\ i \in Nat \ {0} /\ cachedBlocks[r] \in Nat /\ Done(r) \in Int
        BY RunningTypes
      <4>2. At(i, o) \in Nat /\ (i <= cachedBlocks[r] <=> At(i, o) < cachedBlocks[r] * BlockSize)
        BY <4>1, AtFacts
      <4>3. cachedBlocks[r] * BlockSize \in Nat
        BY <4>1, RoomGrows
      <4>4. ~(cachedBlocks[r] * BlockSize <= Done(r))
        BY <3>1, <4>1, <4>2, <4>3
      <4>. QED BY <4>4
    <3>3. Pending(b, o)'
      BY <3>1, <3>2 DEF Pending
    <3>. QED BY <3>3
  <2>. QED BY <2>1, <2>2, <2>3
<1>. QED BY <1>1, <1>2

\* A step of the scheduler that is not the forward pass.
LEMMA QuietStep ==
  ASSUME IInv, KVInv, phase' # "update", UNCHANGED <<rows, table, kv, rollout>>,
         pool'.hash = pool.hash, Len(running') <= MaxNumSeqs,
         \A r \in ToSet(running') :
           /\ r \in ToSet(running) /\ tokens'[r] = tokens[r] /\ blocks'[r] = blocks[r]
           /\ cachedBlocks'[r] = cachedBlocks[r]
           /\ computed'[r] = Done(r) /\ computed'[r] + step'.scheduled[r] = End(r),
         \A r \in ToSet(running) :
           r \in ToSet(running') \/ cachedBlocks[r] * BlockSize <= Done(r)
  PROVE  KVInv'
<1>1. \A r : ~InBatch(r)'
  BY DEF InBatch
<1>2. \A r : Done(r)' = computed'[r] /\ End(r)' = computed'[r] + step'.scheduled[r]
  BY <1>1 DEF Done, End
<1>3. OwnInv' /\ CachedInv'
  BY <1>2, CacheStays
<1>4. DoneInv'
  BY <1>1, <1>2 DEF KVInv, DoneInv
<1>5. RowInv'
  BY <1>1 DEF KVInv, RowInv, RowTypes
<1>. QED BY <1>3, <1>4, <1>5 DEF KVInv

\* Nothing runs at first.
LEMMA KVInitInv == KVInit => IInv /\ KVInv
<1>. SUFFICES ASSUME KVInit PROVE IInv /\ KVInv
  OBVIOUS
<1>1. /\ Init /\ running = <<>> /\ rows = <<>> /\ phase = "idle"
      /\ table = [row \in Rows |-> [column \in Columns |-> NullBlock]]
      /\ pool = FullPool
  BY DEF KVInit, Init
<1>2. IInv
  BY <1>1, InitInv
<1>3. ToSet(running) = {}
  BY <1>1 DEF ToSet
<1>4. \A b \in Blocks : pool.hash[b] = NoHash
  BY <1>1 DEF FullPool
<1>5. RowInv
  <2>1. rows \in Seq(Requests) /\ Len(rows) = 0 /\ IsInjective(rows) /\ Len(running) = 0
    BY <1>1 DEF IsInjective
  <2>2. table \in [Rows -> [Columns -> Blocks \cup {NullBlock}]]
    BY <1>1
  <2>3. \A r : ~InBatch(r)
    BY <1>1 DEF InBatch
  <2>. QED BY <2>1, <2>2, <2>3, LimitsAssumption DEF RowInv, RowTypes
<1>. QED BY <1>2, <1>3, <1>4, <1>5 DEF KVInv, DoneInv, OwnInv, CachedInv

\* Before the forward pass all that is counted is done.
LEMMA NotInBatch ==
  ASSUME phase # "update"
  PROVE  \A r : ~InBatch(r) /\ Done(r) = computed[r] /\ End(r) = computed[r] + step.scheduled[r]
BY DEF InBatch, Done, End

LEMMA TurnsKeepKV ==
  ASSUME IInv, KVInv, StartStep \/ RunningScheduled \/ WaitingScheduled, UNCHANGED workerVars
  PROVE  KVInv'
<1>1. /\ phase # "update" /\ phase' # "update"
      /\ UNCHANGED <<tokens, computed, running, pool, blocks, cachedBlocks, step, rollout>>
      /\ UNCHANGED <<rows, table, kv>>
  BY DEF StartStep, RunningScheduled, WaitingScheduled, requestVars, queueVars, cacheVars,
         rolloutVars, workerVars
<1>2. Len(running) <= MaxNumSeqs
  BY DEF KVInv, RowInv, RowTypes
<1>. QED BY <1>1, <1>2, NotInBatch, QuietStep

\* The request that makes room is one the step has not reached.
LEMMA PreemptLastKeepsKV ==
  ASSUME IInv, KVInv, NEW r \in Requests, PreemptLast(r), UNCHANGED workerVars
  PROVE  KVInv'
<1>. DEFINE p == Last(running)
<1>1. /\ phase = "running" /\ phase' # "update" /\ step.index <= Len(running)
      /\ running' = Front(running) /\ Free(p)
      /\ computed' = [computed EXCEPT ![p] = 0]
      /\ step' = [step EXCEPT !.preempted = TRUE]
      /\ tokens' = tokens /\ rollout' = rollout /\ UNCHANGED <<rows, table, kv>>
  BY DEF PreemptLast, AtRunning, rolloutVars, workerVars
<1>2. /\ running \in Seq(Requests) /\ IsInjective(running) /\ step.index \in Nat \ {0}
      /\ step \in Steps /\ computed \in [Requests -> Nat]
  BY DEF IInv, TypeInv, QueueInv, Steps
<1>3. running # <<>>
  BY <1>1, <1>2
<1>4. /\ Len(Front(running)) = Len(running) - 1 /\ p \in Requests /\ p \in ToSet(running)
      /\ ToSet(Front(running)) = ToSet(running) \ {p}
  BY <1>2, <1>3, FrontFacts
<1>5. step.scheduled[p] = 0
  <2>1. p = running[Len(running)] /\ Len(running) \in DOMAIN running /\ Len(running) \in Nat
    BY <1>2, <1>3 DEF Last
  <2>2. \A i \in DOMAIN running : running[i] = p => i = Len(running)
    BY <1>2, <2>1 DEF IsInjective
  <2>3. ~(step.scheduled[p] > 0)
    <3>1. step.scheduled[p] > 0 => \E i \in DOMAIN running : i < step.index /\ running[i] = p
      BY <1>1, <1>4 DEF IInv, StepInv
    <3>. HIDE DEF p
    <3>. QED BY <1>1, <1>2, <2>1, <2>2, <3>1
  <2>. QED BY <1>4, <2>3, RunningTypes
<1>. HIDE DEF p
<1>6. /\ pool'.hash = pool.hash
      /\ blocks' = [blocks EXCEPT ![p] = <<>>]
      /\ cachedBlocks' = [cachedBlocks EXCEPT ![p] = 0]
  <2>. USE DEF IInv
  <2>1. TypeInv /\ AccountInv /\ CacheInv
    OBVIOUS
  <2>. QED BY <1>1, <1>4, <2>1, FreedHashes
<1>7. step'.scheduled = step.scheduled
  BY <1>1, <1>2 DEF Steps
<1>8. cachedBlocks[p] * BlockSize <= Done(p)
  <2>1. cachedBlocks[p] * BlockSize <= computed[p] + step.scheduled[p] /\ Done(p) = computed[p]
    BY <1>1, <1>4, NotInBatch DEF KVInv, DoneInv
  <2>. QED BY <1>4, <1>5, <2>1, RunningTypes
<1>9. Len(running') <= MaxNumSeqs
  <2>1. Len(running) <= MaxNumSeqs
    BY DEF KVInv, RowInv, RowTypes
  <2>2. MaxNumSeqs \in Nat /\ Len(running) \in Nat
    BY <1>2, LimitsAssumption
  <2>. QED BY <1>1, <1>4, <2>1, <2>2
<1>10. ASSUME NEW q \in ToSet(running')
       PROVE  /\ q \in ToSet(running) /\ tokens'[q] = tokens[q] /\ blocks'[q] = blocks[q]
              /\ cachedBlocks'[q] = cachedBlocks[q]
              /\ computed'[q] = Done(q) /\ computed'[q] + step'.scheduled[q] = End(q)
  <2>1. q \in ToSet(running) /\ q # p /\ q \in Requests
    BY <1>1, <1>4, RunningTypes
  <2>2. Done(q) = computed[q] /\ End(q) = computed[q] + step.scheduled[q]
    BY <1>1, NotInBatch
  <2>3. computed'[q] = computed[q] /\ blocks'[q] = blocks[q] /\ cachedBlocks'[q] = cachedBlocks[q]
    BY <1>1, <1>2, <1>6, <2>1 DEF IInv, TypeInv
  <2>. QED BY <1>1, <1>7, <2>1, <2>2, <2>3
<1>11. \A q \in ToSet(running) :
         q \in ToSet(running') \/ cachedBlocks[q] * BlockSize <= Done(q)
  BY <1>1, <1>4, <1>8
<1>. QED BY <1>1, <1>6, <1>9, <1>10, <1>11, QuietStep

\* Those that are kept of a sequence without repetitions are no more.
LEMMA OnlyIsShorter ==
  ASSUME NEW s \in Seq(Requests), IsInjective(s), NEW S
  PROVE  /\ Only(s, S) \in Seq(Requests) /\ IsInjective(Only(s, S))
         /\ ToSet(Only(s, S)) = ToSet(s) \cap S /\ Len(Only(s, S)) <= Len(s)
<1>. DEFINE t == Only(s, S)
<1>1. t \in Seq(Requests) /\ IsInjective(t)
  BY OnlyPlaces, OnlyInjective
<1>2. ToSet(t) = ToSet(s) \cap S
  BY OnlyElements
<1>. HIDE DEF t
<1>3. /\ Cardinality(ToSet(t)) = Len(t) /\ Cardinality(ToSet(s)) = Len(s)
      /\ IsFiniteSet(ToSet(s))
  BY <1>1, InjectiveLength
<1>4. Cardinality(ToSet(t)) <= Cardinality(ToSet(s))
  BY <1>2, <1>3, FS_Subset
<1>5. Len(t) <= Len(s)
  BY <1>3, <1>4
<1>. QED BY <1>1, <1>2, <1>5 DEF t

\* The drafter does not write; the requests of the batch have been updated.
LEMMA WorkerProposesKeepsKV ==
  ASSUME Method = "ngram", IInv, KVInv, WorkerProposes
  PROVE  KVInv'
<1>1. /\ PostStep /\ phase = "update" /\ step.index > Len(step.batch) /\ phase' = "idle"
      /\ computed' = [r \in Requests |-> IF tokens[r] = <<>> THEN 0 ELSE computed[r]]
      /\ step' = NoStep
      /\ UNCHANGED <<tokens, running, pool, blocks, cachedBlocks, rollout>>
      /\ UNCHANGED <<rows, table, kv>>
  BY DEF WorkerProposes, DrafterWritesKV, PostStep, queueVars, cacheVars, rolloutVars
<1>2. \A q \in Requests : ~InBatch(q)
  <2>1. step.batch \in Seq(Requests) /\ step.index \in Nat
    BY DEF IInv, TypeInv, Steps
  <2>2. \A i \in DOMAIN step.batch : ~(i >= step.index)
    BY <1>1, <2>1
  <2>. QED BY <2>2 DEF InBatch
<1>3. ASSUME NEW q \in ToSet(running)
      PROVE  computed'[q] = Done(q) /\ computed'[q] + step'.scheduled[q] = End(q)
  <2>1. q \in Requests /\ computed[q] \in Nat
    BY RunningTypes
  <2>2. tokens[q] # <<>>
    BY <2>1 DEF IInv, QueueInv
  <2>3. computed'[q] = computed[q] /\ step'.scheduled[q] = 0
    BY <1>1, <2>1, <2>2, NoStepFacts
  <2>4. Done(q) = computed[q] /\ End(q) = computed[q]
    BY <1>1, <1>2, <2>1 DEF Done, End
  <2>. QED BY <2>1, <2>3, <2>4
<1>4. Len(running) <= MaxNumSeqs
  BY DEF KVInv, RowInv, RowTypes
<1>. QED BY <1>1, <1>3, <1>4, QuietStep

LEMMA AddRequestKeepsKV ==
  ASSUME IInv, KVInv, NEW r \in Requests, AddRequest(r), UNCHANGED workerVars
  PROVE  KVInv'
<1>1. /\ phase = "idle" /\ phase' = "idle" /\ r \in toCome
      /\ tokens' = [tokens EXCEPT ![r] = Prompt[r]]
      /\ UNCHANGED <<computed, running, pool, blocks, cachedBlocks, step, rollout>>
      /\ UNCHANGED <<rows, table, kv>>
  BY DEF AddRequest, cacheVars, workerVars
<1>2. ASSUME NEW q \in ToSet(running)
      PROVE  tokens'[q] = tokens[q]
  <2>1. tokens[r] = <<>> /\ tokens[q] # <<>>
    BY <1>1, RunningTypes DEF IInv, QueueInv
  <2>. QED BY <1>1, <2>1
<1>3. Len(running) <= MaxNumSeqs
  BY DEF KVInv, RowInv, RowTypes
<1>. QED BY <1>1, <1>2, <1>3, NotInBatch, QuietStep

LEMMA FinishRequestKeepsKV ==
  ASSUME IInv, KVInv, NEW r \in Requests, FinishRequest(r), UNCHANGED workerVars
  PROVE  KVInv'
<1>1. /\ phase = "idle" /\ phase' = "idle"
      /\ running' = Only(running, Requests \ {r}) /\ Free(r)
      /\ tokens' = [tokens EXCEPT ![r] = <<>>]
      /\ computed' = [computed EXCEPT ![r] = 0]
      /\ step' = step /\ rollout' = rollout
      /\ UNCHANGED <<rows, table, kv>>
  BY DEF FinishRequest, rolloutVars, workerVars
<1>2. /\ running \in Seq(Requests) /\ IsInjective(running)
      /\ TypeInv /\ AccountInv /\ CacheInv
  BY DEF IInv, TypeInv, QueueInv
<1>3. /\ ToSet(running') = ToSet(running) \cap (Requests \ {r})
      /\ Len(running') <= Len(running) /\ running' \in Seq(Requests)
  BY <1>1, <1>2, OnlyIsShorter
<1>4. /\ pool'.hash = pool.hash
      /\ blocks' = [blocks EXCEPT ![r] = <<>>]
      /\ cachedBlocks' = [cachedBlocks EXCEPT ![r] = 0]
  BY <1>1, <1>2, FreedHashes
<1>5. Len(running') <= MaxNumSeqs
  <2>1. Len(running) <= MaxNumSeqs
    BY DEF KVInv, RowInv, RowTypes
  <2>2. MaxNumSeqs \in Nat /\ Len(running) \in Nat /\ Len(running') \in Nat
    BY <1>2, <1>3, LimitsAssumption
  <2>. QED BY <1>3, <2>1, <2>2
<1>6. ASSUME NEW q \in ToSet(running')
      PROVE  /\ q \in ToSet(running) /\ tokens'[q] = tokens[q] /\ blocks'[q] = blocks[q]
             /\ cachedBlocks'[q] = cachedBlocks[q]
             /\ computed'[q] = Done(q) /\ computed'[q] + step'.scheduled[q] = End(q)
  <2>1. q \in ToSet(running) /\ q # r /\ q \in Requests
    BY <1>3
  <2>2. Done(q) = computed[q] /\ End(q) = computed[q] + step.scheduled[q]
    BY <1>1, NotInBatch
  <2>3. /\ computed'[q] = computed[q] /\ blocks'[q] = blocks[q] /\ tokens'[q] = tokens[q]
        /\ cachedBlocks'[q] = cachedBlocks[q]
    BY <1>1, <1>4, <2>1 DEF IInv, TypeInv
  <2>. QED BY <1>1, <2>1, <2>2, <2>3
<1>7. ASSUME NEW q \in ToSet(running)
      PROVE  q \in ToSet(running') \/ cachedBlocks[q] * BlockSize <= Done(q)
  <2>1. q \in Requests /\ computed[q] \in Nat
    BY RunningTypes
  <2>2. step.scheduled[q] = 0
    BY <1>1, <2>1, IdleFacts
  <2>3. cachedBlocks[q] * BlockSize <= computed[q] + step.scheduled[q] /\ Done(q) = computed[q]
    BY <1>1, NotInBatch DEF KVInv, DoneInv
  <2>. QED BY <2>1, <2>2, <2>3
<1>. QED BY <1>1, <1>4, <1>5, <1>6, <1>7, QuietStep

\* With all blocks free the cache is reset, and the weights may change.
LEMMA SleepKeepsKV ==
  ASSUME IInv, KVInv, SleepAndWakeUp, UNCHANGED workerVars
  PROVE  KVInv'
<1>1. /\ phase = "idle" /\ phase' = "idle" /\ running = <<>> /\ running' = running
      /\ pool' = ResetPrefixCache(pool)
      /\ UNCHANGED <<rows, table, blocks>>
  BY DEF SleepAndWakeUp, RolloutOver, requestVars, queueVars, workerVars
<1>2. ToSet(running) = {}
  BY <1>1 DEF ToSet
<1>3. \A q \in Requests : blocks[q] = <<>>
  BY <1>2 DEF IInv, NotRunningInv
<1>4. pool.free \in Seq(Blocks) /\ IsInjective(pool.free) /\ pool \in Pools(Tokens)
  BY DEF IInv, TypeInv, Pools, AccountInv
<1>5. ToSet(pool.free) = Blocks
  <2>1. \A b \in Blocks : Holders(b) = {}
    BY <1>3 DEF Holders, Holds, ToSet
  <2>2. \A b \in Blocks : b \in ToSet(pool.free)
    BY <2>1 DEF IInv, AccountInv
  <2>3. ToSet(pool.free) \subseteq Blocks
    BY <1>4 DEF ToSet
  <2>. QED BY <2>2, <2>3
<1>6. Len(pool.free) = NumBlocks
  <2>1. Cardinality(ToSet(pool.free)) = Len(pool.free)
    BY <1>4, InjectiveLength
  <2>2. Cardinality(1..NumBlocks) = NumBlocks
    BY Limits, CountTo
  <2>. QED BY <1>5, <2>1, <2>2 DEF Blocks
<1>7. \A b \in Blocks : pool'.hash[b] = NoHash
  <2>1. ~(Len(pool.free) < NumBlocks)
    BY <1>6, Limits
  <2>2. pool' = [pool EXCEPT !.hash = [b \in Blocks |-> NoHash]]
    BY <1>1, <2>1 DEF ResetPrefixCache
  <2>. QED BY <1>4, <2>2 DEF Pools
<1>8. \A q : ~InBatch(q)'
  BY <1>1 DEF InBatch
<1>9. RowInv'
  BY <1>1, <1>8 DEF KVInv, RowInv, RowTypes
<1>10. ToSet(running') = {}
  BY <1>1, <1>2
<1>. QED BY <1>7, <1>9, <1>10 DEF KVInv, DoneInv, OwnInv, CachedInv

-------------------------------------------------------------------------------
(* The forward pass begins: the worker gets its rows. *)

\* The batch is what is scheduled, and none of it is computed yet.
LEMMA ForwardFacts ==
  ASSUME IInv, Forward
  PROVE  /\ step'.batch \in Seq(Requests) /\ IsInjective(step'.batch)
         /\ Len(step'.batch) <= Len(running)
         /\ \A r \in Requests : InBatch(r)' <=> r \in ToSet(step'.batch)
         /\ \A r \in ToSet(running) :
              /\ InBatch(r)' <=> step.scheduled[r] > 0
              /\ computed'[r] = computed[r] + step.scheduled[r]
              /\ Done(r)' = Done(r) /\ Done(r) = computed[r]
              /\ End(r)' = End(r)
         /\ step'.scheduled = step.scheduled
<1>. DEFINE S == {r \in Requests : step.scheduled[r] > 0}
            s == Only(running, S)
<1>1. /\ phase = "forward" /\ phase' = "update"
      /\ computed' = [r \in Requests |-> computed[r] + step.scheduled[r]]
      /\ running' = running
  BY DEF Forward, queueVars
<1>2. step'.index = 1 /\ step'.batch = s /\ step'.scheduled = step.scheduled
  <2>1. /\ step \in Steps
    BY DEF IInv, TypeInv
  <2>. QED BY <2>1 DEF Forward, Steps
<1>3. running \in Seq(Requests) /\ IsInjective(running)
  BY DEF IInv, TypeInv, QueueInv
<1>4. /\ s \in Seq(Requests) /\ IsInjective(s) /\ Len(s) <= Len(running)
      /\ ToSet(s) = ToSet(running) \cap S
  BY <1>3, OnlyIsShorter
<1>. HIDE DEF s
<1>5. ASSUME NEW r \in Requests PROVE InBatch(r)' <=> r \in ToSet(s)
  <2>1. DOMAIN s = 1..Len(s) /\ Len(s) \in Nat
    BY <1>4
  <2>2. \A i \in DOMAIN s : i >= 1
    BY <2>1
  <2>. QED BY <1>1, <1>2, <2>2 DEF InBatch, ToSet
<1>6. ASSUME NEW r \in ToSet(running)
      PROVE  /\ InBatch(r)' <=> step.scheduled[r] > 0
             /\ computed'[r] = computed[r] + step.scheduled[r]
             /\ Done(r)' = Done(r) /\ Done(r) = computed[r]
             /\ End(r)' = End(r)
  <2>1. r \in Requests /\ computed[r] \in Nat /\ step.scheduled[r] \in Nat
    BY RunningTypes
  <2>2. InBatch(r)' <=> step.scheduled[r] > 0
    BY <1>4, <1>5, <2>1
  <2>3. Done(r) = computed[r] /\ End(r) = computed[r] + step.scheduled[r]
    BY <1>1, NotInBatch
  <2>4. computed'[r] = computed[r] + step.scheduled[r]
    BY <1>1, <2>1
  <2>5. Done(r)' = IF step.scheduled[r] > 0 THEN computed'[r] - step.scheduled[r] ELSE computed'[r]
    BY <1>2, <2>2 DEF Done
  <2>6. Done(r)' = computed[r]
    BY <2>1, <2>4, <2>5
  <2>7. End(r)' = computed'[r]
    BY <1>1 DEF End
  <2>. QED BY <2>2, <2>3, <2>4, <2>6, <2>7
<1>. QED BY <1>2, <1>4, <1>5, <1>6

\* The block table has the blocks of what is in the batch.
LEMMA TableUpdated ==
  ASSUME table \in [Rows -> [Columns -> Blocks \cup {NullBlock}]],
         blocks \in [Requests -> Seq(Blocks)],
         rows \in Seq(Requests), rows' \in Seq(Requests), Len(rows') <= MaxNumSeqs,
         table' = UpdatedTable
  PROVE  /\ table' \in [Rows -> [Columns -> Blocks \cup {NullBlock}]]
         /\ \A r \in ToSet(step'.batch) \cap ToSet(rows') :
              \A c \in DOMAIN blocks[r] \cap Columns : table'[RowIn(rows', r)][c] = blocks[r][c]
<1>. DEFINE entry(r, c, default) ==
              IF r \in ToSet(step'.batch) /\ c <= Len(blocks[r]) THEN blocks[r][c] ELSE default
            cell(row, c) ==
              IF row \in DOMAIN rows' THEN entry(rows'[row], c, table[row][c])
              ELSE IF row \in DOMAIN rows THEN entry(rows[row], c, table[row][c])
              ELSE table[row][c]
<1>1. table' = [row \in Rows |-> [c \in Columns |-> cell(row, c)]]
  BY DEF UpdatedTable
<1>2. ASSUME NEW row \in Rows, NEW c \in Columns
      PROVE  cell(row, c) \in Blocks \cup {NullBlock}
  <2>1. table[row][c] \in Blocks \cup {NullBlock}
    OBVIOUS
  <2>2. ASSUME NEW r \in Requests, c <= Len(blocks[r]) PROVE blocks[r][c] \in Blocks
    <3>1. blocks[r] \in Seq(Blocks) /\ c \in Nat /\ c >= 1
      BY Limits DEF Columns
    <3>. QED BY <2>2, <3>1
  <2>3. \A r \in Requests : entry(r, c, table[row][c]) \in Blocks \cup {NullBlock}
    BY <2>1, <2>2
  <2>4. /\ row \in DOMAIN rows' => rows'[row] \in Requests
        /\ row \in DOMAIN rows => rows[row] \in Requests
    OBVIOUS
  <2>. HIDE DEF entry
  <2>. QED BY <2>1, <2>3, <2>4
<1>3. ASSUME NEW r \in ToSet(step'.batch) \cap ToSet(rows'), NEW c \in DOMAIN blocks[r] \cap Columns
      PROVE  table'[RowIn(rows', r)][c] = blocks[r][c]
  <2>1. \E row \in DOMAIN rows' : rows'[row] = r
    BY DEF ToSet
  <2>2. RowIn(rows', r) \in DOMAIN rows' /\ rows'[RowIn(rows', r)] = r
    BY <2>1 DEF RowIn
  <2>3. RowIn(rows', r) \in Rows
    <3>1. DOMAIN rows' = 1..Len(rows') /\ Len(rows') \in Nat /\ MaxNumSeqs \in Nat
      BY LimitsAssumption
    <3>2. 1..Len(rows') \subseteq 1..MaxNumSeqs
      BY <3>1
    <3>. QED BY <2>2, <3>1, <3>2 DEF Rows
  <2>4. c <= Len(blocks[r])
    <3>1. r \in Requests
      BY <2>2
    <3>2. blocks[r] \in Seq(Blocks)
      BY <3>1
    <3>. QED BY <3>2
  <2>5. cell(RowIn(rows', r), c) = blocks[r][c]
    <3>. DEFINE row == RowIn(rows', r)
    <3>1. row \in DOMAIN rows' /\ rows'[row] = r
      BY <2>2
    <3>. HIDE DEF row
    <3>. QED BY <2>4, <3>1 DEF row
  <2>. HIDE DEF cell
  <2>. QED BY <1>1, <2>3, <2>5
<1>4. table' \in [Rows -> [Columns -> Blocks \cup {NullBlock}]]
  <2>. HIDE DEF cell
  <2>. QED BY <1>1, <1>2
<1>. QED BY <1>3, <1>4

LEMMA WorkerForwardKeepsKV ==
  ASSUME IInv, KVInv, WorkerForward
  PROVE  KVInv'
<1>1. /\ Forward /\ rows' = UpdatedRows /\ table' = UpdatedTable /\ kv' = kv
      /\ phase = "forward"
      /\ UNCHANGED <<tokens, running, pool, blocks, cachedBlocks, rollout>>
  BY DEF WorkerForward, Forward, queueVars, cacheVars, rolloutVars
<1>2. /\ rows \in Seq(Requests) /\ Len(rows) <= MaxNumSeqs /\ IsInjective(rows)
      /\ Len(running) <= MaxNumSeqs
      /\ table \in [Rows -> [Columns -> Blocks \cup {NullBlock}]]
  BY DEF KVInv, RowInv, RowTypes
<1>. DEFINE s == step'.batch
<1>3. /\ s \in Seq(Requests) /\ IsInjective(s) /\ Len(s) <= Len(running)
      /\ \A r \in Requests : InBatch(r)' <=> r \in ToSet(s)
      /\ step'.scheduled = step.scheduled
  BY <1>1, ForwardFacts
<1>4. \A r \in ToSet(running) :
        /\ InBatch(r)' <=> step.scheduled[r] > 0
        /\ computed'[r] = computed[r] + step.scheduled[r]
        /\ Done(r)' = Done(r) /\ Done(r) = computed[r]
        /\ End(r)' = End(r)
  BY <1>1, ForwardFacts
<1>5. /\ rows' \in Seq(Requests) /\ Len(rows') <= MaxNumSeqs /\ IsInjective(rows')
      /\ ToSet(rows') = ToSet(s)
  <2>1. Len(s) <= MaxNumSeqs
    <3>1. Len(s) \in Nat /\ Len(running) \in Nat /\ MaxNumSeqs \in Nat
      BY <1>3, LimitsAssumption DEF IInv, TypeInv
    <3>. HIDE DEF s
    <3>. QED BY <1>2, <1>3, <3>1
  <2>. QED BY <1>1, <1>2, <1>3, <2>1, ForwardRows
<1>6. RowInv'
  <2>1. blocks \in [Requests -> Seq(Blocks)]
    BY DEF IInv, TypeInv
  <2>2. /\ table' \in [Rows -> [Columns -> Blocks \cup {NullBlock}]]
        /\ \A r \in ToSet(s) \cap ToSet(rows') :
             \A c \in DOMAIN blocks[r] \cap Columns : table'[RowIn(rows', r)][c] = blocks[r][c]
    BY <1>1, <1>2, <1>5, <2>1, TableUpdated
  <2>. QED BY <1>1, <1>2, <1>3, <1>5, <2>2 DEF RowInv, RowTypes
<1>7. OwnInv' /\ CachedInv'
  BY <1>1, <1>4, CacheStays
<1>8. DoneInv'
  <2>. SUFFICES ASSUME NEW r \in ToSet(running)
                PROVE  /\ cachedBlocks[r] * BlockSize <= End(r)'
                       /\ InBatch(r)' => /\ step.scheduled[r] <= computed'[r]
                                        /\ Done(r)' < Len(tokens[r])
    BY <1>1, <1>3 DEF DoneInv
  <2>1. cachedBlocks[r] * BlockSize <= End(r)
    BY DEF KVInv, DoneInv
  <2>2. r \in Requests /\ computed[r] \in Nat /\ step.scheduled[r] \in Nat
    BY RunningTypes
  <2>3. computed[r] < Len(tokens[r])
    <3>1. ~InBatch(r)
      BY <1>1, NotInBatch
    <3>. QED BY <2>2, <3>1 DEF IInv, PositionInv, Behind
  <2>4. step.scheduled[r] <= computed'[r]
    BY <1>4, <2>2
  <2>. QED BY <1>4, <2>1, <2>3, <2>4
<1>. QED BY <1>6, <1>7, <1>8 DEF KVInv

-------------------------------------------------------------------------------
(* Blocks are given out. *)

\* How many blocks allocate_slots counts as cached afterwards.
CountedBlocks(r, found, n) ==
  Max({cachedBlocks[r] + Len(found), CommittedBlocks(r, found, n)})

\* The hashes after an allocation: new blocks have lost theirs, and the committed blocks
\* that had none have got them.
LEMMA AllocationHashes ==
  ASSUME IInv, NEW r, NEW found, NEW n, NEW lookahead,
         MayAllocate(r, found, n, lookahead), AllocateSlots(r, found, n, lookahead),
         tokens' = tokens
  PROVE  LET mine == AllocationOf(r, found, n, lookahead)
             cached == cachedBlocks[r] + Len(found)
             full == CommittedBlocks(r, found, n)
         IN  /\ mine \in Seq(Blocks)
             /\ \A i \in DOMAIN blocks[r] : i \in DOMAIN mine /\ mine[i] = blocks[r][i]
             /\ blocks'[r] = mine /\ cachedBlocks'[r] = CountedBlocks(r, found, n)
             /\ \A q \in Requests \ {r} :
                  blocks'[q] = blocks[q] /\ cachedBlocks'[q] = cachedBlocks[q]
             /\ full \in 0..Len(mine) /\ full * BlockSize <= Len(tokens[r])
             /\ \A i \in (cached + 1)..full :
                  pool'.hash[mine[i]] = SubSeq(tokens[r], 1, i * BlockSize)
             /\ \A b \in Blocks :
                  \/ \E i \in (cached + 1)..full : mine[i] = b
                  \/ pool'.hash[b] \in {NoHash, pool.hash[b]}
<1>. USE DEF IInv
<1>. DEFINE touched == Touch(pool, found)
            new == NewBlocks(r, found, n, lookahead)
            fresh == NextFree(touched, new)
            mine == AllocationOf(r, found, n, lookahead)
            given == GetNewBlocks(touched, new)
            cached == cachedBlocks[r] + Len(found)
            full == CommittedBlocks(r, found, n)
            ts == tokens[r]
<1>1. r \in Requests /\ found \in Seq(Blocks)
  BY DEF MayAllocate
<1>2. /\ ts \in Seq(Tokens) /\ blocks[r] \in Seq(Blocks) /\ cachedBlocks[r] \in Nat
      /\ cached \in Nat
  <2>1. ts \in Seq(Tokens) /\ blocks[r] \in Seq(Blocks) /\ cachedBlocks[r] \in Nat
    BY <1>1, RunningTypes
  <2>2. Len(found) \in Nat
    BY <1>1
  <2>. QED BY <2>1, <2>2
<1>3. /\ fresh \in Seq(Blocks) /\ mine \in Seq(Blocks) /\ IsInjective(mine)
      /\ given \in Pools(Tokens)
      /\ \A b \in Blocks : given.hash[b] = IF b \in ToSet(fresh) THEN NoHash ELSE pool.hash[b]
  BY AllocationOfNew
<1>4. full \in 0..Len(mine) /\ full * BlockSize <= Len(ts)
  BY AllocationHasRoom
<1>5. /\ pool' = CacheFullBlocks(given, mine, cached, full, ts)
      /\ blocks' = [blocks EXCEPT ![r] = mine]
      /\ cachedBlocks' = [cachedBlocks EXCEPT ![r] = Max({cached, full})]
  BY DEF AllocateSlots, AllocationOf, CommittedBlocks
<1>6. \A i \in DOMAIN blocks[r] : i \in DOMAIN mine /\ mine[i] = blocks[r][i]
  <2>. DEFINE own == blocks[r]
              rest == found \o fresh
  <2>1. mine = own \o found \o fresh
    BY DEF AllocationOf
  <2>. HIDE DEF own, rest, fresh, mine
  <2>2. own \in Seq(Blocks) /\ found \in Seq(Blocks) /\ fresh \in Seq(Blocks)
    BY <1>1, <1>2, <1>3 DEF own
  <2>3. \A i \in DOMAIN own : i \in DOMAIN mine /\ mine[i] = own[i]
    BY <2>1, <2>2
  <2>. QED BY <2>3 DEF own
<1>. HIDE DEF touched, new, fresh, mine, given, full, cached
<1>7. /\ \A i \in (cached + 1)..full : pool'.hash[mine[i]] = SubSeq(ts, 1, i * BlockSize)
      /\ \A b \in Blocks :
           (\A i \in (cached + 1)..full : mine[i] # b) => pool'.hash[b] = given.hash[b]
  <2>. DEFINE q == CacheFullBlocks(given, mine, cached, full, ts)
  <2>. HIDE DEF ts
  <2>1. /\ \A i \in (cached + 1)..full : q.hash[mine[i]] = SubSeq(ts, 1, i * BlockSize)
        /\ \A b \in Blocks :
             (\A i \in (cached + 1)..full : mine[i] # b) => q.hash[b] = given.hash[b]
    <3>1. given \in Pools(Tokens) /\ mine \in Seq(Blocks) /\ IsInjective(mine)
      BY <1>3
    <3>2. /\ cached \in Nat /\ full \in 0..Len(mine) /\ ts \in Seq(Tokens)
          /\ full * BlockSize <= Len(ts)
      BY <1>2, <1>4
    <3>. QED BY ONLY <3>1, <3>2, CacheFacts
  <2>2. pool' = q
    BY <1>5
  <2>. HIDE DEF q
  <2>. QED BY <2>1, <2>2
<1>8. \A b \in Blocks :
        \/ \E i \in (cached + 1)..full : mine[i] = b
        \/ pool'.hash[b] \in {NoHash, pool.hash[b]}
  BY <1>3, <1>7
<1>9. /\ blocks'[r] = mine /\ cachedBlocks'[r] = CountedBlocks(r, found, n)
      /\ \A q \in Requests \ {r} :
           blocks'[q] = blocks[q] /\ cachedBlocks'[q] = cachedBlocks[q]
  <2>1. blocks \in [Requests -> Seq(Blocks)] /\ cachedBlocks \in [Requests -> Nat]
    BY DEF TypeInv
  <2>2. CountedBlocks(r, found, n) = Max({cached, full})
    BY DEF CountedBlocks, cached, full
  <2>. QED BY <1>1, <1>5, <2>1, <2>2
<1>. QED BY <1>3, <1>4, <1>6, <1>7, <1>8, <1>9 DEF mine, full, cached

\* What gets a hash now has been computed, or is by the end of the step.
LEMMA AllocationKeepsKV ==
  ASSUME IInv, KVInv, NEW r, NEW found, NEW n, NEW lookahead,
         MayAllocate(r, found, n, lookahead), AllocateSlots(r, found, n, lookahead),
         phase \in {"running", "waiting"}, phase' = phase,
         UNCHANGED <<tokens, rows, table, kv, rollout>>,
         step.scheduled[r] = 0, step'.scheduled[r] = n,
         computed'[r] = computed[r] + Len(found) * BlockSize,
         \A q \in Requests \ {r} :
           computed'[q] = computed[q] /\ step'.scheduled[q] = step.scheduled[q],
         ToSet(running') = ToSet(running) \cup {r}, Len(running') <= MaxNumSeqs
  PROVE  KVInv'
<1>. DEFINE mine == AllocationOf(r, found, n, lookahead)
            cached == cachedBlocks[r] + Len(found)
            full == CommittedBlocks(r, found, n)
            counted == CountedBlocks(r, found, n)
            base == Len(found) * BlockSize
            done == computed[r] + base
            ts == tokens[r]
            len == Len(ts)
<1>1. /\ r \in Requests /\ found \in Seq(Blocks) /\ n \in Nat /\ Len(found) \in Nat
      /\ found = <<>> \/ (blocks[r] = <<>> /\ cachedBlocks[r] = 0)
  BY DEF MayAllocate
<1>2. /\ ts \in Seq(Tokens) /\ len \in Nat /\ computed[r] \in Nat
      /\ blocks[r] \in Seq(Blocks) /\ Len(blocks[r]) \in Nat
      /\ DOMAIN blocks[r] = 1..Len(blocks[r]) /\ cachedBlocks[r] \in Nat
  BY <1>1, RunningTypes
<1>3. /\ mine \in Seq(Blocks)
      /\ \A i \in DOMAIN blocks[r] : i \in DOMAIN mine /\ mine[i] = blocks[r][i]
      /\ blocks'[r] = mine /\ cachedBlocks'[r] = counted
      /\ \A q \in Requests \ {r} :
           blocks'[q] = blocks[q] /\ cachedBlocks'[q] = cachedBlocks[q]
      /\ full \in 0..Len(mine) /\ full * BlockSize <= len
      /\ \A i \in (cached + 1)..full : pool'.hash[mine[i]] = SubSeq(ts, 1, i * BlockSize)
      /\ \A b \in Blocks :
           \/ \E i \in (cached + 1)..full : mine[i] = b
           \/ pool'.hash[b] \in {NoHash, pool.hash[b]}
  <2>1. /\ IInv /\ MayAllocate(r, found, n, lookahead)
        /\ AllocateSlots(r, found, n, lookahead) /\ tokens' = tokens
    OBVIOUS
  <2>. QED BY ONLY <2>1, AllocationHashes
<1>4. /\ \A q : ~InBatch(q) /\ Done(q) = computed[q] /\ End(q) = computed[q] + step.scheduled[q]
      /\ \A q : ~InBatch(q)' /\ Done(q)' = computed'[q]
                /\ End(q)' = computed'[q] + step'.scheduled[q]
  BY DEF InBatch, Done, End
<1>5. r \notin ToSet(running) => blocks[r] = <<>> /\ cachedBlocks[r] = 0 /\ computed[r] = 0
  <2>. SUFFICES ASSUME r \notin ToSet(running)
                PROVE  blocks[r] = <<>> /\ cachedBlocks[r] = 0 /\ computed[r] = 0
    OBVIOUS
  <2>1. blocks[r] = <<>> /\ cachedBlocks[r] = 0 /\ ~(computed[r] > 0)
    BY <1>1 DEF IInv, NotRunningInv
  <2>. QED BY <1>2, <2>1
<1>6. computed[r] <= Len(blocks[r]) * BlockSize
  <2>1. CASE r \in ToSet(running)
    BY <1>1, <1>4, <2>1 DEF IInv, PositionInv, Behind
  <2>2. CASE r \notin ToSet(running)
    <3>1. computed[r] = 0 /\ Len(blocks[r]) * BlockSize \in Nat
      BY <1>2, <1>5, <2>2, RoomGrows
    <3>. QED BY <3>1
  <2>. QED BY <2>1, <2>2
<1>7. /\ base \in Nat /\ done \in Nat /\ done = computed[r] + base
      /\ found = <<>> => base = 0 /\ cached = cachedBlocks[r] /\ done = computed[r]
      /\ blocks[r] = <<>> /\ cachedBlocks[r] = 0 => cached = Len(found) /\ done = base
  <2>1. base \in Nat
    BY <1>1, RoomGrows
  <2>2. found = <<>> => base = 0
    BY Limits
  <2>3. blocks[r] = <<>> => computed[r] = 0
    <3>. SUFFICES ASSUME blocks[r] = <<>> PROVE computed[r] = 0
      OBVIOUS
    <3>1. Len(blocks[r]) * BlockSize = 0
      BY Limits
    <3>. QED BY <1>2, <1>6, <3>1
  <2>4. found = <<>> => Len(found) = 0
    OBVIOUS
  <2>. HIDE DEF base
  <2>5. done \in Nat /\ done = computed[r] + base
    BY <1>2, <2>1
  <2>6. found = <<>> => base = 0 /\ cached = cachedBlocks[r] /\ done = computed[r]
    <3>. SUFFICES ASSUME found = <<>>
                  PROVE  base = 0 /\ cached = cachedBlocks[r] /\ done = computed[r]
      OBVIOUS
    <3>1. base = 0 /\ Len(found) = 0
      BY <2>2, <2>4
    <3>. QED BY <1>2, <2>5, <3>1
  <2>7. blocks[r] = <<>> /\ cachedBlocks[r] = 0 => cached = Len(found) /\ done = base
    <3>. SUFFICES ASSUME blocks[r] = <<>>, cachedBlocks[r] = 0
                  PROVE  cached = Len(found) /\ done = base
      OBVIOUS
    <3>1. cached = Len(found)
      BY <1>1
    <3>2. done = base
      BY <2>1, <2>3
    <3>. QED BY <3>1, <3>2
  <2>. QED BY <2>1, <2>5, <2>6, <2>7
<1>8. cached \in Nat /\ cached * BlockSize <= done
  <2>1. cached \in Nat
    BY <1>1, <1>2
  <2>2. CASE found = <<>>
    <3>1. CASE r \in ToSet(running)
      <4>1. cachedBlocks[r] * BlockSize <= computed[r] + step.scheduled[r]
        BY <1>4, <3>1 DEF KVInv, DoneInv
      <4>. QED BY <1>2, <1>7, <2>1, <2>2, <4>1
    <3>2. CASE r \notin ToSet(running)
      <4>1. cached = 0
        BY <1>5, <1>7, <2>2, <3>2
      <4>2. cached * BlockSize = 0
        BY <4>1, Limits
      <4>. QED BY <1>7, <2>1, <4>2
    <3>. QED BY <3>1, <3>2
  <2>3. CASE blocks[r] = <<>> /\ cachedBlocks[r] = 0
    <3>1. cached * BlockSize = base
      BY <1>7, <2>3
    <3>. HIDE DEF cached, base, done
    <3>. QED BY <1>7, <2>1, <2>3, <3>1
  <2>. QED BY <1>1, <2>2, <2>3
<1>9. counted \in Nat /\ cached <= counted /\ full <= counted /\ full \in Nat
      /\ (counted = cached \/ counted = full)
  <2>1. full \in Nat
    <3>1. Len(mine) \in Nat
      BY <1>3
    <3>. HIDE DEF mine, full
    <3>. QED BY <1>3, <3>1
  <2>. HIDE DEF cached, full
  <2>2. Max({cached, full}) = IF cached >= full THEN cached ELSE full
    BY <1>8, <2>1, MaxOfTwo
  <2>3. counted = IF cached >= full THEN cached ELSE full
    BY <2>2 DEF CountedBlocks, cached, full
  <2>. HIDE DEF counted
  <2>. QED BY <1>8, <2>1, <2>3
<1>10. full * BlockSize <= done + n
  <2>. DEFINE x == done + n
              m == Min({x, len})
  <2>1. x \in Nat
    BY <1>1, <1>7
  <2>2. full = m \div BlockSize
    BY DEF CommittedBlocks
  <2>. HIDE DEF x, len, done, full
  <2>3. m = IF x <= len THEN x ELSE len
    BY <1>2, <2>1, MinOfTwo
  <2>. HIDE DEF m
  <2>4. m \in Nat /\ m <= x
    BY <1>2, <2>1, <2>3
  <2>5. full * BlockSize <= m /\ full * BlockSize \in Nat
    BY <1>9, <2>2, <2>4, FullBlocks, RoomGrows
  <2>6. full * BlockSize <= x
    BY <2>1, <2>4, <2>5
  <2>. QED BY <2>6 DEF x
<1>11. /\ \A i \in (cached + 1)..full : i \in DOMAIN mine
       /\ \A i \in DOMAIN mine : i \in Nat \ {0}
  <2>. HIDE DEF mine, full, cached
  <2>1. Len(mine) \in Nat /\ DOMAIN mine = 1..Len(mine)
    BY <1>3
  <2>. QED BY <1>3, <1>8, <1>9, <2>1
<1>. HIDE DEF mine, full, counted, done, cached, base
<1>12. /\ blocks'[r] = mine /\ cachedBlocks'[r] = counted /\ Done(r)' = done
       /\ \A q \in Requests \ {r} :
            /\ blocks'[q] = blocks[q] /\ cachedBlocks'[q] = cachedBlocks[q]
            /\ Done(q)' = Done(q) /\ End(q)' = End(q)
  <2>1. computed'[r] = done
    BY DEF done, base
  <2>. QED BY <1>3, <1>4, <2>1
<1>13. ASSUME NEW i \in Nat \ {0}, NEW o \in Offsets, i > cached, At(i, o) < done
       PROVE  kv[mine[i]][o] = Content(SubSeq(ts, 1, At(i, o) + 1))
  <2>1. At(i, o) \in Nat /\ (\A k \in Nat : i <= k <=> At(i, o) < k * BlockSize)
    BY AtFacts
  <2>2. CASE found = <<>>
    <3>1. At(i, o) < computed[r] /\ i > cachedBlocks[r]
      BY <1>7, <1>13, <2>2
    <3>2. r \in ToSet(running)
      BY <1>5, <2>1, <3>1
    <3>3. i \in DOMAIN blocks[r]
      <4>. DEFINE room == Len(blocks[r]) * BlockSize
      <4>1. room \in Nat /\ computed[r] <= room
        BY <1>2, <1>6, RoomGrows
      <4>. HIDE DEF room
      <4>2. At(i, o) < room
        BY <1>2, <2>1, <3>1, <4>1
      <4>3. i <= Len(blocks[r])
        BY <1>2, <2>1, <4>2 DEF room
      <4>. QED BY <1>2, <4>3
    <3>4. At(i, o) < Done(r)
      BY <1>4, <3>1
    <3>. QED BY <1>3, <3>1, <3>2, <3>3, <3>4 DEF KVInv, OwnInv
  <2>3. CASE blocks[r] = <<>> /\ cachedBlocks[r] = 0
    <3>1. At(i, o) < cached * BlockSize
      BY <1>7, <1>13, <2>3 DEF base
    <3>. QED BY <1>8, <1>13, <2>1, <3>1
  <2>. QED BY <1>1, <2>2, <2>3
<1>14. OwnInv'
  <2>. SUFFICES ASSUME NEW q \in ToSet(running'), NEW i \in Nat \ {0}, NEW o \in Offsets,
                       i > cachedBlocks'[q], At(i, o) < Done(q)'
                PROVE  kv[blocks'[q][i]][o] = Content(SubSeq(tokens[q], 1, At(i, o) + 1))
    BY DEF OwnInv, Content
  <2>1. CASE q = r
    <3>1. i > cached /\ At(i, o) < done
      BY <1>8, <1>9, <1>12, <2>1
    <3>. QED BY <1>12, <1>13, <2>1, <3>1
  <2>2. CASE q # r
    <3>1. q \in ToSet(running) /\ q \in Requests \ {r}
      BY <2>2, RunningTypes
    <3>. QED BY <1>12, <3>1 DEF KVInv, OwnInv
  <2>. QED BY <2>1, <2>2
<1>15. CachedInv'
  <2>. SUFFICES ASSUME NEW b \in Blocks, pool'.hash[b] # NoHash, NEW o \in Offsets
                PROVE  Right(b, o)' \/ Pending(b, o)'
    BY DEF CachedInv
  <2>1. CASE \E i \in (cached + 1)..full : mine[i] = b
    <3>1. PICK i \in (cached + 1)..full : mine[i] = b
      BY <2>1
    <3>2. i \in Nat \ {0} /\ i \in DOMAIN mine /\ i > cached /\ i <= full /\ i <= counted
      <4>1. i \in Nat \ {0} /\ i \in DOMAIN mine
        BY <1>11
      <4>. QED BY <1>8, <1>9, <4>1
    <3>3. At(i, o) \in Nat
      BY <3>2, AtFacts
    <3>4. CASE At(i, o) < done
      <4>1. kv[b][o] = Content(SubSeq(ts, 1, At(i, o) + 1))
        BY <1>13, <3>1, <3>2, <3>4
      <4>. DEFINE h == pool'.hash[b]
      <4>2. h = SubSeq(ts, 1, i * BlockSize)
        BY <1>3, <3>1
      <4>3. i * BlockSize <= len
        <5>1. i * BlockSize <= full * BlockSize /\ i * BlockSize \in Nat
              /\ full * BlockSize \in Nat
          BY <1>9, <3>2, RoomGrows
        <5>. QED BY <1>2, <1>3, <5>1
      <4>. HIDE DEF h
      <4>4. SubSeq(h, 1, Len(h) - BlockSize + o + 1) = SubSeq(ts, 1, At(i, o) + 1)
        <5>1. ts \in Seq(Tokens) /\ i \in Nat \ {0} /\ i * BlockSize <= Len(ts)
          BY <1>2, <3>2, <4>3
        <5>2. o \in Offsets
          OBVIOUS
        <5>. HIDE DEF ts
        <5>. QED BY ONLY <4>2, <5>1, <5>2, HashSlot
      <4>5. kv'[b][o] = [prefix |-> SubSeq(h, 1, Len(h) - BlockSize + o + 1),
                         weights |-> rollout']
        BY <4>1, <4>4 DEF Content
      <4>. QED BY <4>5 DEF Right, Content, h
    <3>5. CASE At(i, o) >= done
      <4>1. r \in ToSet(running')
        OBVIOUS
      <4>2. i \in DOMAIN blocks'[r] /\ i <= cachedBlocks'[r] /\ blocks'[r][i] = b
            /\ At(i, o) >= Done(r)'
        BY <1>12, <3>1, <3>2, <3>5
      <4>. QED BY <4>1, <4>2 DEF Pending
    <3>. QED BY <1>7, <3>3, <3>4, <3>5
  <2>2. CASE pool'.hash[b] = pool.hash[b]
    <3>1. Right(b, o) \/ Pending(b, o)
      BY <2>2 DEF KVInv, CachedInv
    <3>2. CASE Right(b, o)
      BY <2>2, <3>2 DEF Right, Content
    <3>3. CASE Pending(b, o)
      <4>1. PICK q \in ToSet(running) : \E i \in DOMAIN blocks[q] :
              i <= cachedBlocks[q] /\ blocks[q][i] = b /\ At(i, o) >= Done(q)
        BY <3>3 DEF Pending
      <4>2. PICK i \in DOMAIN blocks[q] :
              i <= cachedBlocks[q] /\ blocks[q][i] = b /\ At(i, o) >= Done(q)
        BY <4>1
      <4>3. q \in Requests /\ q \in ToSet(running')
        BY RunningTypes
      <4>4. CASE q # r
        <5>1. /\ blocks'[q] = blocks[q] /\ cachedBlocks'[q] = cachedBlocks[q]
              /\ Done(q)' = Done(q)
          BY <1>12, <4>3, <4>4
        <5>. QED BY <4>2, <4>3, <5>1 DEF Pending
      <4>5. CASE q = r
        <5>1. i \in DOMAIN blocks[r] /\ i <= cachedBlocks[r] /\ blocks[r][i] = b
              /\ At(i, o) >= computed[r] /\ i \in Nat
          BY <1>2, <1>4, <4>2, <4>5
        <5>2. found = <<>>
          BY <1>1, <1>2, <5>1
        <5>3. i <= counted /\ At(i, o) >= done
          BY <1>2, <1>7, <1>8, <1>9, <5>1, <5>2
        <5>4. i \in DOMAIN blocks'[r] /\ i <= cachedBlocks'[r] /\ blocks'[r][i] = b
              /\ At(i, o) >= Done(r)'
          BY <1>3, <1>12, <5>1, <5>3
        <5>. QED BY <4>3, <4>5, <5>4 DEF Pending
      <4>. QED BY <4>4, <4>5
    <3>. QED BY <3>1, <3>2, <3>3
  <2>. QED BY <1>3, <2>1, <2>2
<1>16. DoneInv'
  <2>. SUFFICES ASSUME NEW q \in ToSet(running')
                PROVE  cachedBlocks'[q] * BlockSize <= End(q)'
    BY <1>4 DEF DoneInv
  <2>1. CASE q = r
    <3>1. End(r)' = done + n
      BY <1>4 DEF done, base
    <3>2. counted * BlockSize <= done + n
      <4>1. cached * BlockSize \in Nat
        BY <1>8, RoomGrows
      <4>. QED BY <1>1, <1>7, <1>8, <1>9, <1>10, <4>1
    <3>. QED BY <1>12, <2>1, <3>1, <3>2
  <2>2. CASE q # r
    <3>1. q \in ToSet(running) /\ q \in Requests \ {r}
      BY <2>2, RunningTypes
    <3>. QED BY <1>12, <3>1 DEF KVInv, DoneInv
  <2>. QED BY <2>1, <2>2
<1>17. RowInv'
  BY <1>4 DEF KVInv, RowInv, RowTypes
<1>. QED BY <1>14, <1>15, <1>16, <1>17 DEF KVInv

LEMMA ScheduleRunningKeepsKV ==
  ASSUME IInv, KVInv, NEW r \in Requests, ScheduleRunning(r), UNCHANGED workerVars
  PROVE  KVInv'
<1>. USE DEF IInv
<1>. DEFINE n == NumNewTokens(r)
            L == NumLookaheadTokens
            d == Min({spec[r], Max({0, n + computed[r] - Len(tokens[r])})})
<1>1. /\ AtRunning(r) /\ n > 0 /\ HasRoom(r, <<>>, n, L) /\ AllocateSlots(r, <<>>, n, L)
      /\ step' = [step EXCEPT !.index = @ + 1, !.budget = @ - n, !.scheduled[r] = n,
                              !.drafted[r] = d]
      /\ phase = "running"
      /\ UNCHANGED <<tokens, computed, running, phase, rollout>>
      /\ UNCHANGED <<rows, table, kv>>
  BY DEF ScheduleRunning, queueVars, rolloutVars, AtRunning, workerVars
<1>2. n \in Nat /\ L \in Nat
  BY <1>1, NumNewTokensFacts, Limits DEF NumLookaheadTokens
<1>3. /\ running \in Seq(Requests) /\ IsInjective(running) /\ step \in Steps
      /\ step.index \in Nat \ {0} /\ step.scheduled \in [Requests -> Nat]
  BY DEF TypeInv, QueueInv, Steps
<1>4. step.index \in DOMAIN running /\ r = running[step.index] /\ r \in ToSet(running)
  <2>1. step.index <= Len(running) /\ r = running[step.index]
    BY <1>1 DEF AtRunning
  <2>2. step.index \in DOMAIN running
    BY <1>3, <2>1
  <2>. QED BY <2>1, <2>2 DEF ToSet
<1>5. tokens[r] # <<>>
  BY <1>4 DEF QueueInv
<1>. HIDE DEF n, L, d
<1>6. MayAllocate(r, <<>>, n, L)
  BY <1>1, <1>2, <1>5, MayAllocateRunning
<1>7. step.scheduled[r] = 0
  <2>1. ~(step.scheduled[r] > 0)
    <3>. SUFFICES ASSUME step.scheduled[r] > 0 PROVE FALSE
      OBVIOUS
    <3>1. PICK i \in DOMAIN running : i < step.index /\ running[i] = r
      BY <1>1 DEF StepInv
    <3>2. i = step.index
      BY <1>3, <1>4, <3>1 DEF IsInjective
    <3>. QED BY <1>3, <3>1, <3>2
  <2>. QED BY <1>3, <2>1
<1>8. step'.scheduled = [step.scheduled EXCEPT ![r] = n]
  BY <1>1, <1>3 DEF Steps
<1>9. /\ step'.scheduled[r] = n
      /\ \A q \in Requests \ {r} : computed'[q] = computed[q]
                                  /\ step'.scheduled[q] = step.scheduled[q]
  BY <1>1, <1>3, <1>8
<1>10. computed'[r] = computed[r] + Len(<<>>) * BlockSize
  <2>1. Len(<<>>) * BlockSize = 0 /\ computed[r] \in Nat
    BY Limits, RunningTypes
  <2>. QED BY <1>1, <2>1
<1>11. ToSet(running') = ToSet(running) \cup {r} /\ Len(running') <= MaxNumSeqs
  BY <1>1, <1>4 DEF KVInv, RowInv, RowTypes
<1>12. phase \in {"running", "waiting"}
  BY <1>1
<1>. QED BY <1>1, <1>6, <1>7, <1>9, <1>10, <1>11, <1>12, AllocationKeepsKV

LEMMA AdmitWaitingKeepsKV ==
  ASSUME IInv, KVInv, waiting # <<>>,
         NEW found \in FindLongestCacheHit(pool, tokens[Head(waiting)]),
         AdmitWaiting(Head(waiting), found), UNCHANGED workerVars
  PROVE  KVInv'
<1>. USE DEF IInv
<1>. DEFINE r == Head(waiting)
            len == Len(tokens[r])
            base == Len(found) * BlockSize
            n == Min({len - base, step.budget})
<1>1. /\ phase = "waiting" /\ step.budget > 0 /\ HasRoom(r, found, n, 0)
      /\ Len(running) < MaxNumSeqs
      /\ AllocateSlots(r, found, n, 0)
      /\ running' = Append(running, r)
      /\ computed' = [computed EXCEPT ![r] = base]
      /\ step' = [step EXCEPT !.budget = @ - n, !.scheduled[r] = n]
      /\ UNCHANGED <<tokens, phase, rollout>>
      /\ UNCHANGED <<rows, table, kv>>
  BY DEF AdmitWaiting, Admissible, rolloutVars, workerVars
<1>2. /\ running \in Seq(Requests) /\ waiting \in Seq(Requests)
      /\ IsInjective(running) /\ IsInjective(waiting)
      /\ ToSet(running) \cap ToSet(waiting) = {}
      /\ computed \in [Requests -> Nat] /\ step \in Steps
      /\ step.scheduled \in [Requests -> Nat] /\ step.budget \in Nat
      /\ pool \in Pools(Tokens)
  BY DEF TypeInv, QueueInv, Steps
<1>3. r \in Requests /\ r \in ToSet(waiting) /\ r \notin ToSet(running)
  BY <1>2, TailFacts
<1>4. tokens[r] # <<>> /\ tokens[r] \in Seq(Tokens) /\ len \in Nat /\ computed[r] \in Nat
  <2>. HIDE DEF r
  <2>. QED BY <1>3, RunningTypes DEF QueueInv
<1>5. /\ found \in Seq(Blocks) /\ IsInjective(found) /\ base < len
      /\ \A i \in DOMAIN found :
           /\ i * BlockSize <= len
           /\ pool.hash[found[i]] = SubSeq(tokens[r], 1, i * BlockSize)
  BY <1>2, <1>4, HitFacts
<1>. HIDE DEF r
<1>6. blocks[r] = <<>> /\ cachedBlocks[r] = 0 /\ computed[r] = 0
  <2>1. blocks[r] = <<>> /\ cachedBlocks[r] = 0 /\ ~(computed[r] > 0)
    BY <1>1, <1>3 DEF NotRunningInv
  <2>. QED BY <1>4, <2>1
<1>7. step.scheduled[r] = 0
  <2>1. ~(step.scheduled[r] > 0) /\ step.scheduled[r] \in Nat
    BY <1>1, <1>2, <1>3 DEF StepInv
  <2>. QED BY <2>1
<1>8. base \in Nat
  <2>1. Len(found) \in Nat
    BY <1>5
  <2>. QED BY <2>1, RoomGrows
<1>9. n \in Nat
  <2>. DEFINE a == len - base
              b == step.budget
  <2>1. a \in Nat /\ b \in Nat
    BY <1>2, <1>4, <1>5, <1>8
  <2>. HIDE DEF a, b
  <2>2. Min({a, b}) = IF a <= b THEN a ELSE b
    BY <2>1, MinOfTwo
  <2>3. Min({a, b}) \in Nat
    BY <2>1, <2>2
  <2>. QED BY <2>3 DEF a, b
<1>. HIDE DEF n
<1>10. MayAllocate(r, found, n, 0)
  BY <1>1, <1>3, <1>4, <1>5, <1>6, <1>9 DEF MayAllocate
<1>11. step'.scheduled = [step.scheduled EXCEPT ![r] = n]
  BY <1>1, <1>2 DEF Steps
<1>12. /\ step'.scheduled[r] = n
       /\ \A q \in Requests \ {r} : computed'[q] = computed[q]
                                   /\ step'.scheduled[q] = step.scheduled[q]
  BY <1>1, <1>2, <1>3, <1>11
<1>13. computed'[r] = computed[r] + Len(found) * BlockSize
  <2>1. computed'[r] = base
    BY <1>1, <1>2, <1>3
  <2>. HIDE DEF base
  <2>2. computed'[r] = computed[r] + base
    BY <1>6, <1>8, <2>1
  <2>. QED BY <2>2 DEF base
<1>14. ToSet(running') = ToSet(running) \cup {r} /\ Len(running') <= MaxNumSeqs
  <2>1. ToSet(Append(running, r)) = ToSet(running) \cup {r}
    BY <1>2, <1>3, AppendFacts
  <2>2. Len(Append(running, r)) = Len(running) + 1 /\ Len(running) \in Nat
    BY <1>2, <1>3
  <2>3. MaxNumSeqs \in Nat
    BY LimitsAssumption
  <2>. QED BY <1>1, <2>1, <2>2, <2>3
<1>15. phase \in {"running", "waiting"}
  BY <1>1
<1>. HIDE DEF base, len
<1>. QED BY <1>1, <1>7, <1>10, <1>12, <1>13, <1>14, <1>15, AllocationKeepsKV

-------------------------------------------------------------------------------
(* The worker writes. *)

\* The positions a step computes are in the request's blocks and in its row.
LEMMA PositionsInBlocks ==
  ASSUME IInv, NEW r \in Requests, InBatch(r), tokens[r] # <<>>,
         NEW p \in Nat, p < computed[r]
  PROVE  p \div BlockSize + 1 \in DOMAIN blocks[r] \cap Columns
<1>. DEFINE c == p \div BlockSize + 1
            len == Len(blocks[r])
            most == BlocksFor(MaxModelLen)
            room == len * BlockSize
            columns == most * BlockSize
<1>1. computed[r] \in Nat /\ len \in Nat /\ DOMAIN blocks[r] = 1..len
  BY RunningTypes
<1>2. computed[r] < MaxTotalTokens(r) /\ computed[r] <= room
  BY DEF IInv, PositionInv, Computes
<1>3. MaxTotalTokens(r) \in Nat /\ MaxTotalTokens(r) <= MaxModelLen /\ MaxModelLen \in Nat
  BY NotStopped, Limits DEF IInv
<1>4. most \in Nat /\ MaxModelLen <= columns
  BY <1>3, BlocksForFacts
<1>5. room \in Nat /\ columns \in Nat
  BY <1>1, <1>4, RoomGrows
<1>6. c \in Nat \ {0} /\ \A n \in Nat : c <= n <=> p < n * BlockSize
  BY PlaceFacts
<1>. HIDE DEF c, room, columns, len, most
<1>7. p < room /\ p < columns
  BY <1>1, <1>2, <1>3, <1>4, <1>5
<1>8. c <= len /\ c <= most
  BY <1>1, <1>4, <1>6, <1>7 DEF room, columns
<1>9. c \in 1..len /\ c \in 1..most
  BY <1>1, <1>4, <1>6, <1>8
<1>. QED BY <1>1, <1>9 DEF Columns, c, most

\* Each of these positions is written once, and nothing else is.
LEMMA WritesFacts ==
  ASSUME IInv, RowInv, NEW r \in Requests, InBatch(r), tokens[r] # <<>>,
         step.scheduled[r] <= computed[r],
         NEW ts, NEW correct, TargetWrites(r, ts, correct)
  PROVE  /\ \A i \in DOMAIN blocks[r], o \in Offsets :
              Done(r) <= At(i, o) /\ At(i, o) < computed[r] =>
                kv'[blocks[r][i]][o] = IF At(i, o) < correct
                                         THEN Content(SubSeq(ts, 1, At(i, o) + 1)) ELSE Scratch
         /\ \A b \in Blocks, o \in Offsets :
              (\A i \in DOMAIN blocks[r] : blocks[r][i] = b =>
                 ~(Done(r) <= At(i, o) /\ At(i, o) < computed[r]))
                => kv'[b][o] = kv[b][o]
<1>. DEFINE P == StepPositions(r)
            written(p) == IF p < correct THEN Content(SubSeq(ts, 1, p + 1)) ELSE Scratch
            place(p, b, o) == BlockAt(r, p) = b /\ p % BlockSize = o
<1>1. /\ computed[r] \in Nat /\ step.scheduled[r] \in Nat /\ Done(r) \in Nat
      /\ blocks[r] \in Seq(Blocks) /\ IsInjective(blocks[r])
      /\ \A i \in DOMAIN blocks[r] : i \in Nat \ {0} /\ blocks[r][i] \in Blocks
  <2>1. computed[r] \in Nat /\ step.scheduled[r] \in Nat /\ blocks[r] \in Seq(Blocks)
    BY RunningTypes
  <2>2. Done(r) = computed[r] - step.scheduled[r]
    BY DEF Done
  <2>3. Done(r) \in Nat
    BY <2>1, <2>2
  <2>4. IsInjective(blocks[r])
    BY DEF IInv, AccountInv
  <2>5. \A i \in DOMAIN blocks[r] : i \in Nat \ {0} /\ blocks[r][i] \in Blocks
    BY RunningTypes
  <2>. QED BY <2>1, <2>3, <2>4, <2>5
<1>2. \A p : p \in P <=> p \in Nat /\ Done(r) <= p /\ p < computed[r]
  <2>1. P = Done(r)..(computed[r] - 1)
    BY DEF StepPositions, Done
  <2>. HIDE DEF P
  <2>. QED BY <1>1, <2>1
<1>3. ASSUME NEW p \in P
      PROVE  /\ p \div BlockSize + 1 \in DOMAIN blocks[r]
             /\ BlockAt(r, p) = blocks[r][p \div BlockSize + 1]
  <2>. DEFINE c == p \div BlockSize + 1
  <2>1. c \in DOMAIN blocks[r] \cap Columns
    BY <1>2, PositionsInBlocks
  <2>2. BlockAt(r, p) = table[RowIn(rows, r)][c]
    BY DEF BlockAt
  <2>. HIDE DEF c
  <2>3. table[RowIn(rows, r)][c] = blocks[r][c]
    BY <2>1 DEF RowInv, RowTypes
  <2>. QED BY <2>1, <2>2, <2>3 DEF c
<1>4. kv' = [b \in Blocks |-> [o \in Offsets |->
               IF \E p \in P : place(p, b, o) THEN written(CHOOSE p \in P : place(p, b, o))
               ELSE kv[b][o]]]
  BY DEF TargetWrites, WriteKV, Offsets
<1>5. ASSUME NEW i \in DOMAIN blocks[r], NEW o \in Offsets,
             Done(r) <= At(i, o), At(i, o) < computed[r]
      PROVE  kv'[blocks[r][i]][o] = written(At(i, o))
  <2>. DEFINE a == At(i, o)
              b == blocks[r][i]
  <2>1. i \in Nat \ {0} /\ b \in Blocks
    BY <1>1
  <2>2. a \in P
    <3>1. a \in Nat
      BY <2>1, AtFacts
    <3>. QED BY <1>2, <1>5, <3>1
  <2>3. a \div BlockSize + 1 = i /\ a % BlockSize = o
    BY <2>1, PlaceOfAt
  <2>4. place(a, b, o)
    <3>. HIDE DEF a, P
    <3>. QED BY <1>3, <2>2, <2>3
  <2>5. ASSUME NEW p \in P, place(p, b, o) PROVE p = a
    <3>. DEFINE c == p \div BlockSize + 1
    <3>1. p \in Nat
      BY <1>2
    <3>2. At(c, p % BlockSize) = p
      BY <3>1, PlaceFacts
    <3>3. c \in DOMAIN blocks[r] /\ blocks[r][c] = b /\ p % BlockSize = o
      BY <1>3, <2>5
    <3>. HIDE DEF c
    <3>4. c = i
      BY <1>1, <3>3 DEF IsInjective
    <3>. QED BY <3>2, <3>3, <3>4
  <2>. HIDE DEF a, b, place, P, written
  <2>6. (CHOOSE p \in P : place(p, b, o)) = a
    BY <2>2, <2>4, <2>5
  <2>7. kv'[b][o] = IF \E p \in P : place(p, b, o) THEN written(CHOOSE p \in P : place(p, b, o))
                    ELSE kv[b][o]
    BY <1>4, <2>1
  <2>8. kv'[b][o] = written(a)
    BY <2>2, <2>4, <2>6, <2>7
  <2>. QED BY <2>8 DEF a, b
<1>6. ASSUME NEW b \in Blocks, NEW o \in Offsets,
             \A i \in DOMAIN blocks[r] : blocks[r][i] = b =>
               ~(Done(r) <= At(i, o) /\ At(i, o) < computed[r])
      PROVE  kv'[b][o] = kv[b][o]
  <2>1. ASSUME NEW p \in P, place(p, b, o) PROVE FALSE
    <3>. DEFINE c == p \div BlockSize + 1
    <3>1. p \in Nat /\ Done(r) <= p /\ p < computed[r]
      BY <1>2
    <3>2. At(c, p % BlockSize) = p
      BY <3>1, PlaceFacts
    <3>3. c \in DOMAIN blocks[r] /\ blocks[r][c] = b /\ p % BlockSize = o
      BY <1>3, <2>1
    <3>. HIDE DEF c
    <3>. QED BY <1>6, <3>1, <3>2, <3>3
  <2>. HIDE DEF place, P, written
  <2>. QED BY <1>4, <2>1
<1>. QED BY <1>5, <1>6

\* A running request has computed no more than its blocks hold.
LEMMA DoneInBlocks ==
  ASSUME IInv, NEW r \in ToSet(running), NEW i \in Nat \ {0}, NEW o \in Offsets,
         At(i, o) < Done(r)
  PROVE  i \in DOMAIN blocks[r]
<1>. DEFINE room == Len(blocks[r]) * BlockSize
<1>1. /\ r \in Requests /\ computed[r] \in Nat /\ step.scheduled[r] \in Nat
      /\ Len(blocks[r]) \in Nat /\ DOMAIN blocks[r] = 1..Len(blocks[r])
  BY RunningTypes
<1>2. computed[r] <= room
  BY <1>1 DEF IInv, PositionInv, Computes, Behind
<1>3. Done(r) <= computed[r] /\ Done(r) \in Int
  BY <1>1 DEF Done
<1>4. room \in Nat /\ At(i, o) \in Nat /\ (i <= Len(blocks[r]) <=> At(i, o) < room)
  BY <1>1, RoomGrows, AtFacts
<1>. HIDE DEF room
<1>5. At(i, o) < room
  BY <1>1, <1>2, <1>3, <1>4
<1>. QED BY <1>1, <1>4, <1>5

\* What is written for a request of the batch makes its slots right, those with a hash
\* too, and touches no other's.
LEMMA BatchWritesKeepKV ==
  ASSUME IInv, KVInv, NEW r \in Requests, AtBatch(r),
         NEW ts, NEW correct \in Nat, TargetWrites(r, ts, correct),
         correct <= computed[r], correct = computed[r] \/ Len(tokens[r]) <= correct,
         \A n \in 1..Len(tokens[r]) : SubSeq(ts, 1, n) = SubSeq(tokens[r], 1, n),
         step' = [step EXCEPT !.index = @ + 1], phase' = phase,
         UNCHANGED <<rows, table, rollout>>, pool'.hash = pool.hash,
         Len(running') <= MaxNumSeqs,
         \A q \in ToSet(running') : q \in ToSet(running),
         \A q \in ToSet(running) \ {r} : q \in ToSet(running'),
         \A q \in Requests \ {r} :
           /\ tokens'[q] = tokens[q] /\ computed'[q] = computed[q]
           /\ blocks'[q] = blocks[q] /\ cachedBlocks'[q] = cachedBlocks[q],
         r \in ToSet(running') =>
           /\ tokens'[r] = ts /\ computed'[r] = correct
           /\ blocks'[r] = blocks[r] /\ cachedBlocks'[r] = cachedBlocks[r]
  PROVE  KVInv'
<1>. DEFINE len == Len(tokens[r])
<1>1. /\ phase = "update" /\ InBatch(r) /\ r \in ToSet(running) /\ tokens[r] # <<>>
  BY AtBatchFacts
<1>2. /\ step'.scheduled = step.scheduled /\ ~InBatch(r)'
      /\ \A q \in Requests \ {r} : InBatch(q)' <=> InBatch(q)
  BY NextInBatch
<1>3. /\ tokens[r] \in Seq(Tokens) /\ len \in Nat /\ computed[r] \in Nat
      /\ step.scheduled[r] \in Nat /\ Done(r) \in Int /\ cachedBlocks[r] \in Nat
      /\ DOMAIN blocks[r] = 1..Len(blocks[r]) /\ Len(blocks[r]) \in Nat
      /\ \A i \in DOMAIN blocks[r] : i \in Nat \ {0} /\ blocks[r][i] \in Blocks
      /\ IsInjective(blocks[r])
  <2>1. /\ tokens[r] \in Seq(Tokens) /\ len \in Nat /\ computed[r] \in Nat
        /\ step.scheduled[r] \in Nat /\ Done(r) \in Int /\ cachedBlocks[r] \in Nat
        /\ DOMAIN blocks[r] = 1..Len(blocks[r]) /\ Len(blocks[r]) \in Nat
        /\ \A i \in DOMAIN blocks[r] : i \in Nat \ {0} /\ blocks[r][i] \in Blocks
    BY RunningTypes
  <2>2. IsInjective(blocks[r])
    BY DEF IInv, AccountInv
  <2>. QED BY <2>1, <2>2
<1>4. /\ cachedBlocks[r] * BlockSize <= computed[r]
      /\ step.scheduled[r] <= computed[r] /\ Done(r) < len
  BY <1>1 DEF KVInv, DoneInv, End
<1>5. /\ \A i \in DOMAIN blocks[r], o \in Offsets :
           Done(r) <= At(i, o) /\ At(i, o) < computed[r] =>
             kv'[blocks[r][i]][o] = IF At(i, o) < correct
                                      THEN Content(SubSeq(ts, 1, At(i, o) + 1)) ELSE Scratch
      /\ \A b \in Blocks, o \in Offsets :
           (\A i \in DOMAIN blocks[r] : blocks[r][i] = b =>
              ~(Done(r) <= At(i, o) /\ At(i, o) < computed[r]))
             => kv'[b][o] = kv[b][o]
  BY <1>1, <1>4, WritesFacts DEF KVInv
<1>6. \A q \in Requests \ {r} : Done(q)' = Done(q) /\ End(q)' = End(q)
  BY <1>1, <1>2 DEF Done, End
<1>7. Done(r)' = computed'[r] /\ End(r)' = computed'[r]
  BY <1>1, <1>2 DEF Done, End
<1>8. \A q \in ToSet(running') : q = r \/ q \in Requests \ {r}
  BY RunningTypes
<1>9. cachedBlocks[r] * BlockSize <= correct
  <2>1. CASE correct = computed[r]
    BY <1>4, <2>1
  <2>2. CASE len <= correct
    <3>. DEFINE c == cachedBlocks[r]
    <3>1. CASE c = 0
      <4>1. c * BlockSize = 0
        BY <3>1, Limits
      <4>. HIDE DEF c
      <4>. QED BY <4>1 DEF c
    <3>2. CASE c # 0
      <4>1. c <= Len(blocks[r])
        BY DEF IInv, CacheInv
      <4>2. c \in DOMAIN blocks[r] /\ c <= c
        BY <1>3, <3>2, <4>1
      <4>3. c * BlockSize <= len
        BY <4>2, CachedFacts
      <4>4. c * BlockSize \in Nat
        BY <1>3, RoomGrows
      <4>. HIDE DEF c, len
      <4>5. c * BlockSize <= correct
        BY <1>3, <2>2, <4>3, <4>4
      <4>. QED BY <4>5 DEF c
    <3>. QED BY <3>1, <3>2
  <2>. QED BY <2>1, <2>2
<1>10. DoneInv'
  <2>. SUFFICES ASSUME NEW q \in ToSet(running')
                PROVE  /\ cachedBlocks'[q] * BlockSize <= End(q)'
                       /\ InBatch(q)' => /\ step'.scheduled[q] <= computed'[q]
                                        /\ Done(q)' < Len(tokens'[q])
    BY DEF DoneInv
  <2>1. CASE q = r
    BY <1>2, <1>7, <1>9, <2>1
  <2>2. CASE q # r
    <3>1. q \in ToSet(running) /\ q \in Requests \ {r}
      BY <1>8, <2>2
    <3>. QED BY <1>2, <1>6, <3>1 DEF KVInv, DoneInv
  <2>. QED BY <2>1, <2>2
<1>11. RowInv'
  <2>1. ASSUME NEW q \in Requests, InBatch(q)', NEW c \in DOMAIN blocks'[q] \cap Columns
        PROVE  table'[RowIn(rows', q)][c] = blocks'[q][c]
    <3>1. q \in Requests \ {r} /\ InBatch(q)
      BY <1>2, <2>1
    <3>2. blocks'[q] = blocks[q]
      BY <3>1
    <3>3. table[RowIn(rows, q)][c] = blocks[q][c]
      BY <2>1, <3>1, <3>2 DEF KVInv, RowInv, RowTypes
    <3>. QED BY <3>2, <3>3
  <2>. QED BY <2>1 DEF KVInv, RowInv, RowTypes
<1>12. OwnInv'
  <2>. SUFFICES ASSUME NEW q \in ToSet(running'), NEW i \in Nat \ {0}, NEW o \in Offsets,
                       i > cachedBlocks'[q], At(i, o) < Done(q)'
                PROVE  kv'[blocks'[q][i]][o] = Content(SubSeq(tokens'[q], 1, At(i, o) + 1))
    BY DEF OwnInv, Content
  <2>0. At(i, o) \in Nat
    BY AtFacts
  <2>1. CASE q = r
    <3>1. i > cachedBlocks[r] /\ At(i, o) < correct /\ blocks'[r] = blocks[r] /\ tokens'[r] = ts
      BY <1>7, <2>1
    <3>2. i \in DOMAIN blocks[r]
      <4>. DEFINE room == Len(blocks[r]) * BlockSize
      <4>1. computed[r] <= room
        BY <1>1 DEF IInv, PositionInv, Computes
      <4>2. room \in Nat /\ (i <= Len(blocks[r]) <=> At(i, o) < room)
        BY <1>3, RoomGrows, AtFacts
      <4>. HIDE DEF room
      <4>3. At(i, o) < room
        BY <1>3, <2>0, <3>1, <4>1, <4>2
      <4>. QED BY <1>3, <4>2, <4>3
    <3>3. CASE At(i, o) < Done(r)
      <4>1. kv[blocks[r][i]][o] = Content(SubSeq(tokens[r], 1, At(i, o) + 1))
        BY <1>1, <3>1, <3>3 DEF KVInv, OwnInv
      <4>2. \A j \in DOMAIN blocks[r] : blocks[r][j] = blocks[r][i] => j = i
        BY <1>3, <3>2 DEF IsInjective
      <4>3. ~(Done(r) <= At(i, o))
        BY <1>3, <2>0, <3>3
      <4>4. kv'[blocks[r][i]][o] = kv[blocks[r][i]][o]
        BY <1>3, <1>5, <3>2, <4>2, <4>3
      <4>5. SubSeq(ts, 1, At(i, o) + 1) = SubSeq(tokens[r], 1, At(i, o) + 1)
        <5>1. At(i, o) + 1 \in 1..len
          BY <1>3, <1>4, <2>0, <3>3
        <5>. QED BY <5>1
      <4>. QED BY <2>1, <3>1, <4>1, <4>4, <4>5
    <3>4. CASE Done(r) <= At(i, o)
      <4>1. At(i, o) < computed[r]
        BY <1>3, <2>0, <3>1
      <4>. QED BY <1>5, <2>1, <3>1, <3>2, <3>4, <4>1
    <3>. QED BY <1>3, <2>0, <3>3, <3>4
  <2>2. CASE q # r
    <3>1. q \in ToSet(running) /\ q \in Requests \ {r}
      BY <1>8, <2>2
    <3>2. /\ tokens'[q] = tokens[q] /\ blocks'[q] = blocks[q]
          /\ i > cachedBlocks[q] /\ At(i, o) < Done(q)
      BY <1>6, <3>1
    <3>3. i \in DOMAIN blocks[q] /\ blocks[q][i] \in Blocks
      BY <3>1, <3>2, DoneInBlocks, RunningTypes
    <3>4. blocks[q][i] \notin ToSet(blocks[r])
      BY <3>1, <3>2, <3>3, CachedFacts
    <3>5. kv'[blocks[q][i]][o] = kv[blocks[q][i]][o]
      BY <1>5, <3>3, <3>4 DEF ToSet
    <3>6. kv[blocks[q][i]][o] = Content(SubSeq(tokens[q], 1, At(i, o) + 1))
      BY <3>1, <3>2 DEF KVInv, OwnInv
    <3>. QED BY <3>2, <3>5, <3>6
  <2>. QED BY <2>1, <2>2
<1>13. CachedInv'
  <2>. SUFFICES ASSUME NEW b \in Blocks, pool.hash[b] # NoHash, NEW o \in Offsets
                PROVE  Right(b, o)' \/ Pending(b, o)'
    BY DEF CachedInv
  <2>. DEFINE h == pool.hash[b]
              wanted == Content(SubSeq(h, 1, Len(h) - BlockSize + o + 1))
  <2>1. kv'[b][o] = wanted => Right(b, o)'
    BY DEF Right, Content
  <2>2. CASE \E i \in DOMAIN blocks[r] :
               blocks[r][i] = b /\ Done(r) <= At(i, o) /\ At(i, o) < computed[r]
    <3>1. PICK i \in DOMAIN blocks[r] :
            blocks[r][i] = b /\ Done(r) <= At(i, o) /\ At(i, o) < computed[r]
      BY <2>2
    <3>2. i <= cachedBlocks[r]
      <4>1. ~(i > cachedBlocks[r])
        BY <3>1, CachedFacts
      <4>. QED BY <1>3, <4>1
    <3>3. /\ At(i, o) \in Nat /\ At(i, o) < len
          /\ SubSeq(pool.hash[blocks[r][i]], 1,
                    Len(pool.hash[blocks[r][i]]) - BlockSize + o + 1)
               = SubSeq(tokens[r], 1, At(i, o) + 1)
      BY <3>2, CachedSlot
    <3>4. At(i, o) < correct
      BY <1>3, <3>1, <3>3
    <3>5. kv'[b][o] = Content(SubSeq(ts, 1, At(i, o) + 1))
      BY <1>5, <3>1, <3>4
    <3>6. SubSeq(ts, 1, At(i, o) + 1) = SubSeq(tokens[r], 1, At(i, o) + 1)
      <4>1. At(i, o) + 1 \in 1..len
        BY <1>3, <3>3
      <4>. QED BY <4>1
    <3>. QED BY <2>1, <3>1, <3>3, <3>5, <3>6
  <2>3. CASE ~\E i \in DOMAIN blocks[r] :
               blocks[r][i] = b /\ Done(r) <= At(i, o) /\ At(i, o) < computed[r]
    <3>1. kv'[b][o] = kv[b][o]
      BY <1>5, <2>3
    <3>2. Right(b, o) \/ Pending(b, o)
      BY DEF KVInv, CachedInv
    <3>3. CASE Right(b, o)
      BY <2>1, <3>1, <3>3 DEF Right
    <3>4. CASE Pending(b, o)
      <4>1. PICK q \in ToSet(running) : \E i \in DOMAIN blocks[q] :
              i <= cachedBlocks[q] /\ blocks[q][i] = b /\ At(i, o) >= Done(q)
        BY <3>4 DEF Pending
      <4>2. PICK i \in DOMAIN blocks[q] :
              i <= cachedBlocks[q] /\ blocks[q][i] = b /\ At(i, o) >= Done(q)
        BY <4>1
      <4>3. CASE q # r
        <5>1. q \in ToSet(running') /\ q \in Requests \ {r}
          BY <4>3, RunningTypes
        <5>2. /\ blocks'[q] = blocks[q] /\ cachedBlocks'[q] = cachedBlocks[q]
              /\ Done(q)' = Done(q)
          BY <1>6, <5>1
        <5>. QED BY <4>2, <5>1, <5>2 DEF Pending
      <4>4. CASE q = r
        <5>. DEFINE room == cachedBlocks[r] * BlockSize
        <5>1. i \in DOMAIN blocks[r] /\ i <= cachedBlocks[r] /\ blocks[r][i] = b
              /\ At(i, o) >= Done(r)
          BY <4>2, <4>4
        <5>2. /\ room \in Nat /\ At(i, o) \in Nat
              /\ (i <= cachedBlocks[r] <=> At(i, o) < room)
          BY <1>3, <5>1, RoomGrows, AtFacts
        <5>3. room <= computed[r]
          BY <1>4
        <5>. HIDE DEF room
        <5>4. At(i, o) < computed[r] /\ Done(r) <= At(i, o)
          BY <1>3, <5>1, <5>2, <5>3
        <5>. QED BY <2>3, <5>1, <5>4
      <4>. QED BY <4>3, <4>4
    <3>. QED BY <3>2, <3>3, <3>4
  <2>. QED BY <2>2, <2>3
<1>. QED BY <1>10, <1>11, <1>12, <1>13 DEF KVInv

LEMMA WorkerPrefillKeepsKV ==
  ASSUME IInv, KVInv, NEW r \in Requests, WorkerPrefill(r)
  PROVE  KVInv'
<1>1. /\ AtBatch(r) /\ TargetWrites(r, tokens[r], computed[r])
      /\ step' = [step EXCEPT !.index = @ + 1]
      /\ UNCHANGED <<tokens, computed, running, pool, blocks, cachedBlocks, phase, rollout>>
      /\ UNCHANGED <<rows, table>>
  BY DEF WorkerPrefill, PrefillContinues, requestVars, queueVars, cacheVars, rolloutVars
<1>2. computed[r] \in Nat /\ computed[r] <= computed[r]
  BY RunningTypes
<1>3. Len(running') <= MaxNumSeqs
  BY <1>1 DEF KVInv, RowInv, RowTypes
<1>4. \A n \in 1..Len(tokens[r]) : SubSeq(tokens[r], 1, n) = SubSeq(tokens[r], 1, n)
  OBVIOUS
<1>. QED BY <1>1, <1>2, <1>3, <1>4, BatchWritesKeepKV

\* Of the drafts those that are accepted have been computed with the tokens they become.
LEMMA WorkerGeneratesKeepsKV ==
  ASSUME IInv, KVInv, NEW r \in Requests, NEW accepted, NEW new,
         WorkerGenerates(r, accepted, new)
  PROVE  KVInv'
<1>. DEFINE ts == tokens[r] \o new
            correct == ComputedAfter(r, accepted)
            len == Len(tokens[r])
            drafted == step.drafted[r]
<1>1. /\ Generated(r, accepted, new) /\ AtBatch(r) /\ computed[r] >= len
      /\ TargetWrites(r, ts, correct)
      /\ step' = [step EXCEPT !.index = @ + 1] /\ phase' = phase
      /\ UNCHANGED <<rows, table, rollout>>
      /\ computed' = [computed EXCEPT ![r] = correct]
  BY DEF WorkerGenerates, RequestContinues, RequestStops, Generated, rolloutVars
<1>2. /\ accepted \in Nat /\ accepted <= drafted /\ new \in Seq(Tokens) /\ Len(new) = accepted + 1
      /\ ~Stops(r, WithOutput(r, new)) => WithOutput(r, new) = ts
  BY <1>1, OutputFacts
<1>3. /\ tokens[r] \in Seq(Tokens) /\ len \in Nat /\ computed[r] \in Nat /\ drafted \in Nat
      /\ tokens \in [Requests -> Seq(Tokens)] /\ computed \in [Requests -> Nat]
      /\ running \in Seq(Requests) /\ IsInjective(running)
      /\ TypeInv /\ AccountInv /\ CacheInv
  <2>1. tokens[r] \in Seq(Tokens) /\ len \in Nat /\ computed[r] \in Nat
    BY RunningTypes
  <2>2. drafted \in Nat
    BY Limits DEF IInv, TypeInv, Steps
  <2>. QED BY <2>1, <2>2 DEF IInv, TypeInv, QueueInv
<1>4. computed[r] = len + drafted
  <2>1. Computes(r, computed[r])
    BY <1>1, AtBatchFacts
  <2>2. (drafted = 0 => computed[r] <= len) /\ (drafted > 0 => computed[r] = len + drafted)
    BY <2>1 DEF Computes
  <2>. HIDE DEF len, drafted
  <2>. QED BY <1>1, <1>3, <2>2
<1>5. correct \in Nat /\ correct <= computed[r] /\ len <= correct
  <2>1. correct = computed[r] - (drafted - accepted)
    BY DEF ComputedAfter
  <2>. HIDE DEF correct, len, drafted
  <2>. QED BY <1>2, <1>3, <1>4, <2>1
<1>6. \A n \in 1..len : SubSeq(ts, 1, n) = SubSeq(tokens[r], 1, n)
  BY <1>2, <1>3, PrefixOfConcat
<1>7. /\ computed'[r] = correct
      /\ \A q \in Requests \ {r} : computed'[q] = computed[q]
  BY <1>1, <1>3
<1>8. Len(running) <= MaxNumSeqs
  BY DEF KVInv, RowInv, RowTypes
<1>9. CASE RequestContinues(r, accepted, new)
  <2>1. /\ ~Stops(r, WithOutput(r, new))
        /\ tokens' = [tokens EXCEPT ![r] = WithOutput(r, new)]
        /\ UNCHANGED <<running, pool, blocks, cachedBlocks>>
    BY <1>9 DEF RequestContinues, queueVars, cacheVars
  <2>2. tokens'[r] = ts /\ \A q \in Requests \ {r} : tokens'[q] = tokens[q]
    BY <1>2, <1>3, <2>1
  <2>. HIDE DEF ts, correct, len
  <2>. QED BY <1>1, <1>5, <1>6, <1>7, <1>8, <2>1, <2>2, BatchWritesKeepKV DEF len
<1>10. CASE RequestStops(r, accepted, new)
  <2>1. /\ tokens' = [tokens EXCEPT ![r] = <<>>]
        /\ running' = Only(running, Requests \ {r}) /\ Free(r)
    BY <1>10 DEF RequestStops
  <2>2. /\ pool'.hash = pool.hash
        /\ blocks' = [blocks EXCEPT ![r] = <<>>]
        /\ cachedBlocks' = [cachedBlocks EXCEPT ![r] = 0]
    BY <1>3, <2>1, FreedHashes
  <2>3. \A q \in Requests \ {r} :
          /\ tokens'[q] = tokens[q] /\ blocks'[q] = blocks[q]
          /\ cachedBlocks'[q] = cachedBlocks[q]
    BY <2>1, <2>2 DEF IInv, TypeInv
  <2>4. /\ ToSet(running') = ToSet(running) \ {r} /\ Len(running') <= Len(running)
        /\ running' \in Seq(Requests)
    <3>1. /\ running' \in Seq(Requests) /\ Len(running') <= Len(running)
          /\ ToSet(running') = ToSet(running) \cap (Requests \ {r})
      BY <1>3, <2>1, OnlyIsShorter
    <3>2. ToSet(running) \subseteq Requests
      BY RunningTypes
    <3>. QED BY <3>1, <3>2
  <2>5. Len(running') <= MaxNumSeqs
    <3>1. Len(running') \in Nat /\ Len(running) \in Nat /\ MaxNumSeqs \in Nat
      BY <1>3, <2>4, LimitsAssumption
    <3>. QED BY <1>8, <2>4, <3>1
  <2>6. r \notin ToSet(running')
    BY <2>4
  <2>. HIDE DEF ts, correct, len
  <2>. QED BY <1>1, <1>5, <1>6, <1>7, <2>2, <2>3, <2>4, <2>5, <2>6, BatchWritesKeepKV DEF len
<1>. QED BY <1>9, <1>10 DEF WorkerGenerates

-------------------------------------------------------------------------------
(* The theorems. *)

\* What the worker adds to a step is no other step of the scheduler.
LEMMA KVNextIsNext == [KVNext]_vars => [Next]_schedulerVars
<1>. SUFFICES ASSUME KVNext \/ UNCHANGED vars PROVE Next \/ UNCHANGED schedulerVars
  OBVIOUS
<1>1. CASE UNCHANGED vars
  BY <1>1 DEF vars
<1>2. CASE Schedule
  BY <1>2 DEF Schedule, Next, EngineStep
<1>3. CASE WorkerForward
  BY <1>3 DEF WorkerForward, Next, EngineStep
<1>4. ASSUME NEW r \in Requests, WorkerPrefill(r) PROVE Next
  BY <1>4 DEF WorkerPrefill, Next, EngineStep
<1>5. ASSUME NEW r \in Requests, NEW accepted \in 0..Gamma,
             NEW new \in [1..(accepted + 1) -> SampledTokens \cup {EOS}],
             WorkerGenerates(r, accepted, new)
      PROVE  Next
  BY <1>5 DEF WorkerGenerates, Next, EngineStep
<1>6. CASE WorkerProposes
  BY <1>6 DEF WorkerProposes, Next, EngineStep
<1>7. ASSUME NEW r \in Requests, AddRequest(r) \/ FinishRequest(r) PROVE Next
  BY <1>7 DEF Next
<1>8. CASE SleepAndWakeUp
  BY <1>8 DEF Next
<1>. QED BY <1>1, <1>2, <1>3, <1>4, <1>5, <1>6, <1>7, <1>8 DEF KVNext

\* The cache is kept in order by every step.
LEMMA KVNextKeeps ==
  ASSUME Method = "ngram"
  PROVE  IInv /\ KVInv /\ [KVNext]_vars => IInv' /\ KVInv'
<1>1. IInv /\ [KVNext]_vars => IInv'
  BY KVNextIsNext, NextKeeps
<1>. SUFFICES ASSUME IInv, KVInv, [KVNext]_vars PROVE KVInv'
  BY <1>1
<1>2. CASE UNCHANGED vars
  <2>1. /\ UNCHANGED <<tokens, computed, running, pool, blocks, cachedBlocks, phase, step>>
        /\ UNCHANGED <<rollout, rows, table, kv>>
    BY <1>2 DEF vars, schedulerVars, requestVars, queueVars, cacheVars, rolloutVars, workerVars
  <2>2. \A r : /\ InBatch(r)' <=> InBatch(r)
               /\ Done(r)' = Done(r) /\ End(r)' = End(r)
    BY <2>1 DEF InBatch, Done, End
  <2>3. OwnInv' /\ CachedInv'
    BY <2>1, <2>2, CacheStays
  <2>4. RowInv' /\ DoneInv'
    BY <2>1, <2>2 DEF KVInv, RowInv, RowTypes, DoneInv
  <2>. QED BY <2>3, <2>4 DEF KVInv
<1>3. CASE Schedule /\ UNCHANGED workerVars
  <2>1. CASE StartStep \/ RunningScheduled \/ WaitingScheduled
    BY <1>3, <2>1, TurnsKeepKV
  <2>2. ASSUME NEW r \in Requests, ScheduleRunning(r) PROVE KVInv'
    BY <1>3, <2>2, ScheduleRunningKeepsKV
  <2>3. ASSUME NEW r \in Requests, PreemptLast(r) PROVE KVInv'
    BY <1>3, <2>3, PreemptLastKeepsKV
  <2>4. ASSUME waiting # <<>>, NEW found \in FindLongestCacheHit(pool, tokens[Head(waiting)]),
               AdmitWaiting(Head(waiting), found)
        PROVE  KVInv'
    BY <1>3, <2>4, AdmitWaitingKeepsKV
  <2>. QED BY <1>3, <2>1, <2>2, <2>3, <2>4 DEF Schedule
<1>4. CASE WorkerForward
  BY <1>4, WorkerForwardKeepsKV
<1>5. ASSUME NEW r \in Requests, WorkerPrefill(r) PROVE KVInv'
  BY <1>5, WorkerPrefillKeepsKV
<1>6. ASSUME NEW r \in Requests, NEW accepted \in 0..Gamma,
             NEW new \in [1..(accepted + 1) -> SampledTokens \cup {EOS}],
             WorkerGenerates(r, accepted, new)
      PROVE  KVInv'
  BY <1>6, WorkerGeneratesKeepsKV
<1>7. CASE WorkerProposes
  BY <1>7, WorkerProposesKeepsKV
<1>8. ASSUME NEW r \in Requests, AddRequest(r) \/ FinishRequest(r), UNCHANGED workerVars
      PROVE  KVInv'
  BY <1>8, AddRequestKeepsKV, FinishRequestKeepsKV
<1>9. CASE SleepAndWakeUp /\ UNCHANGED workerVars
  BY <1>9, SleepKeepsKV
<1>. QED BY <1>2, <1>3, <1>4, <1>5, <1>6, <1>7, <1>8, <1>9 DEF KVNext

\* Between two steps all that is counted is computed, and nothing is left to be written.
LEMMA NothingPending ==
  ASSUME IInv, KVInv, phase = "idle"
  PROVE  /\ \A b \in Blocks, o \in Offsets : ~Pending(b, o)
         /\ \A b \in Blocks, o \in Offsets : pool.hash[b] # NoHash => Right(b, o)
<1>. SUFFICES ASSUME NEW b \in Blocks, NEW o \in Offsets, Pending(b, o) PROVE FALSE
  BY DEF KVInv, CachedInv
<1>1. PICK r \in ToSet(running) : \E i \in DOMAIN blocks[r] :
        i <= cachedBlocks[r] /\ blocks[r][i] = b /\ At(i, o) >= Done(r)
  BY DEF Pending
<1>2. PICK i \in DOMAIN blocks[r] :
        i <= cachedBlocks[r] /\ blocks[r][i] = b /\ At(i, o) >= Done(r)
  BY <1>1
<1>. DEFINE room == cachedBlocks[r] * BlockSize
<1>3. /\ r \in Requests /\ computed[r] \in Nat /\ cachedBlocks[r] \in Nat /\ i \in Nat \ {0}
  BY RunningTypes
<1>4. room \in Nat /\ At(i, o) \in Nat /\ (i <= cachedBlocks[r] <=> At(i, o) < room)
  BY <1>3, RoomGrows, AtFacts
<1>5. step.scheduled[r] = 0
  BY <1>3, IdleFacts
<1>6. room <= computed[r] + step.scheduled[r] /\ Done(r) = computed[r]
  BY NotInBatch DEF KVInv, DoneInv
<1>. HIDE DEF room
<1>. QED BY <1>2, <1>3, <1>4, <1>5, <1>6

\* Between two steps the cache has, for all that is computed of a request, its own keys
\* and values.
LEMMA OwnBetweenSteps == IInv /\ KVInv => ComputedKVIsOwn
<1>. SUFFICES ASSUME IInv, KVInv, phase = "idle", NEW r \in ToSet(running),
                     NEW p \in 0..(computed[r] - 1)
              PROVE  kv[blocks[r][p \div BlockSize + 1]][p % BlockSize]
                       = Content(SubSeq(tokens[r], 1, p + 1))
  BY DEF ComputedKVIsOwn
<1>. DEFINE i == p \div BlockSize + 1
            o == p % BlockSize
<1>1. r \in Requests /\ computed[r] \in Nat /\ cachedBlocks[r] \in Nat
  BY RunningTypes
<1>2. p \in Nat /\ p < computed[r]
  BY <1>1
<1>3. i \in Nat \ {0} /\ o \in Offsets /\ At(i, o) = p
  BY <1>2, PlaceFacts
<1>4. Done(r) = computed[r]
  BY NotInBatch
<1>. HIDE DEF i, o
<1>5. i \in DOMAIN blocks[r]
  BY <1>2, <1>3, <1>4, DoneInBlocks
<1>6. blocks[r][i] \in Blocks
  BY <1>1, <1>5, RunningTypes
<1>7. CASE i <= cachedBlocks[r]
  <2>1. /\ pool.hash[blocks[r][i]] # NoHash
        /\ Right(blocks[r][i], o) <=>
             kv[blocks[r][i]][o] = Content(SubSeq(tokens[r], 1, At(i, o) + 1))
    BY <1>1, <1>3, <1>5, <1>7, CachedSlot
  <2>2. Right(blocks[r][i], o)
    BY <1>3, <1>6, <2>1, NothingPending
  <2>. QED BY <1>3, <2>1, <2>2 DEF i, o
<1>8. CASE i > cachedBlocks[r]
  <2>1. kv[blocks[r][i]][o] = Content(SubSeq(tokens[r], 1, At(i, o) + 1))
    BY <1>2, <1>3, <1>4, <1>8 DEF KVInv, OwnInv
  <2>. QED BY <1>3, <2>1 DEF i, o
<1>. QED BY <1>1, <1>3, <1>7, <1>8

\* What is found in the prefix cache is what its hash says.
LEMMA CurrentBetweenSteps == IInv /\ KVInv => CachedKVIsCurrent
<1>. SUFFICES ASSUME IInv, KVInv, phase = "idle", NEW b \in Blocks,
                     NEW o \in 0..(BlockSize - 1), pool.hash[b] # NoHash
              PROVE  Right(b, o)
  BY DEF CachedKVIsCurrent, Right
<1>1. o \in Offsets
  BY DEF Offsets
<1>. QED BY <1>1, NothingPending

\* With a drafter that writes nothing the invariant holds in every state.
LEMMA KVInvariance ==
  ASSUME Method = "ngram"
  PROVE  KVSpec => [](IInv /\ KVInv)
<1>1. KVInit => IInv /\ KVInv
  BY KVInitInv
<1>2. IInv /\ KVInv /\ [KVNext]_vars => (IInv /\ KVInv)'
  BY KVNextKeeps
<1>. QED BY <1>1, <1>2, PTL DEF KVSpec

\* The scheduler with its worker is the scheduler, fairness included: all that is proved
\* of the scheduler holds with it (WorkerForward and the other steps of the worker).
THEOREM WorkerKeepsSchedule == KVSpec => Spec
<1>1. KVInit => Init
  BY DEF KVInit
<1>2. [KVNext]_vars => [Next]_schedulerVars
  BY KVNextIsNext
<1>. QED BY <1>1, <1>2, PTL DEF KVSpec, Spec

\* No more requests run than there are rows.
LEMMA RunningFits ==
  ASSUME IInv, Len(running) <= MaxNumSeqs, [Next]_schedulerVars
  PROVE  Len(running') <= MaxNumSeqs
<1>1. /\ running \in Seq(Requests) /\ IsInjective(running) /\ Len(running) \in Nat
      /\ MaxNumSeqs \in Nat
  BY LimitsAssumption DEF IInv, TypeInv, QueueInv
<1>2. CASE running' = running
  BY <1>2
<1>3. ASSUME NEW r \in Requests, PreemptLast(r) PROVE Len(running') <= MaxNumSeqs
  <2>1. step.index <= Len(running) /\ running' = Front(running) /\ step.index \in Nat \ {0}
    BY <1>3 DEF PreemptLast, AtRunning, IInv, TypeInv, Steps
  <2>2. running # <<>>
    BY <1>1, <2>1
  <2>3. Len(Front(running)) = Len(running) - 1
    BY <1>1, <2>2, FrontFacts
  <2>. QED BY <1>1, <2>1, <2>3
<1>4. ASSUME NEW r \in Requests, NEW found, AdmitWaiting(r, found)
      PROVE  Len(running') <= MaxNumSeqs
  <2>1. Len(running) < MaxNumSeqs /\ running' = Append(running, r)
    BY <1>4 DEF AdmitWaiting, Admissible
  <2>2. Len(Append(running, r)) = Len(running) + 1
    BY <1>1
  <2>. QED BY <1>1, <2>1, <2>2
<1>5. ASSUME NEW r \in Requests, running' = Only(running, Requests \ {r})
      PROVE  Len(running') <= MaxNumSeqs
  <2>1. running' \in Seq(Requests) /\ Len(running') <= Len(running)
    BY <1>1, <1>5, OnlyIsShorter
  <2>2. Len(running') \in Nat
    BY <2>1
  <2>. QED BY <1>1, <2>1, <2>2
<1>6. CASE EngineStep
  <2>1. ASSUME waiting # <<>>, NEW found, AdmitWaiting(Head(waiting), found)
        PROVE  Len(running') <= MaxNumSeqs
    <3>1. Head(waiting) \in Requests
      BY <2>1, TailFacts DEF IInv, TypeInv, QueueInv
    <3>. QED BY <1>4, <2>1, <3>1
  <2>2. ASSUME NEW r \in Requests, NEW accepted, NEW new,
               RequestContinues(r, accepted, new) \/ RequestStops(r, accepted, new)
        PROVE  Len(running') <= MaxNumSeqs
    BY <1>2, <1>5, <2>2 DEF RequestContinues, RequestStops, queueVars
  <2>3. ASSUME NEW r \in Requests, ScheduleRunning(r) \/ PrefillContinues(r)
        PROVE  running' = running
    BY <2>3 DEF ScheduleRunning, PrefillContinues, queueVars
  <2>4. StartStep \/ RunningScheduled \/ WaitingScheduled \/ Forward \/ PostStep
          => running' = running
    BY DEF StartStep, RunningScheduled, WaitingScheduled, Forward, PostStep, queueVars
  <2>. QED BY <1>2, <1>3, <1>6, <2>1, <2>2, <2>3, <2>4 DEF EngineStep
<1>7. CASE \E r \in Requests : AddRequest(r) \/ FinishRequest(r)
  BY <1>2, <1>5, <1>7 DEF AddRequest, FinishRequest
<1>8. CASE SleepAndWakeUp \/ UNCHANGED schedulerVars
  BY <1>2, <1>8 DEF SleepAndWakeUp, schedulerVars, queueVars
<1>. QED BY <1>6, <1>7, <1>8 DEF Next

\* Only the forward pass changes the rows.
LEMMA RowTypesStay ==
  ASSUME IInv, RowTypes, [KVNext]_vars
  PROVE  RowTypes'
<1>1. Len(running) <= MaxNumSeqs /\ Len(running') <= MaxNumSeqs
  BY KVNextIsNext, RunningFits DEF RowTypes
<1>2. CASE rows' = rows /\ table' = table
  BY <1>1, <1>2 DEF RowTypes
<1>3. CASE WorkerForward
  <2>. DEFINE s == step'.batch
  <2>1. Forward /\ rows' = UpdatedRows /\ table' = UpdatedTable
    BY <1>3 DEF WorkerForward
  <2>2. s \in Seq(Requests) /\ IsInjective(s) /\ Len(s) <= Len(running)
    BY <2>1, ForwardFacts
  <2>3. Len(s) <= MaxNumSeqs
    <3>1. Len(s) \in Nat /\ Len(running) \in Nat /\ MaxNumSeqs \in Nat
      BY <2>2, LimitsAssumption DEF IInv, TypeInv
    <3>. HIDE DEF s
    <3>. QED BY <1>1, <2>2, <3>1
  <2>4. /\ rows \in Seq(Requests) /\ Len(rows) <= MaxNumSeqs /\ IsInjective(rows)
        /\ table \in [Rows -> [Columns -> Blocks \cup {NullBlock}]]
        /\ blocks \in [Requests -> Seq(Blocks)]
    BY DEF RowTypes, IInv, TypeInv
  <2>5. rows' \in Seq(Requests) /\ Len(rows') <= MaxNumSeqs /\ IsInjective(rows')
    BY <2>1, <2>2, <2>3, <2>4, ForwardRows
  <2>6. table' \in [Rows -> [Columns -> Blocks \cup {NullBlock}]]
    BY <2>1, <2>4, <2>5, TableUpdated
  <2>. QED BY <1>1, <2>5, <2>6 DEF RowTypes
<1>4. WorkerForward \/ (rows' = rows /\ table' = table)
  BY DEF KVNext, workerVars, vars, WorkerPrefill, WorkerGenerates, WorkerProposes
<1>. QED BY <1>2, <1>3, <1>4

\* The rows of the persistent batch and their block tables keep to their types, whatever
\* the drafter writes: condense never leaves more rows than requests may run, nor a row
\* without a request.
THEOREM KVTypeCorrect == KVSpec => []KVTypeOK
<1>1. KVInit => IInv /\ BoundsInv /\ RowTypes
  BY KVInitInv, Limits DEF KVInit, Init, BoundsInv, NoStep, KVInv, RowInv
<1>2. IInv /\ BoundsInv /\ RowTypes /\ [KVNext]_vars => (IInv /\ BoundsInv /\ RowTypes)'
  BY KVNextIsNext, NextKeeps, StepKeepsBounds, RowTypesStay
<1>3. IInv /\ BoundsInv /\ RowTypes => KVTypeOK
  BY TypeFollows DEF KVTypeOK, RowTypes
<1>. QED BY <1>1, <1>2, <1>3, PTL DEF KVSpec

\* What a running request has computed is in its blocks, for its own tokens and by the
\* present weights, whoever else has held the blocks, was preempted or was rejected.
THEOREM OwnKVCorrect ==
  ASSUME Method = "ngram"
  PROVE  KVSpec => []ComputedKVIsOwn
BY KVInvariance, OwnBetweenSteps, PTL

\* Nor can another request find anything else in the prefix cache, in this rollout or
\* after the weights have changed.
THEOREM CachedKVCorrect ==
  ASSUME Method = "ngram"
  PROVE  KVSpec => []CachedKVIsCurrent
BY KVInvariance, CurrentBetweenSteps, PTL
===============================================================================
