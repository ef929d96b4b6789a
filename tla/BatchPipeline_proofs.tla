------------------------- MODULE BatchPipeline_proofs -------------------------
(***************************************************************************)
(* The batch on its way through the ranks, for every number of ranks and   *)
(* rows, all lengths, mini-batches and epochs.                             *)
(*                                                                         *)
(* First what the balancing computes: the parts of Karmarkar and Karp's    *)
(* method have each row once, none is empty, and when equal sizes are      *)
(* asked for, sizes are equal; no part exceeds another by more than one    *)
(* row, or, with equal sizes, one round of rows, can differ; sorting and   *)
(* placing them keeps all of that. Then the ranks: the positions before a  *)
(* rank and behind it are those of its piece, each once.                   *)
(***************************************************************************)
EXTENDS BatchPipeline, FiniteSetTheorems, SequenceTheorems, TLAPS

-------------------------------------------------------------------------------
(* Numbers and sets. *)

\* A finite set on which numbers are given has an element with the largest.
LEMMA LargestBy ==
  ASSUME NEW S, IsFiniteSet(S), S # {}, NEW f \in [S -> Nat]
  PROVE  \E x \in S : \A y \in S : f[y] <= f[x]
<1>. DEFINE above(x) == {y \in S : f[y] > f[x]}
            I == {above(x) : x \in S}
<1>1. I \in SUBSET FiniteSubsetsOf(S) /\ I # {}
  <2>1. \A x \in S : above(x) \in SUBSET S /\ IsFiniteSet(above(x))
    BY FS_Subset
  <2>. HIDE DEF above
  <2>. QED BY <2>1 DEF FiniteSubsetsOf
<1>2. PICK A \in I : \A B \in I : ~ (<<B, A>> \in StrictSubsetOrdering(S))
  <2>. HIDE DEF I
  <2>. QED BY <1>1, WFMin, FS_StrictSubsetOrderingWellFounded
<1>3. PICK x \in S : A = above(x)
  BY <1>2
<1>4. ASSUME NEW y \in S, f[y] > f[x] PROVE FALSE
  <2>1. y \in above(x) /\ y \notin above(y) /\ \A z \in S : f[z] > f[y] => f[z] > f[x]
    BY <1>4
  <2>2. above(y) \subseteq above(x) /\ above(y) # above(x) /\ above(y) \in I
    BY <2>1
  <2>3. <<above(y), above(x)>> \in StrictSubsetOrdering(S)
    BY <2>2 DEF StrictSubsetOrdering
  <2>. QED BY <2>2, <2>3, <1>2, <1>3
<1>. QED BY <1>4

\* A set of natural numbers has a least element.
LEMMA LeastNatural ==
  ASSUME NEW T \in SUBSET Nat, T # {}
  PROVE  \E n \in T : \A m \in T : n <= m
<1>1. PICK b \in T : TRUE
  OBVIOUS
<1>. DEFINE S == {m \in T : m <= b}
            f == [m \in S |-> b - m]
<1>2. IsFiniteSet(S) /\ S # {} /\ f \in [S -> Nat]
  <2>1. IsFiniteSet(0..b)
    BY <1>1, FS_Interval
  <2>2. S \in SUBSET (0..b) /\ b \in S
    <3>1. \A m \in S : m \in 0..b
      BY <1>1
    <3>2. b \in S
      BY <1>1
    <3>. QED BY <3>1, <3>2
  <2>3. \A m \in S : b - m \in Nat
    BY <1>1
  <2>. QED BY <2>1, <2>2, <2>3, FS_Subset
<1>3. PICK n \in S : \A m \in S : f[m] <= f[n]
  <2>. HIDE DEF S, f
  <2>. QED BY <1>2, LargestBy
<1>4. ASSUME NEW m \in T PROVE n <= m
  <2>1. CASE m \in S
    <3>1. b - m <= b - n
      BY <1>3, <2>1
    <3>. QED BY <1>1, <1>3, <3>1
  <2>2. CASE m \notin S
    BY <1>1, <1>3, <2>2
  <2>. QED BY <2>1, <2>2
<1>. QED BY <1>3, <1>4

\* What holds of 0, and of a number when it holds of the one before, holds of all.
LEMMA InductionTo ==
  ASSUME NEW n \in Nat, NEW T, 0 \in T, \A i \in 0..(n - 1) : i \in T => i + 1 \in T
  PROVE  \A i \in 0..n : i \in T
<1>. DEFINE F == {i \in 0..n : i \notin T}
<1>1. CASE F = {}
  BY <1>1
<1>2. CASE F # {}
  <2>1. F \in SUBSET Nat
    OBVIOUS
  <2>2. PICK i \in F : \A j \in F : i <= j
    <3>. HIDE DEF F
    <3>. QED BY <1>2, <2>1, LeastNatural
  <2>3. i \in 0..n /\ i \notin T /\ i # 0
    BY <2>2
  <2>4. i - 1 \in 0..(n - 1) /\ i - 1 \in 0..n /\ ~(i <= i - 1) /\ i - 1 + 1 = i
    BY <2>3
  <2>5. i - 1 \in T
    BY <2>2, <2>4
  <2>. QED BY <2>3, <2>4, <2>5
<1>. QED BY <1>1, <1>2

\* A value may be computed from the one before.
Steps(n, V) == [1..n -> [V -> V]]
Follows(f, n, V, first, F) ==
  f \in [0..n -> V] /\ f[0] = first /\ \A i \in 1..n : f[i] = F[i][f[i - 1]]

LEMMA Recursion ==
  ASSUME NEW n \in Nat, NEW V, NEW first \in V, NEW F \in Steps(n, V)
  PROVE  \E f : Follows(f, n, V, first, F)
<1>. USE DEF Steps
<1>. DEFINE solves(m, f) == f[0] = first /\ \A i \in 1..m : f[i] = F[i][f[i - 1]]
            T == {m \in 0..n : \E f \in [0..m -> V] : solves(m, f)}
<1>1. 0 \in T
  <2>. DEFINE f == [i \in 0..0 |-> first]
  <2>1. f \in [0..0 -> V] /\ solves(0, f)
    OBVIOUS
  <2>2. 0 \in 0..n
    OBVIOUS
  <2>. HIDE DEF f, solves
  <2>. QED BY <2>1, <2>2
<1>2. ASSUME NEW m \in 0..(n - 1), m \in T PROVE m + 1 \in T
  <2>1. PICK f \in [0..m -> V] : solves(m, f)
    BY <1>2
  <2>. DEFINE g == [i \in 0..(m + 1) |-> IF i <= m THEN f[i] ELSE F[m + 1][f[m]]]
  <2>2. m + 1 \in 1..n /\ m \in 0..m /\ F[m + 1] \in [V -> V]
    OBVIOUS
  <2>3. F[m + 1][f[m]] \in V
    BY <2>2
  <2>4. g \in [0..(m + 1) -> V]
    BY <2>3
  <2>5. g[0] = first
    BY <2>1
  <2>6. ASSUME NEW i \in 1..(m + 1) PROVE g[i] = F[i][g[i - 1]]
    <3>1. i - 1 \in 0..m /\ g[i - 1] = f[i - 1]
      OBVIOUS
    <3>2. CASE i <= m
      BY <2>1, <3>1, <3>2
    <3>3. CASE i = m + 1
      BY <3>1, <3>3
    <3>. QED BY <3>2, <3>3
  <2>7. solves(m + 1, g) /\ m + 1 \in 0..n
    <3>. HIDE DEF g
    <3>. QED BY <2>2, <2>5, <2>6
  <2>. HIDE DEF g, solves
  <2>. QED BY <2>4, <2>7
<1>3. \A m \in 0..n : m \in T
  <2>. HIDE DEF T
  <2>. QED BY <1>1, <1>2, InductionTo
<1>. QED BY <1>3 DEF Follows

LEMMA Interval ==
  ASSUME NEW n \in Nat
  PROVE  IsFiniteSet(1..n) /\ Cardinality(1..n) = n
BY FS_Interval

\* The places of m chunks of k.
LEMMA Places ==
  ASSUME NEW m \in Nat \ {0}, NEW k \in Nat \ {0}
  PROVE  /\ m * k \in Nat \ {0} /\ (m * k) \div k = m
         /\ \A o \in 0..(m - 1), j \in 1..k : o * k + j \in 1..(m * k)
         /\ \A o, p \in Int, i, j \in 1..k : o * k + i = p * k + j => o = p /\ i = j
         /\ \A x \in 1..(m * k) : \E o \in 0..(m - 1), j \in 1..k : x = o * k + j
<1>1. m * k \in Nat /\ m * k > 0
  OBVIOUS
<1>2. \A a, b \in Int : a < b => a * k + k <= b * k
  <2>. SUFFICES ASSUME NEW a \in Int, NEW b \in Int, a < b PROVE a * k + k <= b * k
    OBVIOUS
  <2>1. b - a - 1 \in Nat
    OBVIOUS
  <2>2. (b - a - 1) * k \in Nat
    BY <2>1
  <2>3. (b - a - 1) * k = b * k - a * k - k
    OBVIOUS
  <2>4. a * k \in Int /\ b * k \in Int
    OBVIOUS
  <2>. QED BY <2>2, <2>3, <2>4
<1>3. ASSUME NEW o \in 0..(m - 1), NEW j \in 1..k PROVE o * k + j \in 1..(m * k)
  <2>1. o * k + k <= m * k /\ o * k \in Nat
    BY <1>2
  <2>. QED BY <1>1, <2>1
<1>4. ASSUME NEW o \in Int, NEW p \in Int, NEW i \in 1..k, NEW j \in 1..k,
             o * k + i = p * k + j
      PROVE  o = p /\ i = j
  <2>1. o * k \in Int /\ p * k \in Int
    OBVIOUS
  <2>2. ~(o < p) /\ ~(p < o)
    BY <1>2, <1>4, <2>1
  <2>3. o = p
    BY <2>2
  <2>. QED BY <1>4, <2>1, <2>3
<1>5. ASSUME NEW x \in 1..(m * k) PROVE \E o \in 0..(m - 1), j \in 1..k : x = o * k + j
  <2>. DEFINE o == (x - 1) \div k
              j == ((x - 1) % k) + 1
  <2>1. o \in Int /\ j \in 1..k /\ x - 1 = o * k + (j - 1)
    OBVIOUS
  <2>. HIDE DEF o, j
  <2>2. x = o * k + j /\ o * k \in Int
    BY <2>1
  <2>3. ~(m - 1 < o)
    <3>1. m - 1 < o => (m - 1) * k + k <= o * k
      BY <1>2, <2>1
    <3>2. (m - 1) * k = m * k - k
      OBVIOUS
    <3>. QED BY <1>1, <2>1, <2>2, <3>1, <3>2
  <2>4. ~(o < 0)
    <3>1. o < 0 => o * k + k <= 0 * k
      BY <1>2, <2>1
    <3>. QED BY <2>1, <2>2, <3>1
  <2>. QED BY <2>1, <2>2, <2>3, <2>4
<1>6. (m * k) \div k = m
  OBVIOUS
<1>. QED BY <1>1, <1>3, <1>4, <1>5, <1>6

\* What holds of a finite set when it holds of it without any one of its elements,
\* holds of all subsets.
LEMMA SetInduction ==
  ASSUME NEW S, IsFiniteSet(S), NEW T,
         \A A \in SUBSET S : (\A x \in A : A \ {x} \in T) => A \in T
  PROVE  \A A \in SUBSET S : A \in T
<1>. DEFINE F == {A \in SUBSET S : A \notin T}
<1>1. CASE F = {}
  BY <1>1
<1>2. CASE F # {}
  <2>1. F \in SUBSET FiniteSubsetsOf(S)
    <3>1. \A A \in F : A \in SUBSET S /\ IsFiniteSet(A)
      BY FS_Subset
    <3>. HIDE DEF F
    <3>. QED BY <3>1 DEF FiniteSubsetsOf
  <2>2. PICK A \in F : \A B \in F : ~ (<<B, A>> \in StrictSubsetOrdering(S))
    <3>. HIDE DEF F
    <3>. QED BY <1>2, <2>1, WFMin, FS_StrictSubsetOrderingWellFounded
  <2>3. ASSUME NEW x \in A PROVE A \ {x} \in T
    <3>1. A \ {x} \in SUBSET S /\ A \in SUBSET S /\ A \ {x} # A
      OBVIOUS
    <3>2. <<A \ {x}, A>> \in StrictSubsetOrdering(S)
      BY <3>1 DEF StrictSubsetOrdering
    <3>. QED BY <2>2, <3>1, <3>2
  <2>4. A \in SUBSET S /\ A \notin T
    OBVIOUS
  <2>. HIDE DEF F
  <2>. QED BY <2>3, <2>4
<1>. QED BY <1>1, <1>2

-------------------------------------------------------------------------------
(* Sums. *)

\* f has the sums over the subsets of S, computed as FoldFunctionOnSet does it.
Sums(f, w, S) ==
  /\ f[{}] = 0
  /\ \A s \in SUBSET S : s # {} =>
       LET x == CHOOSE x \in s : TRUE IN f[s] = w[x] + f[s \ {x}]

LEMMA SumsExist ==
  ASSUME NEW S, IsFiniteSet(S), NEW w, \A x \in S : w[x] \in Nat
  PROVE  \E f : /\ Sums(f, w, S) /\ SumOver(w, S) = f[S]
                /\ \A s \in SUBSET S : f[s] \in Nat
<1>. DEFINE n == Cardinality(S)
            D(m) == {s \in SUBSET S : Cardinality(s) <= m}
            c(s) == CHOOSE x \in s : TRUE
            rest(s) == s \ {c(s)}
            solves(m, f) == \A s \in D(m) : f[s] = IF s = {} THEN 0 ELSE w[c(s)] + f[rest(s)]
            T == {m \in 0..n : \E f \in [D(m) -> Nat] : solves(m, f)}
<1>1. n \in Nat /\ D(n) = SUBSET S
  <2>1. \A s \in SUBSET S : Cardinality(s) <= n
    BY FS_Subset
  <2>. QED BY <2>1, FS_CardinalityType
<1>2. ASSUME NEW m \in 0..n, NEW s \in D(m), s # {}
      PROVE  c(s) \in S /\ w[c(s)] \in Nat /\ m # 0 /\ rest(s) \in D(m - 1)
  <2>1. IsFiniteSet(s) /\ Cardinality(s) \in Nat /\ Cardinality(s) # 0
    BY <1>2, FS_Subset, FS_CardinalityType, FS_EmptySet
  <2>2. c(s) \in s
    BY <1>2
  <2>3. Cardinality(rest(s)) = Cardinality(s) - 1
    BY <2>1, <2>2, FS_RemoveElement
  <2>4. Cardinality(s) <= m /\ rest(s) \in SUBSET S
    OBVIOUS
  <2>5. m # 0 /\ Cardinality(s) - 1 <= m - 1
    BY <1>1, <2>1, <2>4
  <2>. QED BY <2>2, <2>3, <2>4, <2>5
<1>3. 0 \in T
  <2>. DEFINE f == [s \in D(0) |-> 0]
  <2>1. 0 \in 0..n
    BY <1>1
  <2>2. \A s \in D(0) : s = {}
    <3>. HIDE DEF D, c, rest, n
    <3>. QED BY <1>2, <2>1
  <2>3. f \in [D(0) -> Nat] /\ solves(0, f)
    BY <2>2
  <2>. HIDE DEF f, solves
  <2>. QED BY <2>1, <2>3
<1>4. ASSUME NEW m \in 0..(n - 1), m \in T PROVE m + 1 \in T
  <2>1. PICK f \in [D(m) -> Nat] : solves(m, f)
    BY <1>4
  <2>. DEFINE g == [s \in D(m + 1) |-> IF s = {} THEN 0 ELSE w[c(s)] + f[rest(s)]]
  <2>2. m + 1 \in 0..n /\ m + 1 - 1 = m /\ D(m) \subseteq D(m + 1)
    <3>1. m + 1 \in 0..n /\ m + 1 - 1 = m
      BY <1>1
    <3>2. \A s \in SUBSET S : Cardinality(s) \in Nat
      BY FS_Subset, FS_CardinalityType
    <3>3. \A s \in SUBSET S : Cardinality(s) <= m => Cardinality(s) <= m + 1
      BY <3>2
    <3>. QED BY <3>1, <3>3
  <2>3. \A s \in D(m + 1) : s # {} => w[c(s)] \in Nat /\ rest(s) \in D(m)
    <3>. SUFFICES ASSUME NEW s \in D(m + 1), s # {}
                  PROVE  w[c(s)] \in Nat /\ rest(s) \in D(m)
      OBVIOUS
    <3>. HIDE DEF D, c, rest
    <3>. QED BY <1>2, <2>2
  <2>. HIDE DEF D, c, rest
  <2>4. g \in [D(m + 1) -> Nat]
    BY <2>3
  <2>5. \A s \in D(m) : g[s] = f[s]
    BY <2>1, <2>2
  <2>6. solves(m + 1, g)
    BY <2>3, <2>5
  <2>. HIDE DEF g
  <2>. QED BY <2>2, <2>4, <2>6
<1>5. n \in T
  <2>1. \A m \in 0..n : m \in T
    <3>. HIDE DEF T, n
    <3>. QED BY <1>1, <1>3, <1>4, InductionTo
  <2>. HIDE DEF T, n
  <2>. QED BY <1>1, <2>1
<1>. DEFINE step(f) == [s \in SUBSET S |-> IF s = {} THEN 0
                                           ELSE LET x == CHOOSE x \in s : TRUE
                                                IN  w[x] + f[s \ {x}]]
            iter == CHOOSE f : f = step(f)
<1>6. iter = step(iter)
  <2>1. PICK f \in [D(n) -> Nat] : solves(n, f)
    BY <1>5
  <2>2. f = step(f)
    BY <1>1, <2>1
  <2>. QED BY <2>2
<1>7. SumOver(w, S) = iter[S]
  BY DEF SumOver, FoldFunctionOnSet, MapThenFoldSet
<1>. DEFINE U == {m \in 0..n : \A s \in D(m) : iter[s] \in Nat}
<1>8. /\ iter[{}] = 0
      /\ \A s \in SUBSET S : s # {} => iter[s] = w[c(s)] + iter[rest(s)]
  BY <1>6
<1>. HIDE DEF iter, n, rest, c
<1>9. \A m \in 0..n : m \in U
  <2>1. 0 \in U
    <3>1. 0 \in 0..n
      BY <1>1
    <3>2. \A s \in D(0) : s \in SUBSET S /\ s = {}
      <4>1. \A s \in D(0) : s = {}
        <5>. HIDE DEF D
        <5>. QED BY <1>2, <3>1
      <4>. QED BY <4>1
    <3>3. \A s \in D(0) : iter[s] = 0
      <4>. HIDE DEF D
      <4>. QED BY <1>8, <3>2
    <3>. QED BY <3>1, <3>3
  <2>2. ASSUME NEW m \in 0..(n - 1), m \in U PROVE m + 1 \in U
    <3>1. m + 1 \in 0..n /\ m + 1 - 1 = m
      BY <1>1
    <3>2. ASSUME NEW s \in D(m + 1) PROVE iter[s] \in Nat
      <4>1. CASE s = {}
        BY <1>8, <4>1
      <4>2. CASE s # {}
        <5>1. w[c(s)] \in Nat /\ rest(s) \in D(m)
          <6>. HIDE DEF D
          <6>. QED BY <1>2, <3>1, <4>2
        <5>2. iter[rest(s)] \in Nat
          BY <2>2, <5>1
        <5>3. iter[s] = w[c(s)] + iter[rest(s)]
          BY <1>8, <4>2
        <5>. QED BY <5>1, <5>2, <5>3
      <4>. QED BY <4>1, <4>2
    <3>. QED BY <3>1, <3>2
  <2>. HIDE DEF U
  <2>. QED BY <1>1, <2>1, <2>2, InductionTo
<1>10. \A s \in SUBSET S : iter[s] \in Nat
  BY <1>1, <1>9
<1>11. Sums(iter, w, S)
  BY <1>8 DEF Sums, c, rest
<1>. QED BY <1>7, <1>10, <1>11

\* Whatever the set it was computed for, a sum is the same.
LEMMA SumsAlike ==
  ASSUME NEW S, NEW T \in SUBSET S, IsFiniteSet(T), NEW w, NEW f, NEW g,
         Sums(f, w, S), Sums(g, w, T)
  PROVE  \A s \in SUBSET T : f[s] = g[s]
<1>. DEFINE E == {s \in SUBSET T : f[s] = g[s]}
<1>1. ASSUME NEW s \in SUBSET T, \A x \in s : s \ {x} \in E PROVE s \in E
  <2>1. CASE s = {}
    BY <2>1 DEF Sums
  <2>2. CASE s # {}
    <3>. DEFINE x == CHOOSE x \in s : TRUE
    <3>1. x \in s
      BY <2>2
    <3>2. f[s] = w[x] + f[s \ {x}] /\ g[s] = w[x] + g[s \ {x}]
      BY <2>2 DEF Sums
    <3>3. f[s \ {x}] = g[s \ {x}]
      <4>. HIDE DEF x
      <4>. QED BY <1>1, <3>1
    <3>. QED BY <3>2, <3>3
  <2>. QED BY <2>1, <2>2
<1>2. \A s \in SUBSET T : s \in E
  <2>. HIDE DEF E
  <2>. QED BY <1>1, SetInduction
<1>. QED BY <1>2

\* The sums over the subsets of a set are those of a function on them.
LEMMA SumIsFunction ==
  ASSUME NEW S, IsFiniteSet(S), NEW w, \A x \in S : w[x] \in Nat
  PROVE  \E f : Sums(f, w, S) /\ \A T \in SUBSET S : SumOver(w, T) = f[T] /\ f[T] \in Nat
<1>1. PICK f : Sums(f, w, S) /\ \A s \in SUBSET S : f[s] \in Nat
  BY SumsExist
<1>2. ASSUME NEW T \in SUBSET S PROVE SumOver(w, T) = f[T]
  <2>1. IsFiniteSet(T) /\ \A x \in T : w[x] \in Nat
    BY FS_Subset
  <2>2. PICK g : Sums(g, w, T) /\ SumOver(w, T) = g[T]
    BY <2>1, SumsExist
  <2>3. f[T] = g[T]
    BY <1>1, <2>1, <2>2, SumsAlike
  <2>. QED BY <2>2, <2>3
<1>3. \A T \in SUBSET S : SumOver(w, T) = f[T] /\ f[T] \in Nat
  BY <1>1, <1>2
<1>. QED BY <1>1, <1>3

LEMMA SumIsNatural ==
  ASSUME NEW S, IsFiniteSet(S), NEW w, \A x \in S : w[x] \in Nat
  PROVE  SumOver(w, S) \in Nat
<1>1. PICK f : Sums(f, w, S) /\ \A T \in SUBSET S : SumOver(w, T) = f[T] /\ f[T] \in Nat
  BY SumIsFunction
<1>2. S \in SUBSET S
  OBVIOUS
<1>. QED BY <1>1, <1>2

\* Any of the elements may be added last.
LEMMA SumWith ==
  ASSUME NEW S, IsFiniteSet(S), NEW w, \A x \in S : w[x] \in Nat, NEW a \in S
  PROVE  SumOver(w, S) = w[a] + SumOver(w, S \ {a})
<1>1. PICK f : Sums(f, w, S) /\ \A T \in SUBSET S : SumOver(w, T) = f[T] /\ f[T] \in Nat
  BY SumIsFunction
<1>. DEFINE E == {s \in SUBSET S : \A x \in s : f[s] = w[x] + f[s \ {x}]}
<1>2. ASSUME NEW s \in SUBSET S, \A x \in s : s \ {x} \in E PROVE s \in E
  <2>. SUFFICES ASSUME NEW x \in s PROVE f[s] = w[x] + f[s \ {x}]
    OBVIOUS
  <2>. DEFINE c == CHOOSE c \in s : TRUE
  <2>1. c \in s /\ f[s] = w[c] + f[s \ {c}]
    BY <1>1 DEF Sums
  <2>. HIDE DEF c
  <2>2. CASE x = c
    BY <2>1, <2>2
  <2>3. CASE x # c
    <3>. DEFINE r == s \ {c, x}
    <3>1. (s \ {c}) \ {x} = r /\ (s \ {x}) \ {c} = r /\ x \in s \ {c} /\ c \in s \ {x}
      BY <2>1, <2>3
    <3>2. f[s \ {c}] = w[x] + f[r]
      BY <1>2, <2>1, <3>1
    <3>3. f[s \ {x}] = w[c] + f[r]
      BY <1>2, <3>1
    <3>4. w[x] \in Nat /\ w[c] \in Nat /\ f[r] \in Nat
      BY <1>1, <2>1
    <3>. QED BY ONLY <2>1, <3>2, <3>3, <3>4
  <2>. QED BY <2>2, <2>3
<1>3. \A s \in SUBSET S : s \in E
  <2>. HIDE DEF E
  <2>. QED BY <1>2, SetInduction
<1>4. f[S] = w[a] + f[S \ {a}]
  BY <1>3
<1>. QED BY <1>1, <1>4

LEMMA SumOfNone ==
  ASSUME NEW w
  PROVE  SumOver(w, {}) = 0
<1>. DEFINE S == {}
<1>1. IsFiniteSet(S) /\ \A x \in S : w[x] \in Nat
  BY FS_EmptySet
<1>2. S \in SUBSET S
  OBVIOUS
<1>. HIDE DEF S
<1>3. PICK f : Sums(f, w, S) /\ \A T \in SUBSET S : SumOver(w, T) = f[T] /\ f[T] \in Nat
  BY <1>1, SumIsFunction
<1>4. SumOver(w, S) = f[S]
  BY <1>2, <1>3
<1>5. SumOver(w, S) = 0
  BY <1>3, <1>4 DEF Sums, S
<1>. QED BY <1>5 DEF S

LEMMA SumOfOne ==
  ASSUME NEW w, NEW a, w[a] \in Nat
  PROVE  SumOver(w, {a}) = w[a]
<1>1. IsFiniteSet({a}) /\ {a} \ {a} = {}
  BY FS_Singleton
<1>2. SumOver(w, {a}) = w[a] + SumOver(w, {a} \ {a})
  BY <1>1, SumWith
<1>. QED BY <1>1, <1>2, SumOfNone

\* A sum of positive numbers is positive.
LEMMA SumIsPositive ==
  ASSUME NEW S, IsFiniteSet(S), NEW w, \A x \in S : w[x] \in Nat /\ w[x] > 0, S # {}
  PROVE  SumOver(w, S) \in Nat /\ SumOver(w, S) > 0
<1>1. PICK a \in S : TRUE
  OBVIOUS
<1>2. SumOver(w, S) = w[a] + SumOver(w, S \ {a})
  BY SumWith
<1>3. SumOver(w, S \ {a}) \in Nat
  <2>1. IsFiniteSet(S \ {a})
    BY FS_Subset
  <2>. QED BY <2>1, SumIsNatural
<1>. QED BY <1>2, <1>3

\* Sets without a common element.
LEMMA SumOfUnion ==
  ASSUME NEW A, NEW B, IsFiniteSet(A), IsFiniteSet(B), A \cap B = {},
         NEW w, \A x \in A \cup B : w[x] \in Nat
  PROVE  SumOver(w, A \cup B) = SumOver(w, A) + SumOver(w, B)
<1>. DEFINE E == {s \in SUBSET B : SumOver(w, A \cup s) = SumOver(w, A) + SumOver(w, s)}
<1>1. \A s \in SUBSET B : IsFiniteSet(s) /\ IsFiniteSet(A \cup s)
  BY FS_Subset, FS_Union
<1>2. ASSUME NEW s \in SUBSET B, \A x \in s : s \ {x} \in E PROVE s \in E
  <2>1. CASE s = {}
    <3>1. A \cup s = A /\ SumOver(w, s) = 0 /\ SumOver(w, A) \in Nat
      BY <2>1, SumOfNone, SumIsNatural
    <3>. QED BY <3>1
  <2>2. CASE s # {}
    <3>1. PICK x \in s : TRUE
      BY <2>2
    <3>. DEFINE u == SumOver(w, A \cup (s \ {x}))
                v == SumOver(w, s \ {x})
                a == SumOver(w, A)
    <3>2. SumOver(w, s) = w[x] + v
      BY <1>1, SumWith
    <3>3. SumOver(w, A \cup s) = w[x] + u
      <4>1. (A \cup s) \ {x} = A \cup (s \ {x}) /\ x \in A \cup s
        OBVIOUS
      <4>2. \A y \in A \cup s : w[y] \in Nat
        OBVIOUS
      <4>3. SumOver(w, A \cup s) = w[x] + SumOver(w, (A \cup s) \ {x})
        BY <1>1, <4>1, <4>2, SumWith
      <4>. QED BY <4>1, <4>3
    <3>4. u = a + v
      BY <1>2
    <3>5. w[x] \in Nat /\ a \in Nat /\ v \in Nat
      <4>1. IsFiniteSet(s \ {x})
        BY <1>1
      <4>. QED BY <4>1, SumIsNatural
    <3>. HIDE DEF u, v, a
    <3>6. SumOver(w, A \cup s) = a + SumOver(w, s)
      BY ONLY <3>2, <3>3, <3>4, <3>5
    <3>. QED BY <3>6 DEF a
  <2>. QED BY <2>1, <2>2
<1>3. \A s \in SUBSET B : s \in E
  <2>. HIDE DEF E
  <2>. QED BY <1>2, SetInduction
<1>. QED BY <1>3

\* The elements of a set under other names.
LEMMA SumRenamed ==
  ASSUME NEW A, IsFiniteSet(A), NEW v, NEW w, NEW h,
         \A x, y \in A : h[x] = h[y] => x = y,
         \A x \in A : v[x] = w[h[x]] /\ v[x] \in Nat
  PROVE  SumOver(w, {h[x] : x \in A}) = SumOver(v, A)
<1>. DEFINE I(s) == {h[x] : x \in s}
            E == {s \in SUBSET A : SumOver(w, I(s)) = SumOver(v, s)}
<1>1. ASSUME NEW s \in SUBSET A PROVE IsFiniteSet(s) /\ IsFiniteSet(I(s))
  <2>. DEFINE f == [x \in s |-> h[x]]
  <2>1. IsFiniteSet(s)
    BY FS_Subset
  <2>2. f \in Surjection(s, I(s))
    BY DEF Surjection
  <2>. HIDE DEF f
  <2>. QED BY <2>1, <2>2, FS_Surjection
<1>2. ASSUME NEW s \in SUBSET A, \A x \in s : s \ {x} \in E PROVE s \in E
  <2>1. CASE s = {}
    <3>1. I(s) = {}
      BY <2>1
    <3>. QED BY <2>1, <3>1, SumOfNone
  <2>2. CASE s # {}
    <3>1. PICK x \in s : TRUE
      BY <2>2
    <3>2. SumOver(v, s) = v[x] + SumOver(v, s \ {x})
      BY <1>1, SumWith
    <3>3. SumOver(w, I(s)) = w[h[x]] + SumOver(w, I(s) \ {h[x]})
      <4>1. h[x] \in I(s) /\ \A y \in I(s) : w[y] \in Nat /\ IsFiniteSet(I(s))
        BY <1>1
      <4>2. IsFiniteSet(I(s))
        BY <1>1
      <4>. HIDE DEF I
      <4>. QED BY <4>1, <4>2, SumWith
    <3>4. I(s) \ {h[x]} = I(s \ {x})
      OBVIOUS
    <3>5. SumOver(w, I(s \ {x})) = SumOver(v, s \ {x})
      BY <1>2
    <3>. QED BY <3>2, <3>3, <3>4, <3>5
  <2>. QED BY <2>1, <2>2
<1>3. \A s \in SUBSET A : s \in E
  <2>. HIDE DEF E
  <2>. QED BY <1>2, SetInduction
<1>. QED BY <1>3

-------------------------------------------------------------------------------
(* Sorting. *)

LEMMA OnceIsIt ==
  ASSUME NEW T, NEW s \in Seq(T)
  PROVE  Once(s) = s
BY DEF Once

\* f has the elements of S, each once.
Lists(f, S) ==
  /\ f \in Seq(S) /\ IsFiniteSet(S) /\ Len(f) = Cardinality(S)
  /\ \A p, q \in DOMAIN f : f[p] = f[q] => p = q
  /\ \A x \in S : \E p \in DOMAIN f : f[p] = x

LEMMA ListRange ==
  ASSUME NEW f, NEW S, Lists(f, S)
  PROVE  Range(f) = S
<1>1. f \in Seq(S) /\ DOMAIN f = 1..Len(f)
  BY DEF Lists
<1>2. \A p \in DOMAIN f : f[p] \in S
  BY <1>1
<1>3. \A x \in S : \E p \in DOMAIN f : f[p] = x
  BY DEF Lists
<1>. QED BY <1>2, <1>3 DEF Range

\* A strict total order puts a finite set into a sequence.
LEMMA SortedFacts ==
  ASSUME NEW S, IsFiniteSet(S), NEW R,
         \A x \in S : <<x, x>> \notin R,
         \A x, y, z \in S : <<x, y>> \in R /\ <<y, z>> \in R => <<x, z>> \in R,
         \A x, y \in S : x = y \/ <<x, y>> \in R \/ <<y, x>> \in R
  PROVE  /\ Lists(SortedBy(S, R), S)
         /\ \A p, q \in DOMAIN SortedBy(S, R) :
              p < q => <<SortedBy(S, R)[p], SortedBy(S, R)[q]>> \in R
<1>. DEFINE n == Cardinality(S)
            below(x) == {y \in S : <<y, x>> \in R}
            rank == [x \in S |-> Cardinality(below(x)) + 1]
            f == [p \in 1..n |-> CHOOSE x \in S : Cardinality(below(x)) = p - 1]
<1>1. n \in Nat
  BY FS_CardinalityType
<1>2. ASSUME NEW x \in S
      PROVE  /\ below(x) \in SUBSET S /\ IsFiniteSet(below(x))
             /\ Cardinality(below(x)) \in 0..(n - 1)
  <2>1. below(x) \in SUBSET S /\ x \notin below(x)
    OBVIOUS
  <2>. HIDE DEF below
  <2>2. /\ IsFiniteSet(below(x)) /\ Cardinality(below(x)) \in Nat
        /\ Cardinality(below(x)) <= n /\ Cardinality(below(x)) # n
    BY <2>1, FS_Subset, FS_CardinalityType
  <2>. QED BY <1>1, <2>1, <2>2
<1>3. ASSUME NEW x \in S, NEW y \in S, <<x, y>> \in R PROVE rank[x] < rank[y]
  <2>1. below(x) \in SUBSET below(y) /\ x \in below(y) /\ x \notin below(x)
    BY <1>3
  <2>2. /\ IsFiniteSet(below(y)) /\ Cardinality(below(x)) \in 0..(n - 1)
        /\ Cardinality(below(y)) \in 0..(n - 1)
    BY <1>2
  <2>. HIDE DEF below
  <2>3. Cardinality(below(x)) <= Cardinality(below(y))
    BY <2>1, <2>2, FS_Subset
  <2>4. Cardinality(below(x)) # Cardinality(below(y))
    <3>1. below(x) # below(y)
      BY <2>1
    <3>. QED BY <2>1, <2>2, <3>1, FS_Subset
  <2>. QED BY <1>1, <2>2, <2>3, <2>4
<1>4. \A x \in S : rank[x] = Cardinality(below(x)) + 1 /\ rank[x] \in 1..n
  BY <1>1, <1>2
<1>5. rank \in [S -> 1..n]
  <2>. HIDE DEF below, n
  <2>. QED BY <1>4
<1>. HIDE DEF rank, n
<1>6. \A x, y \in S : rank[x] = rank[y] => x = y
  <2>. SUFFICES ASSUME NEW x \in S, NEW y \in S, rank[x] = rank[y] PROVE x = y
    OBVIOUS
  <2>1. rank[x] \in Nat /\ rank[y] \in Nat
    BY <1>1, <1>5
  <2>2. <<x, y>> \notin R /\ <<y, x>> \notin R
    BY <1>3, <2>1
  <2>. QED BY <2>2
<1>7. \A k \in 1..n : \E x \in S : rank[x] = k
  <2>1. rank \in Injection(S, 1..n)
    BY <1>5, <1>6 DEF Injection, IsInjective
  <2>2. IsFiniteSet(1..n) /\ Cardinality(1..n) = n
    BY <1>1, FS_Interval
  <2>3. rank \in Surjection(S, 1..n)
    BY <1>1, <2>1, <2>2, FS_Injection DEF n
  <2>. QED BY <2>3 DEF Surjection
<1>8. ASSUME NEW p \in 1..n PROVE f[p] \in S /\ rank[f[p]] = p
  <2>1. \E x \in S : Cardinality(below(x)) = p - 1
    <3>1. PICK x \in S : rank[x] = p
      BY <1>7
    <3>2. Cardinality(below(x)) \in Int
      BY <1>2, <1>1
    <3>. HIDE DEF below
    <3>. QED BY <1>4, <3>1, <3>2
  <2>2. f[p] \in S /\ Cardinality(below(f[p])) = p - 1
    BY <2>1
  <2>. HIDE DEF f, below
  <2>. QED BY <1>4, <2>2
<1>9. f \in Seq(S) /\ Len(f) = n /\ DOMAIN f = 1..n
  <2>1. f \in [1..n -> S]
    BY <1>8
  <2>. HIDE DEF f
  <2>. QED BY <1>1, <2>1
<1>10. SortedBy(S, R) = f
  <2>1. SortedBy(S, R) = Once(f)
    BY DEF SortedBy, n
  <2>. HIDE DEF f
  <2>. QED BY <1>9, <2>1, OnceIsIt
<1>. HIDE DEF f
<1>11. \A p, q \in 1..n : f[p] = f[q] => p = q
  BY <1>8
<1>12. \A x \in S : \E p \in 1..n : f[p] = x
  BY <1>5, <1>6, <1>8
<1>13. \A p, q \in 1..n : p < q => <<f[p], f[q]>> \in R
  <2>. SUFFICES ASSUME NEW p \in 1..n, NEW q \in 1..n, p < q PROVE <<f[p], f[q]>> \in R
    OBVIOUS
  <2>1. f[p] \in S /\ f[q] \in S /\ rank[f[p]] = p /\ rank[f[q]] = q
    BY <1>8
  <2>2. f[p] # f[q] /\ ~(q < p)
    BY <1>1, <2>1
  <2>3. <<f[q], f[p]>> \notin R
    BY <1>3, <2>1, <2>2
  <2>. QED BY <2>1, <2>2, <2>3
<1>. QED BY <1>9, <1>10, <1>11, <1>12, <1>13 DEF Lists, n

\* g puts the places 1 to k into another order.
Permutes(g, k) ==
  /\ g \in [1..k -> 1..k]
  /\ \A p, q \in 1..k : g[p] = g[q] => p = q
  /\ \A x \in 1..k : \E p \in 1..k : g[p] = x

\* What is at these places then.
Arranged(s, g, k) == [p \in 1..k |-> s[g[p]]]

\* A sequence is sorted by a weak order on its places.
LEMMA StableSortFacts ==
  ASSUME NEW k \in Nat, NEW V, NEW s \in [1..k -> V], NEW B,
         \A x \in 1..k : <<x, x>> \notin B,
         \A x, y, z \in 1..k : <<x, y>> \in B /\ <<y, z>> \in B => <<x, z>> \in B,
         \A x, y, z \in 1..k : <<x, z>> \in B => <<x, y>> \in B \/ <<y, z>> \in B
  PROVE  \E g : /\ Permutes(g, k)
                /\ \A p, q \in 1..k : p < q => <<g[q], g[p]>> \notin B
                /\ StableSort(s, B) = Arranged(s, g, k)
<1>. DEFINE D == 1..k
            R == {x \in D \X D : x \in B \/ (<<x[2], x[1]>> \notin B /\ x[1] < x[2])}
            g == SortedBy(D, R)
<1>1. IsFiniteSet(D) /\ Cardinality(D) = k
  BY FS_Interval
<1>2. \A x, y \in D : <<x, y>> \in R <=> <<x, y>> \in B \/ (<<y, x>> \notin B /\ x < y)
  OBVIOUS
<1>. HIDE DEF R
<1>3. Lists(g, D) /\ \A p, q \in DOMAIN g : p < q => <<g[p], g[q]>> \in R
  <2>1. \A x \in D : <<x, x>> \notin R
    <3>1. \A x \in D : ~(x < x)
      OBVIOUS
    <3>. QED BY <1>2, <3>1
  <2>2. \A x, y, z \in D : <<x, y>> \in R /\ <<y, z>> \in R => <<x, z>> \in R
    <3>. SUFFICES ASSUME NEW x \in D, NEW y \in D, NEW z \in D,
                         <<x, y>> \in R, <<y, z>> \in R
                  PROVE  <<x, z>> \in R
      OBVIOUS
    <3>1. x < y /\ y < z => x < z
      OBVIOUS
    <3>. QED BY <1>2, <3>1
  <2>3. \A x, y \in D : x = y \/ <<x, y>> \in R \/ <<y, x>> \in R
    <3>1. \A x, y \in D : x = y \/ x < y \/ y < x
      OBVIOUS
    <3>. QED BY <1>2, <3>1
  <2>. HIDE DEF D
  <2>. QED BY <1>1, <2>1, <2>2, <2>3, SortedFacts
<1>. HIDE DEF g
<1>4. /\ g \in [D -> D] /\ DOMAIN g = D
      /\ \A p, q \in D : g[p] = g[q] => p = q
      /\ \A x \in D : \E p \in D : g[p] = x
  <2>1. g \in Seq(D) /\ Len(g) = k
    BY <1>1, <1>3 DEF Lists
  <2>2. g \in [D -> D] /\ DOMAIN g = D
    BY <2>1
  <2>. QED BY <1>3, <2>2 DEF Lists
<1>5. \A p, q \in D : p < q => <<g[q], g[p]>> \notin B
  <2>. SUFFICES ASSUME NEW p \in D, NEW q \in D, p < q, <<g[q], g[p]>> \in B PROVE FALSE
    OBVIOUS
  <2>1. <<g[p], g[q]>> \in R /\ g[p] \in D /\ g[q] \in D
    BY <1>3, <1>4
  <2>2. <<g[p], g[q]>> \in B
    BY <1>2, <2>1
  <2>3. <<g[p], g[p]>> \in B
    BY <2>1, <2>2
  <2>. QED BY <2>1, <2>3
<1>6. StableSort(s, B) = [p \in D |-> s[g[p]]]
  <2>. DEFINE t == [p \in D |-> s[g[p]]]
  <2>1. DOMAIN s = D
    OBVIOUS
  <2>2. StableSort(s, B) = Once(t)
    BY <2>1 DEF StableSort, g, R
  <2>3. t \in Seq(V)
    <3>1. t \in [1..k -> V]
      BY <1>4
    <3>. HIDE DEF t
    <3>. QED BY <3>1
  <2>. HIDE DEF t
  <2>4. Once(t) = t
    BY <2>3, OnceIsIt
  <2>. QED BY <2>2, <2>4 DEF t
<1>7. Permutes(g, k) /\ StableSort(s, B) = Arranged(s, g, k)
  BY <1>4, <1>6 DEF Permutes, Arranged
<1>. QED BY <1>5, <1>7

\* Rows in the order of their numbers.
LEMMA AscendingFacts ==
  ASSUME NEW S \in SUBSET Nat, IsFiniteSet(S)
  PROVE  Lists(Ascending(S), S)
<1>. DEFINE R == {x \in S \X S : x[1] < x[2]}
<1>1. \A x, y \in S : <<x, y>> \in R <=> x < y
  OBVIOUS
<1>. HIDE DEF R
<1>2. \A x \in S : <<x, x>> \notin R
  <2>1. \A x \in S : ~(x < x)
    OBVIOUS
  <2>. QED BY <1>1, <2>1
<1>3. \A x, y, z \in S : <<x, y>> \in R /\ <<y, z>> \in R => <<x, z>> \in R
  <2>1. \A x, y, z \in S : x < y /\ y < z => x < z
    OBVIOUS
  <2>. QED BY <1>1, <2>1
<1>4. \A x, y \in S : x = y \/ <<x, y>> \in R \/ <<y, x>> \in R
  <2>1. \A x, y \in S : x = y \/ x < y \/ y < x
    OBVIOUS
  <2>. QED BY <1>1, <2>1
<1>5. Lists(SortedBy(S, R), S)
  BY <1>2, <1>3, <1>4, SortedFacts
<1>. QED BY <1>5 DEF Ascending, R

\* Rows in the order of their workloads.
LEMMA ByWorkloadFacts ==
  ASSUME NEW S \in SUBSET Nat, IsFiniteSet(S), NEW w, \A x \in S : w[x] \in Nat
  PROVE  Lists(ByWorkload(w, S), S)
<1>. DEFINE R == {x \in S \X S : w[x[1]] < w[x[2]] \/ (w[x[1]] = w[x[2]] /\ x[1] < x[2])}
<1>1. \A x, y \in S : <<x, y>> \in R <=> w[x] < w[y] \/ (w[x] = w[y] /\ x < y)
  OBVIOUS
<1>. HIDE DEF R
<1>2. \A x \in S : <<x, x>> \notin R
  <2>1. \A x \in S : ~(x < x) /\ ~(w[x] < w[x])
    OBVIOUS
  <2>. QED BY <1>1, <2>1
<1>3. \A x, y, z \in S : <<x, y>> \in R /\ <<y, z>> \in R => <<x, z>> \in R
  <2>. SUFFICES ASSUME NEW x \in S, NEW y \in S, NEW z \in S,
                       <<x, y>> \in R, <<y, z>> \in R
                PROVE  <<x, z>> \in R
    OBVIOUS
  <2>1. w[x] \in Nat /\ w[y] \in Nat /\ w[z] \in Nat /\ x \in Nat /\ y \in Nat /\ z \in Nat
    OBVIOUS
  <2>2. w[x] < w[z] \/ (w[x] = w[z] /\ x < z)
    BY <1>1, <2>1
  <2>. QED BY <1>1, <2>2
<1>4. \A x, y \in S : x = y \/ <<x, y>> \in R \/ <<y, x>> \in R
  <2>1. \A x, y \in S : x = y \/ x < y \/ y < x
    OBVIOUS
  <2>2. \A x, y \in S : w[x] = w[y] \/ w[x] < w[y] \/ w[y] < w[x]
    OBVIOUS
  <2>. QED BY <1>1, <2>1, <2>2
<1>5. Lists(SortedBy(S, R), S)
  BY <1>2, <1>3, <1>4, SortedFacts
<1>. QED BY <1>5 DEF ByWorkload, R

-------------------------------------------------------------------------------
(* The largest differencing method: the parts. *)

\* What a part of the rows 1 to n can be.
PartsOf(n) ==
  {p \in [sum : Nat, items : SUBSET (1..n), first : 0..n] :
     \/ p.items = {} /\ p.sum = 0 /\ p.first = 0
     \/ p.items # {} /\ p.sum > 0 /\ p.first \in p.items}

LEMMA PartFacts ==
  ASSUME NEW n \in Nat, NEW p \in PartsOf(n)
  PROVE  /\ p.sum \in Nat /\ p.items \in SUBSET (1..n) /\ p.first \in 0..n
         /\ IsFiniteSet(p.items) /\ Cardinality(p.items) \in Nat
         /\ p.items = {} => p.sum = 0 /\ p.first = 0
         /\ p.items # {} => p.sum > 0 /\ p.first \in p.items
         /\ p = [sum |-> p.sum, items |-> p.items, first |-> p.first]
<1>1. /\ p.sum \in Nat /\ p.items \in SUBSET (1..n) /\ p.first \in 0..n
      /\ p.items = {} => p.sum = 0 /\ p.first = 0
      /\ p.items # {} => p.sum > 0 /\ p.first \in p.items
      /\ p = [sum |-> p.sum, items |-> p.items, first |-> p.first]
  BY DEF PartsOf
<1>2. IsFiniteSet(1..n)
  BY FS_Interval
<1>. QED BY <1>1, <1>2, FS_Subset, FS_CardinalityType

\* Parts are sorted by sums first.
LEMMA DecreasingFacts ==
  ASSUME NEW k \in Nat, NEW n \in Nat, NEW parts \in [1..k -> PartsOf(n)]
  PROVE  \E g : /\ Permutes(g, k)
                /\ \A p, q \in 1..k : p < q => parts[g[q]].sum <= parts[g[p]].sum
                /\ Decreasing(parts) = Arranged(parts, g, k)
<1>. DEFINE D == 1..k
            sum(x) == parts[x].sum
            size(x) == Cardinality(parts[x].items)
            first(x) == parts[x].first
            more(x, y) == \/ sum(x) > sum(y)
                          \/ sum(x) = sum(y) /\ size(x) > size(y)
                          \/ sum(x) = sum(y) /\ size(x) = size(y) /\ first(x) > first(y)
            B == {x \in D \X D : Bigger(parts[x[1]], parts[x[2]])}
<1>1. \A x \in D : sum(x) \in Nat /\ size(x) \in Nat /\ first(x) \in Nat
  BY PartFacts
<1>2. \A x, y \in D : <<x, y>> \in B <=> more(x, y)
  BY DEF Bigger
<1>3. Decreasing(parts) = StableSort(parts, B)
  BY DEF Decreasing
<1>. HIDE DEF B, sum, size, first
<1>4. \A x \in D : <<x, x>> \notin B
  <2>1. \A x \in D : ~more(x, x)
    BY <1>1
  <2>. QED BY <1>2, <2>1
<1>5. \A x, y, z \in D : <<x, y>> \in B /\ <<y, z>> \in B => <<x, z>> \in B
  <2>1. \A x, y, z \in D : more(x, y) /\ more(y, z) => more(x, z)
    <3>. SUFFICES ASSUME NEW x \in D, NEW y \in D, NEW z \in D
                  PROVE  more(x, y) /\ more(y, z) => more(x, z)
      OBVIOUS
    <3>1. /\ sum(x) \in Nat /\ size(x) \in Nat /\ first(x) \in Nat
          /\ sum(y) \in Nat /\ size(y) \in Nat /\ first(y) \in Nat
          /\ sum(z) \in Nat /\ size(z) \in Nat /\ first(z) \in Nat
      BY <1>1
    <3>. QED BY ONLY <3>1
  <2>. HIDE DEF more
  <2>. QED BY <1>2, <2>1
<1>6. \A x, y, z \in D : <<x, z>> \in B => <<x, y>> \in B \/ <<y, z>> \in B
  <2>1. \A x, y, z \in D : more(x, z) => more(x, y) \/ more(y, z)
    <3>. SUFFICES ASSUME NEW x \in D, NEW y \in D, NEW z \in D
                  PROVE  more(x, z) => more(x, y) \/ more(y, z)
      OBVIOUS
    <3>1. /\ sum(x) \in Nat /\ size(x) \in Nat /\ first(x) \in Nat
          /\ sum(y) \in Nat /\ size(y) \in Nat /\ first(y) \in Nat
          /\ sum(z) \in Nat /\ size(z) \in Nat /\ first(z) \in Nat
      BY <1>1
    <3>. QED BY ONLY <3>1
  <2>. HIDE DEF more
  <2>. QED BY <1>2, <2>1
<1>7. PICK g : /\ Permutes(g, k)
               /\ \A p, q \in D : p < q => <<g[q], g[p]>> \notin B
               /\ StableSort(parts, B) = Arranged(parts, g, k)
  <2>1. parts \in [1..k -> PartsOf(n)]
    OBVIOUS
  <2>. HIDE DEF more
  <2>. QED BY ONLY k \in Nat, <1>4, <1>5, <1>6, <2>1, StableSortFacts
<1>8. \A p, q \in D : p < q => sum(g[q]) <= sum(g[p])
  <2>1. \A x, y \in D : ~more(x, y) => sum(x) <= sum(y)
    BY <1>1
  <2>2. \A p \in D : g[p] \in D
    BY <1>7 DEF Permutes
  <2>. HIDE DEF more
  <2>. QED BY <1>2, <1>7, <2>1, <2>2
<1>. QED BY <1>3, <1>7, <1>8 DEF sum

LEMMA UnionFacts ==
  ASSUME NEW n \in Nat, NEW a \in PartsOf(n), NEW b \in PartsOf(n)
  PROVE  /\ Union(a, b) \in PartsOf(n) /\ Union(a, b).items = a.items \cup b.items
         /\ Union(a, b).sum = a.sum + b.sum
<1>. DEFINE sum == a.sum + b.sum
            items == a.items \cup b.items
            first == IF a.items = {} THEN b.first ELSE a.first
            u == [sum |-> sum, items |-> items, first |-> first]
<1>1. /\ a.sum \in Nat /\ a.items \in SUBSET (1..n) /\ a.first \in 0..n
      /\ a.items = {} => a.sum = 0 /\ a.first = 0
      /\ a.items # {} => a.sum > 0 /\ a.first \in a.items
  BY PartFacts
<1>2. /\ b.sum \in Nat /\ b.items \in SUBSET (1..n) /\ b.first \in 0..n
      /\ b.items = {} => b.sum = 0 /\ b.first = 0
      /\ b.items # {} => b.sum > 0 /\ b.first \in b.items
  BY PartFacts
<1>3. sum \in Nat /\ items \in SUBSET (1..n) /\ first \in 0..n
  BY <1>1, <1>2
<1>4. \/ items = {} /\ sum = 0 /\ first = 0
      \/ items # {} /\ sum > 0 /\ first \in items
  <2>1. CASE a.items = {} /\ b.items = {}
    BY <1>1, <1>2, <2>1
  <2>2. CASE a.items # {}
    <3>1. sum > 0
      BY <1>1, <1>2, <2>2
    <3>. QED BY <1>1, <2>2, <3>1
  <2>3. CASE a.items = {} /\ b.items # {}
    <3>1. sum > 0
      BY <1>1, <1>2, <2>3
    <3>. QED BY <1>2, <2>3, <3>1
  <2>. QED BY <2>1, <2>2, <2>3
<1>. HIDE DEF sum, items, first
<1>5. u \in PartsOf(n)
  BY <1>3, <1>4 DEF PartsOf
<1>6. Union(a, b) = u
  BY DEF Union, sum, items, first
<1>. QED BY <1>5, <1>6 DEF items, sum

\* Parts have rows of their own, the largest come first, and when one is empty, which
\* only happens while there are too few rows for all, no other has two.
Tuples(n, k) ==
  {t \in [1..k -> PartsOf(n)] :
     /\ \A i, j \in 1..k : i # j => t[i].items \cap t[j].items = {}
     /\ \A i, j \in 1..k : i < j => t[j].sum <= t[i].sum
     /\ t[1].items # {}
     /\ \A i \in 1..k : t[i].items = {} =>
          \A j \in 1..k : \A x, y \in t[j].items : x = y}

HasRow(t, k, x) == \E i \in 1..k : x \in t[i].items
EqualParts(t, k) == \A i, j \in 1..k : Cardinality(t[i].items) = Cardinality(t[j].items)
Apart(s, t, k) == \A i, j \in 1..k : s[i].items \cap t[j].items = {}

\* The sums are those of the rows' workloads, and no part has more than b above another.
Weighs(t, k, w, b) ==
  /\ \A i \in 1..k : t[i].sum = SumOver(w, t[i].items)
  /\ \A i, j \in 1..k : t[i].sum - t[j].sum <= b

\* The empty parts are the last.
LEMMA EmptyIsLast ==
  ASSUME NEW n \in Nat, NEW k \in Nat, NEW t \in Tuples(n, k),
         NEW i \in 1..k, NEW j \in 1..k, i < j, t[i].items = {}
  PROVE  t[j].items = {}
<1>1. t[i] \in PartsOf(n) /\ t[j] \in PartsOf(n) /\ t[j].sum <= t[i].sum
  BY DEF Tuples
<1>2. t[i].sum = 0 /\ t[j].sum \in Nat /\ (t[j].items # {} => t[j].sum > 0)
  BY <1>1, PartFacts
<1>. QED BY <1>1, <1>2

\* Sorting the parts of a tuple.
LEMMA SortedTuple ==
  ASSUME NEW n \in Nat, NEW k \in Nat \ {0}, NEW u \in [1..k -> PartsOf(n)],
         \A i, j \in 1..k : i # j => u[i].items \cap u[j].items = {},
         \E i \in 1..k : u[i].items # {},
         \A i \in 1..k : u[i].items = {} =>
           \A j \in 1..k : \A x, y \in u[j].items : x = y,
         NEW w, NEW b
  PROVE  /\ Decreasing(u) \in Tuples(n, k)
         /\ \A x : HasRow(Decreasing(u), k, x) <=> HasRow(u, k, x)
         /\ EqualParts(u, k) => EqualParts(Decreasing(u), k)
         /\ Weighs(u, k, w, b) => Weighs(Decreasing(u), k, w, b)
<1>1. PICK g : /\ Permutes(g, k)
               /\ \A p, q \in 1..k : p < q => u[g[q]].sum <= u[g[p]].sum
               /\ Decreasing(u) = Arranged(u, g, k)
  BY DecreasingFacts
<1>. DEFINE t == Arranged(u, g, k)
<1>2. /\ g \in [1..k -> 1..k]
      /\ \A p, q \in 1..k : g[p] = g[q] => p = q
      /\ \A x \in 1..k : \E p \in 1..k : g[p] = x
  BY <1>1 DEF Permutes
<1>3. t \in [1..k -> PartsOf(n)] /\ \A i \in 1..k : t[i] = u[g[i]] /\ g[i] \in 1..k
  BY <1>2 DEF Arranged
<1>. HIDE DEF t
<1>4. \A i, j \in 1..k : i # j => t[i].items \cap t[j].items = {}
  <2>. SUFFICES ASSUME NEW i \in 1..k, NEW j \in 1..k, i # j
                PROVE  t[i].items \cap t[j].items = {}
    OBVIOUS
  <2>1. g[i] \in 1..k /\ g[j] \in 1..k /\ g[i] # g[j]
    BY <1>2
  <2>2. u[g[i]].items \cap u[g[j]].items = {}
    BY <2>1
  <2>. QED BY <1>3, <2>2
<1>5. \A i, j \in 1..k : i < j => t[j].sum <= t[i].sum
  BY <1>1, <1>3
<1>6. t[1].items # {}
  <2>1. PICK i \in 1..k : u[i].items # {}
    OBVIOUS
  <2>2. PICK p \in 1..k : g[p] = i
    BY <1>2
  <2>3. t[p].items # {} /\ t[p] \in PartsOf(n) /\ t[1] \in PartsOf(n) /\ 1 \in 1..k
    BY <1>3, <2>1, <2>2
  <2>4. t[p].sum > 0 /\ t[p].sum \in Nat /\ t[1].sum \in Nat
    BY <2>3, PartFacts
  <2>5. p = 1 \/ t[p].sum <= t[1].sum
    BY <1>5, <2>3
  <2>6. t[1].sum > 0
    BY <2>4, <2>5
  <2>7. t[1].items = {} => t[1].sum = 0
    BY <2>3, PartFacts
  <2>. QED BY ONLY <2>6, <2>7
<1>7. \A i \in 1..k : t[i].items = {} =>
        \A j \in 1..k : \A x, y \in t[j].items : x = y
  <2>. SUFFICES ASSUME NEW i \in 1..k, t[i].items = {}, NEW j \in 1..k,
                       NEW x \in t[j].items, NEW y \in t[j].items
                PROVE  x = y
    OBVIOUS
  <2>1. /\ g[i] \in 1..k /\ u[g[i]].items = {}
        /\ g[j] \in 1..k /\ x \in u[g[j]].items /\ y \in u[g[j]].items
    BY ONLY <1>3, i \in 1..k, j \in 1..k, t[i].items = {}, x \in t[j].items,
            y \in t[j].items
  <2>. QED BY <2>1
<1>8. \A x : HasRow(t, k, x) <=> HasRow(u, k, x)
  <2>. SUFFICES ASSUME NEW x PROVE HasRow(t, k, x) <=> HasRow(u, k, x)
    OBVIOUS
  <2>1. ASSUME NEW i \in 1..k, x \in t[i].items PROVE \E j \in 1..k : x \in u[j].items
    BY <1>3, <2>1
  <2>2. ASSUME NEW j \in 1..k, x \in u[j].items PROVE \E i \in 1..k : x \in t[i].items
    <3>1. PICK i \in 1..k : g[i] = j
      BY <1>2
    <3>. QED BY <1>3, <2>2, <3>1
  <2>. QED BY <2>1, <2>2 DEF HasRow
<1>9. EqualParts(u, k) => EqualParts(t, k)
  <2>. SUFFICES ASSUME EqualParts(u, k), NEW i \in 1..k, NEW j \in 1..k
                PROVE  Cardinality(t[i].items) = Cardinality(t[j].items)
    BY DEF EqualParts
  <2>1. Cardinality(u[g[i]].items) = Cardinality(u[g[j]].items)
    BY <1>3 DEF EqualParts
  <2>2. t[i] = u[g[i]] /\ t[j] = u[g[j]]
    BY <1>3
  <2>. QED BY ONLY <2>1, <2>2
<1>10. t \in Tuples(n, k)
  BY <1>3, <1>4, <1>5, <1>6, <1>7 DEF Tuples
<1>11. Decreasing(u) = t
  BY <1>1 DEF t
<1>12. Weighs(u, k, w, b) => Weighs(t, k, w, b)
  <2>1. \A i \in 1..k : t[i] = u[g[i]] /\ g[i] \in 1..k
    BY <1>3
  <2>. QED BY ONLY <2>1, SMTT(30) DEF Weighs
<1>. QED BY <1>8, <1>9, <1>10, <1>11, <1>12

\* Merging keeps all of this: where both have an empty part, the rows of one go to the
\* empty parts of the other.
LEMMA MergeFacts ==
  ASSUME NEW n \in Nat, NEW k \in Nat \ {0}, NEW s \in Tuples(n, k), NEW t \in Tuples(n, k),
         Apart(s, t, k), NEW w \in [1..n -> Nat], NEW b \in Nat
  PROVE  /\ MergeTuples(s, t) \in Tuples(n, k)
         /\ \A x : HasRow(MergeTuples(s, t), k, x) <=> HasRow(s, k, x) \/ HasRow(t, k, x)
         /\ EqualParts(s, k) /\ EqualParts(t, k) => EqualParts(MergeTuples(s, t), k)
         /\ Weighs(s, k, w, b) /\ Weighs(t, k, w, b) => Weighs(MergeTuples(s, t), k, w, b)
<1>. DEFINE m(i) == k + 1 - i
            u == [i \in 1..k |-> Union(s[i], t[m(i)])]
<1>1. /\ s \in [1..k -> PartsOf(n)] /\ t \in [1..k -> PartsOf(n)]
      /\ \A i, j \in 1..k : i # j => s[i].items \cap s[j].items = {}
      /\ \A i, j \in 1..k : i # j => t[i].items \cap t[j].items = {}
      /\ s[1].items # {}
  BY DEF Tuples
<1>2. /\ \A i \in 1..k : m(i) \in 1..k /\ m(m(i)) = i
      /\ \A i, j \in 1..k : i # j => m(i) # m(j)
      /\ \A i, j \in 1..k : i < j => m(j) < m(i)
  OBVIOUS
<1>3. MergeTuples(s, t) = Decreasing(u)
  <2>1. DOMAIN s = 1..k /\ Len(s) = k
    BY <1>1
  <2>. QED BY <2>1 DEF MergeTuples
<1>. HIDE DEF m
<1>4. /\ u \in [1..k -> PartsOf(n)]
      /\ \A i \in 1..k : /\ u[i].items = s[i].items \cup t[m(i)].items
                         /\ u[i].sum = s[i].sum + t[m(i)].sum
  BY <1>1, <1>2, UnionFacts
<1>. HIDE DEF u
<1>5. \A i, j \in 1..k : i # j => u[i].items \cap u[j].items = {}
  BY <1>1, <1>2, <1>4, ZenonT(30) DEF Apart
<1>6. \E i \in 1..k : u[i].items # {}
  <2>1. 1 \in 1..k
    OBVIOUS
  <2>2. u[1].items = s[1].items \cup t[m(1)].items
    BY ONLY <1>4, <2>1
  <2>3. s[1].items # {}
    BY ONLY <1>1
  <2>. QED BY ONLY <2>1, <2>2, <2>3
<1>7. ASSUME NEW i \in 1..k, u[i].items = {},
             NEW j \in 1..k, NEW x \in u[j].items, NEW y \in u[j].items
      PROVE  x = y
  <2>1. s[i].items = {} /\ t[m(i)].items = {}
    BY <1>4, <1>7
  <2>2. /\ \A p, q \in s[j].items : p = q
        /\ \A p, q \in t[m(j)].items : p = q
    BY <1>2, <2>1 DEF Tuples
  <2>3. s[j].items = {} \/ t[m(j)].items = {}
    <3>1. \A p, q \in 1..k : p < q /\ s[p].items = {} => s[q].items = {}
      BY EmptyIsLast
    <3>2. \A p, q \in 1..k : p < q /\ t[p].items = {} => t[q].items = {}
      BY EmptyIsLast
    <3>3. i < j \/ j < i \/ i = j
      OBVIOUS
    <3>. QED BY <1>2, <2>1, <3>1, <3>2, <3>3
  <2>. QED BY <1>4, <1>7, <2>2, <2>3
<1>8. /\ Decreasing(u) \in Tuples(n, k)
      /\ \A x : HasRow(Decreasing(u), k, x) <=> HasRow(u, k, x)
      /\ EqualParts(u, k) => EqualParts(Decreasing(u), k)
      /\ Weighs(u, k, w, b) => Weighs(Decreasing(u), k, w, b)
  BY <1>4, <1>5, <1>6, <1>7, SortedTuple
<1>9. \A x : HasRow(u, k, x) <=> HasRow(s, k, x) \/ HasRow(t, k, x)
  BY <1>2, <1>4 DEF HasRow
<1>10. ASSUME EqualParts(s, k), EqualParts(t, k) PROVE EqualParts(u, k)
  <2>1. ASSUME NEW i \in 1..k
        PROVE  /\ Cardinality(u[i].items)
                    = Cardinality(s[i].items) + Cardinality(t[m(i)].items)
    <3>1. /\ IsFiniteSet(s[i].items) /\ IsFiniteSet(t[m(i)].items)
          /\ Cardinality(s[i].items) \in Nat /\ Cardinality(t[m(i)].items) \in Nat
      BY <1>1, <1>2, PartFacts
    <3>2. s[i].items \cap t[m(i)].items = {}
      BY <1>2 DEF Apart
    <3>. DEFINE left == s[i].items
                right == t[m(i)].items
    <3>3. u[i].items = left \cup right
      BY <1>4
    <3>. HIDE DEF left, right
    <3>4. Cardinality(left \cup right) = Cardinality(left) + Cardinality(right) - 0
      BY <3>1, <3>2, FS_Union, FS_EmptySet DEF left, right
    <3>. QED BY <3>1, <3>3, <3>4 DEF left, right
  <2>. QED BY <1>2, <1>10, <2>1 DEF EqualParts
<1>11. ASSUME Weighs(s, k, w, b), Weighs(t, k, w, b) PROVE Weighs(u, k, w, b)
  <2>1. ASSUME NEW i \in 1..k PROVE u[i].sum = SumOver(w, u[i].items)
    <3>. DEFINE x == s[i].items
                y == t[m(i)].items
    <3>1. IsFiniteSet(x) /\ IsFiniteSet(y) /\ x \in SUBSET (1..n) /\ y \in SUBSET (1..n)
      BY <1>1, <1>2, PartFacts
    <3>2. x \cap y = {}
      BY <1>2 DEF Apart
    <3>3. s[i].sum = SumOver(w, x) /\ t[m(i)].sum = SumOver(w, y)
      BY <1>2, <1>11 DEF Weighs
    <3>4. u[i].items = x \cup y /\ u[i].sum = s[i].sum + t[m(i)].sum
      BY <1>4
    <3>. HIDE DEF x, y
    <3>5. SumOver(w, x \cup y) = SumOver(w, x) + SumOver(w, y)
      <4>1. \A z \in x \cup y : w[z] \in Nat
        BY <3>1
      <4>. QED BY ONLY <3>1, <3>2, <4>1, SumOfUnion
    <3>. QED BY <3>3, <3>4, <3>5
  <2>2. ASSUME NEW i \in 1..k, NEW j \in 1..k PROVE u[i].sum - u[j].sum <= b
    <3>. DEFINE c == m(i)
                d == m(j)
    <3>1. c \in 1..k /\ d \in 1..k /\ (i < j => d < c) /\ (j < i => c < d)
      BY <1>2
    <3>2. u[i].sum = s[i].sum + t[c].sum /\ u[j].sum = s[j].sum + t[d].sum
      BY <1>4
    <3>. HIDE DEF c, d
    <3>3. s[i].sum \in Nat /\ s[j].sum \in Nat /\ t[c].sum \in Nat /\ t[d].sum \in Nat
      BY <1>1, <3>1, PartFacts
    <3>4. s[i].sum - s[j].sum <= b /\ t[c].sum - t[d].sum <= b
      BY <1>11, <3>1 DEF Weighs
    <3>5. CASE i < j
      <4>1. t[c].sum <= t[d].sum
        BY <3>1, <3>5 DEF Tuples
      <4>. QED BY ONLY b \in Nat, <3>2, <3>3, <3>4, <4>1, SMTT(30)
    <3>6. CASE j < i
      <4>1. s[i].sum <= s[j].sum
        BY <3>6 DEF Tuples
      <4>. QED BY ONLY b \in Nat, <3>2, <3>3, <3>4, <4>1, SMTT(30)
    <3>7. CASE i = j
      <4>1. u[i].sum = u[j].sum /\ u[i].sum \in Nat
        BY <3>2, <3>3, <3>7
      <4>. QED BY ONLY b \in Nat, <4>1
    <3>. QED BY <3>5, <3>6, <3>7
  <2>. QED BY <2>1, <2>2 DEF Weighs
<1>. QED BY <1>3, <1>8, <1>9, <1>10, <1>11

-------------------------------------------------------------------------------
(* The largest differencing method: the heap. *)

\* The tuples of a heap have each row once, and no part much more work than another;
\* equal says whether parts are of one size.
Heaps(n, k, w, b, equal, m) ==
  {h \in SUBSET Tuples(n, k) :
     /\ IsFiniteSet(h) /\ Cardinality(h) = m
     /\ \A s, t \in h : s # t => Apart(s, t, k)
     /\ \A x \in 1..n : \E t \in h : HasRow(t, k, x)
     /\ equal => \A t \in h : EqualParts(t, k)
     /\ \A t \in h : Weighs(t, k, w, b)}

\* There is always a tuple to pop: of two with the same spread and equal largest parts
\* but for their rows, the first rows differ.
LEMMA TopFacts ==
  ASSUME NEW n \in Nat, NEW k \in Nat \ {0}, NEW h \in SUBSET Tuples(n, k),
         IsFiniteSet(h), h # {}, \A s, t \in h : s # t => Apart(s, t, k)
  PROVE  Top(h) \in h
<1>. DEFINE spread == [t \in h |-> Spread(t)]
            sum == [t \in h |-> t[1].sum]
            size == [t \in h |-> Cardinality(t[1].items)]
            first == [t \in h |-> t[1].first]
<1>1. ASSUME NEW t \in h
      PROVE  /\ t[1] \in PartsOf(n) /\ t[1].items # {}
             /\ Spread(t) \in Nat /\ t[1].sum \in Nat
             /\ Cardinality(t[1].items) \in Nat /\ t[1].first \in Nat
             /\ t[1].first \in t[1].items
  <2>1. /\ t \in [1..k -> PartsOf(n)] /\ t[1].items # {}
        /\ \A i, j \in 1..k : i < j => t[j].sum <= t[i].sum
    BY DEF Tuples
  <2>2. t[1] \in PartsOf(n) /\ t[k] \in PartsOf(n) /\ Len(t) = k
    BY <2>1
  <2>3. /\ t[1].sum \in Nat /\ t[k].sum \in Nat
        /\ Cardinality(t[1].items) \in Nat /\ t[1].first \in Nat /\ t[1].first \in t[1].items
    BY <2>1, <2>2, PartFacts
  <2>4. t[k].sum <= t[1].sum
    <3>1. k = 1 \/ 1 < k
      OBVIOUS
    <3>. QED BY <2>1, <2>3, <3>1
  <2>5. Spread(t) = t[1].sum - t[k].sum
    BY <2>2 DEF Spread
  <2>. QED BY <2>1, <2>2, <2>3, <2>4, <2>5
<1>2. /\ spread \in [h -> Nat] /\ sum \in [h -> Nat]
      /\ size \in [h -> Nat] /\ first \in [h -> Nat]
  BY <1>1
<1>3. \A s, t \in h : s # t => first[s] # first[t]
  <2>. SUFFICES ASSUME NEW s \in h, NEW t \in h, s # t PROVE s[1].first # t[1].first
    OBVIOUS
  <2>1. s[1].items \cap t[1].items = {}
    BY DEF Apart
  <2>. QED BY <1>1, <2>1
<1>4. \A s, t \in h : Bigger(s[1], t[1]) <=>
        \/ sum[s] > sum[t]
        \/ sum[s] = sum[t] /\ size[s] > size[t]
        \/ sum[s] = sum[t] /\ size[s] = size[t] /\ first[s] > first[t]
  BY DEF Bigger
<1>5. \A t \in h : Spread(t) = spread[t]
  OBVIOUS
<1>. HIDE DEF spread, sum, size, first
<1>6. PICK a \in h : \A t \in h : spread[t] <= spread[a]
  BY <1>2, LargestBy
<1>. DEFINE A == {t \in h : spread[t] = spread[a]}
<1>7. PICK b \in A : \A t \in A : sum[t] <= sum[b]
  <2>1. IsFiniteSet(A) /\ a \in A
    BY FS_Subset
  <2>. DEFINE f == [t \in A |-> sum[t]]
  <2>2. f \in [A -> Nat] /\ \A t \in A : f[t] = sum[t]
    BY <1>2
  <2>. HIDE DEF f, A
  <2>. QED BY <2>1, <2>2, LargestBy
<1>. DEFINE B == {t \in A : sum[t] = sum[b]}
<1>8. PICK c \in B : \A t \in B : size[t] <= size[c]
  <2>1. IsFiniteSet(B) /\ b \in B
    BY FS_Subset
  <2>. DEFINE f == [t \in B |-> size[t]]
  <2>2. f \in [B -> Nat] /\ \A t \in B : f[t] = size[t]
    BY <1>2
  <2>. HIDE DEF f, B
  <2>. QED BY <2>1, <2>2, LargestBy
<1>. DEFINE C == {t \in B : size[t] = size[c]}
<1>9. PICK d \in C : \A t \in C : first[t] <= first[d]
  <2>1. IsFiniteSet(C) /\ c \in C
    BY FS_Subset
  <2>. DEFINE f == [t \in C |-> first[t]]
  <2>2. f \in [C -> Nat] /\ \A t \in C : f[t] = first[t]
    BY <1>2
  <2>. HIDE DEF f, C
  <2>. QED BY <2>1, <2>2, LargestBy
<1>10. ASSUME NEW t \in h \ {d}
       PROVE  \/ Spread(d) > Spread(t)
              \/ Spread(d) = Spread(t) /\ Bigger(d[1], t[1])
  <2>1. /\ spread[d] \in Nat /\ sum[d] \in Nat /\ size[d] \in Nat /\ first[d] \in Nat
        /\ spread[t] \in Nat /\ sum[t] \in Nat /\ size[t] \in Nat /\ first[t] \in Nat
        /\ d \in h /\ t \in h /\ first[d] # first[t]
    BY <1>2, <1>3
  <2>2. spread[t] <= spread[d]
    BY <1>6
  <2>3. spread[t] = spread[d] => sum[t] <= sum[d]
    BY <1>7
  <2>4. spread[t] = spread[d] /\ sum[t] = sum[d] => size[t] <= size[d]
    BY <1>8
  <2>5. spread[t] = spread[d] /\ sum[t] = sum[d] /\ size[t] = size[d] => first[t] <= first[d]
    BY <1>9
  <2>6. \/ spread[d] > spread[t]
        \/ /\ spread[d] = spread[t]
           /\ \/ sum[d] > sum[t]
              \/ sum[d] = sum[t] /\ size[d] > size[t]
              \/ sum[d] = sum[t] /\ size[d] = size[t] /\ first[d] > first[t]
    BY ONLY <2>1, <2>2, <2>3, <2>4, <2>5
  <2>. QED BY <1>4, <1>5, <2>1, <2>6
<1>11. d \in h
  OBVIOUS
<1>. HIDE DEF A, B, C
<1>12. \E s \in h : \A t \in h \ {s} :
         Spread(s) > Spread(t) \/ (Spread(s) = Spread(t) /\ Bigger(s[1], t[1]))
  BY <1>10, <1>11
<1>. QED BY <1>12 DEF Top

\* Two tuples are replaced by one with their rows.
LEMMA CombineFacts ==
  ASSUME NEW n \in Nat, NEW k \in Nat \ {0}, NEW equal \in BOOLEAN,
         NEW w \in [1..n -> Nat], NEW b \in Nat,
         NEW m \in Nat, m > 1, NEW h \in Heaps(n, k, w, b, equal, m)
  PROVE  CombineTop(h) \in Heaps(n, k, w, b, equal, m - 1)
<1>. DEFINE s == Top(h)
            t == Top(h \ {s})
            u == MergeTuples(s, t)
            rest == h \ {s, t}
            c == rest \cup {u}
<1>1. /\ h \in SUBSET Tuples(n, k) /\ IsFiniteSet(h) /\ Cardinality(h) = m
      /\ \A a, d \in h : a # d => Apart(a, d, k)
      /\ \A x \in 1..n : \E a \in h : HasRow(a, k, x)
      /\ equal => \A a \in h : EqualParts(a, k)
      /\ \A a \in h : Weighs(a, k, w, b)
  BY DEF Heaps
<1>2. s \in h
  <2>1. h # {}
    BY <1>1, FS_EmptySet
  <2>. QED BY <1>1, <2>1, TopFacts
<1>. HIDE DEF s
<1>3. IsFiniteSet(h \ {s}) /\ Cardinality(h \ {s}) = m - 1
  BY <1>1, <1>2, FS_RemoveElement
<1>4. t \in h \ {s}
  <2>. DEFINE g == h \ {s}
  <2>1. g # {} /\ g \in SUBSET Tuples(n, k) /\ \A a, d \in g : a # d => Apart(a, d, k)
    BY <1>1, <1>3, FS_EmptySet
  <2>2. IsFiniteSet(g)
    BY <1>3
  <2>. HIDE DEF g
  <2>3. Top(g) \in g
    BY <2>1, <2>2, TopFacts
  <2>. QED BY <2>3 DEF g
<1>. HIDE DEF t
<1>5. IsFiniteSet(rest) /\ Cardinality(rest) = m - 2
  <2>1. rest = (h \ {s}) \ {t}
    OBVIOUS
  <2>2. /\ IsFiniteSet((h \ {s}) \ {t})
        /\ Cardinality((h \ {s}) \ {t}) = m - 1 - 1
    <3>. DEFINE g == h \ {s}
    <3>1. IsFiniteSet(g) /\ Cardinality(g) = m - 1 /\ t \in g
      BY <1>3, <1>4
    <3>. HIDE DEF g
    <3>2. IsFiniteSet(g \ {t}) /\ Cardinality(g \ {t}) = m - 1 - 1
      BY <3>1, FS_RemoveElement
    <3>. QED BY <3>2 DEF g
  <2>3. m - 1 - 1 = m - 2
    OBVIOUS
  <2>. QED BY ONLY <2>1, <2>2, <2>3
<1>6. /\ u \in Tuples(n, k)
      /\ \A x : HasRow(u, k, x) <=> HasRow(s, k, x) \/ HasRow(t, k, x)
      /\ EqualParts(s, k) /\ EqualParts(t, k) => EqualParts(u, k)
      /\ Weighs(s, k, w, b) /\ Weighs(t, k, w, b) => Weighs(u, k, w, b)
  <2>1. s \in Tuples(n, k) /\ t \in Tuples(n, k) /\ Apart(s, t, k)
    BY <1>1, <1>2, <1>4
  <2>. QED BY <2>1, MergeFacts
<1>. HIDE DEF u
<1>7. ASSUME NEW a \in rest PROVE Apart(a, u, k) /\ Apart(u, a, k) /\ a # u
  <2>1. Apart(a, s, k) /\ Apart(a, t, k)
    BY <1>1, <1>2, <1>4
  <2>2. \A x : HasRow(a, k, x) => ~HasRow(u, k, x)
    BY <1>6, <2>1 DEF HasRow, Apart
  <2>3. Apart(a, u, k) /\ Apart(u, a, k)
    BY <2>2 DEF HasRow, Apart
  <2>4. a # u
    <3>1. u[1].items # {} /\ 1 \in 1..k
      BY <1>6 DEF Tuples
    <3>. QED BY <2>3, <3>1 DEF Apart
  <2>. QED BY <2>3, <2>4
<1>8. IsFiniteSet(c) /\ Cardinality(c) = m - 1
  <2>1. u \notin rest
    BY <1>7
  <2>. HIDE DEF rest
  <2>2. IsFiniteSet(rest \cup {u}) /\ Cardinality(rest \cup {u}) = Cardinality(rest) + 1
    BY <1>5, <2>1, FS_AddElement
  <2>. QED BY <1>5, <2>2
<1>9. c \in SUBSET Tuples(n, k)
  BY <1>1, <1>6
<1>10. \A a, d \in c : a # d => Apart(a, d, k)
  BY <1>1, <1>7
<1>11. \A x \in 1..n : \E a \in c : HasRow(a, k, x)
  <2>. SUFFICES ASSUME NEW x \in 1..n PROVE \E a \in c : HasRow(a, k, x)
    OBVIOUS
  <2>1. PICK a \in h : HasRow(a, k, x)
    BY <1>1
  <2>2. CASE a \in {s, t}
    BY <1>6, <2>1, <2>2
  <2>3. CASE a \notin {s, t}
    BY <2>1, <2>3
  <2>. QED BY <2>2, <2>3
<1>12. equal => \A a \in c : EqualParts(a, k)
  BY <1>1, <1>2, <1>4, <1>6
<1>13. \A a \in c : Weighs(a, k, w, b)
  BY <1>1, <1>2, <1>4, <1>6
<1>14. CombineTop(h) = c
  BY DEF CombineTop, s, t, u
<1>. HIDE DEF c
<1>. QED BY <1>8, <1>9, <1>10, <1>11, <1>12, <1>13, <1>14 DEF Heaps

\* Merging as long as there are two leaves one tuple with all rows.
LEMMA KarmarkarKarpFacts ==
  ASSUME NEW n \in Nat, NEW k \in Nat \ {0}, NEW equal \in BOOLEAN,
         NEW w \in [1..n -> Nat], NEW b \in Nat,
         NEW m \in Nat \ {0}, NEW heap \in Heaps(n, k, w, b, equal, m)
  PROVE  /\ KarmarkarKarp(heap) \in Tuples(n, k)
         /\ \A x \in 1..n : HasRow(KarmarkarKarp(heap), k, x)
         /\ equal => EqualParts(KarmarkarKarp(heap), k)
         /\ Weighs(KarmarkarKarp(heap), k, w, b)
<1>. DEFINE last == m - 1
            H(i) == Heaps(n, k, w, b, equal, m - i)
            V == SUBSET Tuples(n, k)
            step(f) == [i \in 0..last |-> IF i = 0 THEN heap ELSE CombineTop(f[i - 1])]
            after == CHOOSE f : f = step(f)
<1>1. last \in Nat /\ \A i \in 0..last : m - i \in Nat /\ m - i > 0
  OBVIOUS
<1>2. Cardinality(heap) - 1 = last /\ heap \in V /\ heap \in H(0)
  <2>1. m - 0 = m
    OBVIOUS
  <2>. QED BY <2>1 DEF Heaps
<1>3. \A i \in 0..last : H(i) \in SUBSET V
  BY DEF Heaps
<1>4. ASSUME NEW i \in 1..last, NEW h \in H(i - 1) PROVE CombineTop(h) \in H(i)
  <2>1. m - (i - 1) \in Nat /\ m - (i - 1) > 1 /\ m - (i - 1) - 1 = m - i
    OBVIOUS
  <2>. QED BY <2>1, CombineFacts
<1>. HIDE DEF H, V, last
<1>5. ASSUME NEW f, f[0] = heap,
             \A i \in 1..last : f[i - 1] \in H(i - 1) => f[i] = CombineTop(f[i - 1])
      PROVE  \A i \in 0..last : f[i] \in H(i)
  <2>. DEFINE T == {i \in 0..last : f[i] \in H(i)}
  <2>1. 0 \in T
    BY <1>1, <1>2, <1>5
  <2>2. ASSUME NEW i \in 0..(last - 1), i \in T PROVE i + 1 \in T
    <3>1. i + 1 \in 1..last /\ i + 1 - 1 = i /\ i + 1 \in 0..last
      BY <1>1
    <3>2. f[i] \in H(i)
      BY <2>2
    <3>3. f[i + 1] = CombineTop(f[i])
      BY <1>5, <3>1, <3>2
    <3>4. CombineTop(f[i]) \in H(i + 1)
      BY <1>4, <3>1, <3>2
    <3>. QED BY <3>1, <3>3, <3>4
  <2>3. \A i \in 0..last : i \in T
    <3>. HIDE DEF T
    <3>. QED BY <1>1, <2>1, <2>2, InductionTo
  <2>. QED BY <2>3
<1>6. \E f : f = step(f)
  <2>. DEFINE F == [i \in 1..last |-> [h \in V |-> IF CombineTop(h) \in V THEN CombineTop(h)
                                                   ELSE heap]]
  <2>1. F \in [1..last -> [V -> V]]
    BY <1>2
  <2>2. \A i \in 1..last : \A h \in V : CombineTop(h) \in V => F[i][h] = CombineTop(h)
    OBVIOUS
  <2>. HIDE DEF F
  <2>3. PICK f \in [0..last -> V] : f[0] = heap /\ \A i \in 1..last : f[i] = F[i][f[i - 1]]
    <3>1. last \in Nat /\ heap \in V
      BY <1>1, <1>2
    <3>2. F \in Steps(last, V)
      BY <2>1 DEF Steps
    <3>3. PICK f : Follows(f, last, V, heap, F)
      BY ONLY <3>1, <3>2, Recursion
    <3>. QED BY <3>3 DEF Follows
  <2>4. ASSUME NEW i \in 1..last, f[i - 1] \in H(i - 1) PROVE f[i] = CombineTop(f[i - 1])
    <3>1. i \in 0..last /\ i - 1 \in 0..last
      BY <1>1
    <3>2. f[i - 1] \in V /\ CombineTop(f[i - 1]) \in V
      BY <1>3, <1>4, <2>4, <3>1
    <3>. QED BY <2>2, <2>3, <3>2
  <2>5. \A i \in 0..last : f[i] \in H(i)
    BY <1>5, <2>3, <2>4
  <2>6. ASSUME NEW i \in 0..last, i # 0 PROVE f[i] = CombineTop(f[i - 1])
    <3>1. i \in 1..last /\ i - 1 \in 0..last
      BY <1>1, <2>6
    <3>. QED BY <2>4, <2>5, <3>1
  <2>7. f = step(f)
    BY <2>3, <2>6
  <2>. QED BY <2>7
<1>7. after = step(after)
  BY <1>6
<1>8. KarmarkarKarp(heap) = Top(after[last])
  BY <1>2 DEF KarmarkarKarp
<1>. HIDE DEF after
<1>9. after[0] = heap /\ \A i \in 1..last : after[i] = CombineTop(after[i - 1])
  <2>1. 0 \in 0..last /\ \A i \in 1..last : i \in 0..last /\ i # 0
    BY <1>1
  <2>. QED BY <1>7, <2>1
<1>10. after[last] \in H(last)
  BY <1>1, <1>5, <1>9
<1>. DEFINE h == after[last]
<1>11. /\ h \in SUBSET Tuples(n, k) /\ IsFiniteSet(h) /\ Cardinality(h) = 1
       /\ \A s, t \in h : s # t => Apart(s, t, k)
       /\ \A x \in 1..n : \E t \in h : HasRow(t, k, x)
       /\ equal => \A t \in h : EqualParts(t, k)
       /\ \A t \in h : Weighs(t, k, w, b)
  <2>1. m - last = 1
    BY DEF last
  <2>. QED BY <1>10, <2>1 DEF Heaps, H
<1>. HIDE DEF h
<1>12. Top(h) \in h
  <2>1. h # {}
    BY <1>11, FS_EmptySet
  <2>. QED BY <1>11, <2>1, TopFacts
<1>13. h = {Top(h)}
  <2>1. PICK t : h = {t}
    BY <1>11, FS_Singleton
  <2>. QED BY <1>12, <2>1
<1>14. KarmarkarKarp(heap) = Top(h)
  BY <1>8 DEF h
<1>15. \A x \in 1..n : HasRow(Top(h), k, x)
  <2>. DEFINE t == Top(h)
  <2>. HIDE DEF t
  <2>1. h = {t}
    BY <1>13 DEF t
  <2>2. \A x \in 1..n : HasRow(t, k, x)
    BY <1>11, <2>1
  <2>. QED BY <2>2 DEF t
<1>. QED BY <1>11, <1>12, <1>14, <1>15

\* One tuple per row.
LEMMA SingleTuplesFacts ==
  ASSUME NEW n \in Nat \ {0}, NEW k \in Nat \ {0}, NEW w \in [1..n -> Nat \ {0}],
         NEW b \in Nat, \A i \in 1..n : w[i] <= b
  PROVE  \E m \in Nat \ {0} : SingleTuples(w, k) \in Heaps(n, k, w, b, FALSE, m)
<1>. DEFINE tuple(i) == [j \in 1..k |-> IF j = 1 THEN Single(i, w) ELSE NoItems]
            h == {tuple(i) : i \in 1..n}
<1>1. SingleTuples(w, k) = h
  BY DEF SingleTuples
<1>2. ASSUME NEW i \in 1..n
      PROVE  /\ tuple(i) \in [1..k -> PartsOf(n)]
             /\ tuple(i)[1].items = {i} /\ tuple(i)[1].sum \in Nat
             /\ tuple(i)[1].sum = w[i]
             /\ \A j \in 1..k : j # 1 => tuple(i)[j].items = {} /\ tuple(i)[j].sum = 0
  <2>1. Single(i, w) \in PartsOf(n)
    <3>1. w[i] \in Nat /\ w[i] > 0 /\ {i} \in SUBSET (1..n) /\ i \in 0..n
      OBVIOUS
    <3>. QED BY <3>1 DEF Single, PartsOf
  <2>2. NoItems \in PartsOf(n)
    <3>1. 0 \in 0..n
      OBVIOUS
    <3>. QED BY <3>1 DEF NoItems, PartsOf
  <2>3. Single(i, w).items = {i} /\ Single(i, w).sum \in Nat /\ Single(i, w).sum = w[i]
    BY DEF Single
  <2>4. NoItems.items = {} /\ NoItems.sum = 0
    BY DEF NoItems
  <2>. QED BY <2>1, <2>2, <2>3, <2>4
<1>. HIDE DEF tuple
<1>3. ASSUME NEW i \in 1..n PROVE tuple(i) \in Tuples(n, k)
  <2>. DEFINE t == tuple(i)
  <2>1. /\ t \in [1..k -> PartsOf(n)] /\ t[1].items = {i} /\ t[1].sum \in Nat
        /\ \A j \in 1..k : j # 1 => t[j].items = {} /\ t[j].sum = 0
    BY <1>2
  <2>. HIDE DEF t
  <2>2. \A a, c \in 1..k : a # c => t[a].items \cap t[c].items = {}
    BY <2>1
  <2>3. \A a, c \in 1..k : a < c => t[c].sum <= t[a].sum
    <3>1. \A a, c \in 1..k : a < c => c # 1
      OBVIOUS
    <3>. QED BY <2>1, <3>1
  <2>4. \A a \in 1..k : \A x, y \in t[a].items : x = y
    BY <2>1
  <2>. QED BY <2>1, <2>2, <2>3, <2>4 DEF Tuples, t
<1>4. \A i \in 1..n : \A x : HasRow(tuple(i), k, x) <=> x = i
  BY <1>2, SMTT(30) DEF HasRow
<1>5. \A s, t \in h : s # t => Apart(s, t, k)
  <2>. SUFFICES ASSUME NEW a \in 1..n, NEW c \in 1..n, tuple(a) # tuple(c)
                PROVE  Apart(tuple(a), tuple(c), k)
    OBVIOUS
  <2>1. \A x : ~(HasRow(tuple(a), k, x) /\ HasRow(tuple(c), k, x))
    BY <1>4
  <2>. QED BY <2>1 DEF HasRow, Apart
<1>6. IsFiniteSet(h)
  <2>. DEFINE f == [i \in 1..n |-> tuple(i)]
  <2>1. f \in Surjection(1..n, h)
    BY DEF Surjection
  <2>2. IsFiniteSet(1..n)
    BY FS_Interval
  <2>. HIDE DEF f, h
  <2>. QED BY <2>1, <2>2, FS_Surjection
<1>7. h # {}
  <2>1. 1 \in 1..n
    OBVIOUS
  <2>. QED BY <2>1
<1>8. \A x \in 1..n : \E t \in h : HasRow(t, k, x)
  BY <1>4
<1>9. h \in SUBSET Tuples(n, k) /\ \A t \in h : Weighs(t, k, w, b)
  <2>1. ASSUME NEW i \in 1..n PROVE Weighs(tuple(i), k, w, b)
    <3>. DEFINE t == tuple(i)
    <3>1. /\ t[1].items = {i} /\ t[1].sum = w[i]
          /\ \A j \in 1..k : j # 1 => t[j].items = {} /\ t[j].sum = 0
      BY <1>2
    <3>. HIDE DEF t
    <3>2. SumOver(w, {i}) = w[i] /\ SumOver(w, {}) = 0
      BY SumOfOne, SumOfNone
    <3>3. \A j \in 1..k : t[j].sum = SumOver(w, t[j].items)
      BY <3>1, <3>2
    <3>4. \A j \in 1..k : t[j].sum \in Nat /\ t[j].sum <= b
      BY <3>1
    <3>5. \A j, l \in 1..k : t[j].sum - t[l].sum <= b
      <4>. SUFFICES ASSUME NEW j \in 1..k, NEW l \in 1..k PROVE t[j].sum - t[l].sum <= b
        OBVIOUS
      <4>1. t[j].sum \in Nat /\ t[j].sum <= b /\ t[l].sum \in Nat
        BY <3>4
      <4>. QED BY ONLY b \in Nat, <4>1
    <3>. QED BY <3>3, <3>5 DEF Weighs, t
  <2>. QED BY <1>3, <2>1
<1>. HIDE DEF h
<1>10. Cardinality(h) \in Nat \ {0}
  BY <1>6, <1>7, FS_CardinalityType, FS_EmptySet
<1>11. h \in Heaps(n, k, w, b, FALSE, Cardinality(h))
  BY <1>5, <1>6, <1>8, <1>9 DEF Heaps
<1>. QED BY <1>1, <1>10, <1>11

\* One tuple per k rows: each part gets one.
LEMMA EqualTuplesFacts ==
  ASSUME NEW m \in Nat \ {0}, NEW k \in Nat \ {0}, NEW n, n = m * k,
         NEW w \in [1..n -> Nat \ {0}],
         NEW b \in Nat, \A i, j \in 1..n : w[i] - w[j] <= b
  PROVE  \E h \in Nat \ {0} : EqualTuples(w, k) \in Heaps(n, k, w, b, TRUE, h)
<1>. DEFINE sorted == ByWorkload(w, DOMAIN w)
            place(o, j) == o * k + j
            u(o) == [j \in 1..k |-> Single(sorted[place(o, j)], w)]
            tuple(o) == Decreasing(u(o))
            h == {tuple(o) : o \in 0..(m - 1)}
<1>1. /\ n \in Nat \ {0} /\ n \div k = m
      /\ \A o \in 0..(m - 1), j \in 1..k : place(o, j) \in 1..n
      /\ \A o, p \in 0..(m - 1), i, j \in 1..k : place(o, i) = place(p, j) => o = p /\ i = j
      /\ \A x \in 1..n : \E o \in 0..(m - 1), j \in 1..k : x = place(o, j)
  <2>1. n \in Nat \ {0} /\ n \div k = m
    BY Places
  <2>2. \A o \in 0..(m - 1), j \in 1..k : place(o, j) \in 1..n
    BY Places
  <2>3. \A o, p \in Int, i, j \in 1..k : place(o, i) = place(p, j) => o = p /\ i = j
    BY Places
  <2>4. \A x \in 1..n : \E o \in 0..(m - 1), j \in 1..k : x = place(o, j)
    BY Places
  <2>5. \A o \in 0..(m - 1) : o \in Int
    OBVIOUS
  <2>. HIDE DEF place
  <2>. QED BY <2>1, <2>2, <2>3, <2>4, <2>5
<1>. HIDE DEF place
<1>2. /\ sorted \in [1..n -> 1..n]
      /\ \A p, q \in 1..n : sorted[p] = sorted[q] => p = q
      /\ \A x \in 1..n : \E p \in 1..n : sorted[p] = x
  <2>1. DOMAIN w = 1..n /\ 1..n \in SUBSET Nat /\ \A x \in 1..n : w[x] \in Nat
    OBVIOUS
  <2>2. IsFiniteSet(1..n) /\ Cardinality(1..n) = n
    <3>1. n \in Nat
      BY <1>1
    <3>. QED BY ONLY <3>1, FS_Interval
  <2>3. Lists(sorted, 1..n)
    BY <2>1, <2>2, ByWorkloadFacts
  <2>. HIDE DEF sorted
  <2>4. DOMAIN sorted = 1..n /\ sorted \in [1..n -> 1..n]
    <3>1. sorted \in Seq(1..n) /\ Len(sorted) = n
      BY <2>2, <2>3 DEF Lists
    <3>. QED BY ONLY <3>1
  <2>. QED BY <2>3, <2>4 DEF Lists
<1>3. EqualTuples(w, k) = h
  <2>1. Len(w) = n
    BY <1>1
  <2>2. (Len(w) \div k) - 1 = m - 1
    BY <1>1, <2>1
  <2>. QED BY <2>2 DEF EqualTuples, place
<1>. HIDE DEF sorted
<1>4. ASSUME NEW o \in 0..(m - 1)
      PROVE  /\ u(o) \in [1..k -> PartsOf(n)]
             /\ \A j \in 1..k : u(o)[j].items = {sorted[place(o, j)]}
             /\ \A j \in 1..k : /\ u(o)[j].sum = w[sorted[place(o, j)]]
                               /\ sorted[place(o, j)] \in 1..n
  <2>1. ASSUME NEW j \in 1..k
        PROVE  /\ Single(sorted[place(o, j)], w) \in PartsOf(n)
               /\ Single(sorted[place(o, j)], w).items = {sorted[place(o, j)]}
               /\ Single(sorted[place(o, j)], w).sum = w[sorted[place(o, j)]]
               /\ sorted[place(o, j)] \in 1..n
    <3>. DEFINE i == sorted[place(o, j)]
    <3>1. i \in 1..n
      BY <1>1, <1>2
    <3>. HIDE DEF i
    <3>2. w[i] \in Nat /\ w[i] > 0 /\ {i} \in SUBSET (1..n) /\ i \in 0..n
      BY <1>1, <3>1
    <3>3. Single(i, w) \in PartsOf(n) /\ Single(i, w).items = {i} /\ Single(i, w).sum = w[i]
      BY <3>2 DEF Single, PartsOf
    <3>. QED BY <3>1, <3>3 DEF i
  <2>. QED BY <2>1
<1>. HIDE DEF u
<1>5. ASSUME NEW o \in 0..(m - 1)
      PROVE  /\ tuple(o) \in Tuples(n, k) /\ EqualParts(tuple(o), k)
             /\ \A x : HasRow(tuple(o), k, x) <=> \E j \in 1..k : x = sorted[place(o, j)]
             /\ Weighs(tuple(o), k, w, b)
  <2>. DEFINE v == u(o)
  <2>1. /\ v \in [1..k -> PartsOf(n)] /\ \A j \in 1..k : v[j].items = {sorted[place(o, j)]}
        /\ \A j \in 1..k : v[j].sum = w[sorted[place(o, j)]] /\ sorted[place(o, j)] \in 1..n
    BY <1>4
  <2>. HIDE DEF v
  <2>2. \A i, j \in 1..k : i # j => v[i].items \cap v[j].items = {}
    <3>1. \A i, j \in 1..k : i # j => sorted[place(o, i)] # sorted[place(o, j)]
      <4>. SUFFICES ASSUME NEW i \in 1..k, NEW j \in 1..k, i # j
                    PROVE  sorted[place(o, i)] # sorted[place(o, j)]
        OBVIOUS
      <4>1. /\ place(o, i) \in 1..n /\ place(o, j) \in 1..n
            /\ place(o, i) # place(o, j)
        BY <1>1
      <4>. QED BY <1>2, <4>1
    <3>2. \A j \in 1..k : v[j].items = {sorted[place(o, j)]}
      BY <2>1
    <3>. QED BY ONLY <3>1, <3>2
  <2>3. \E i \in 1..k : v[i].items # {}
    <3>1. 1 \in 1..k
      OBVIOUS
    <3>2. v[1].items = {sorted[place(o, 1)]}
      BY ONLY <2>1, <3>1
    <3>. QED BY ONLY <3>1, <3>2
  <2>4. \A i \in 1..k : v[i].items = {} => \A j \in 1..k : \A x, y \in v[j].items : x = y
    BY <2>1
  <2>5. EqualParts(v, k)
    <3>1. ASSUME NEW j \in 1..k PROVE Cardinality(v[j].items) = 1
      <4>1. v[j].items = {sorted[place(o, j)]}
        BY ONLY <2>1, j \in 1..k
      <4>. QED BY ONLY <4>1, FS_Singleton
    <3>. QED BY <3>1 DEF EqualParts
  <2>6. \A x : HasRow(v, k, x) <=> \E j \in 1..k : x = sorted[place(o, j)]
    BY <2>1 DEF HasRow
  <2>7. /\ Decreasing(v) \in Tuples(n, k)
        /\ \A x : HasRow(Decreasing(v), k, x) <=> HasRow(v, k, x)
        /\ EqualParts(v, k) => EqualParts(Decreasing(v), k)
        /\ Weighs(v, k, w, b) => Weighs(Decreasing(v), k, w, b)
    BY <1>1, <2>1, <2>2, <2>3, <2>4, SortedTuple
  <2>8. Weighs(v, k, w, b)
    <3>1. ASSUME NEW j \in 1..k PROVE v[j].sum = SumOver(w, v[j].items)
      <4>. DEFINE x == sorted[place(o, j)]
      <4>1. v[j].items = {x} /\ v[j].sum = w[x] /\ x \in 1..n
        BY <2>1
      <4>. HIDE DEF x
      <4>2. SumOver(w, {x}) = w[x]
        BY <4>1, SumOfOne
      <4>. QED BY <4>1, <4>2
    <3>2. ASSUME NEW i \in 1..k, NEW j \in 1..k PROVE v[i].sum - v[j].sum <= b
      <4>. DEFINE x == sorted[place(o, i)]
                  y == sorted[place(o, j)]
      <4>1. v[i].sum = w[x] /\ v[j].sum = w[y] /\ x \in 1..n /\ y \in 1..n
        BY <2>1
      <4>. HIDE DEF x, y
      <4>. QED BY <4>1
    <3>. QED BY <3>1, <3>2 DEF Weighs
  <2>. QED BY <2>5, <2>6, <2>7, <2>8 DEF v
<1>. HIDE DEF tuple
<1>6. \A s, t \in h : s # t => Apart(s, t, k)
  <2>. SUFFICES ASSUME NEW a \in 0..(m - 1), NEW c \in 0..(m - 1), tuple(a) # tuple(c)
                PROVE  Apart(tuple(a), tuple(c), k)
    OBVIOUS
  <2>1. \A i, j \in 1..k : sorted[place(a, i)] # sorted[place(c, j)]
    <3>. SUFFICES ASSUME NEW i \in 1..k, NEW j \in 1..k
                  PROVE  sorted[place(a, i)] # sorted[place(c, j)]
      OBVIOUS
    <3>1. /\ place(a, i) \in 1..n /\ place(c, j) \in 1..n
          /\ place(a, i) # place(c, j)
      <4>1. a # c
        OBVIOUS
      <4>2. place(a, i) \in 1..n /\ place(c, j) \in 1..n
        BY <1>1
      <4>3. place(a, i) = place(c, j) => a = c
        BY <1>1
      <4>. QED BY <4>1, <4>2, <4>3
    <3>. QED BY <1>2, <3>1
  <2>2. \A x : ~(HasRow(tuple(a), k, x) /\ HasRow(tuple(c), k, x))
    <3>1. \A x : HasRow(tuple(a), k, x) <=> \E j \in 1..k : x = sorted[place(a, j)]
      BY <1>5
    <3>2. \A x : HasRow(tuple(c), k, x) <=> \E j \in 1..k : x = sorted[place(c, j)]
      BY <1>5
    <3>. QED BY ONLY <2>1, <3>1, <3>2
  <2>. QED BY <2>2 DEF HasRow, Apart
<1>7. IsFiniteSet(h)
  <2>. DEFINE f == [o \in 0..(m - 1) |-> tuple(o)]
  <2>1. f \in Surjection(0..(m - 1), h)
    BY DEF Surjection
  <2>2. IsFiniteSet(0..(m - 1))
    BY FS_Interval
  <2>. HIDE DEF f, h
  <2>. QED BY <2>1, <2>2, FS_Surjection
<1>8. h # {}
  <2>1. 0 \in 0..(m - 1)
    OBVIOUS
  <2>. QED BY <2>1
<1>9. \A x \in 1..n : \E t \in h : HasRow(t, k, x)
  <2>. SUFFICES ASSUME NEW x \in 1..n PROVE \E t \in h : HasRow(t, k, x)
    OBVIOUS
  <2>1. PICK p \in 1..n : sorted[p] = x
    BY <1>2
  <2>2. PICK o \in 0..(m - 1) : \E j \in 1..k : p = place(o, j)
    BY <1>1
  <2>3. HasRow(tuple(o), k, x)
    BY <1>5, <2>1, <2>2
  <2>. QED BY <2>3
<1>10. /\ h \in SUBSET Tuples(n, k) /\ \A t \in h : EqualParts(t, k)
       /\ \A t \in h : Weighs(t, k, w, b)
  BY <1>5
<1>. HIDE DEF h
<1>11. Cardinality(h) \in Nat \ {0}
  BY <1>7, <1>8, FS_CardinalityType, FS_EmptySet
<1>12. h \in Heaps(n, k, w, b, TRUE, Cardinality(h))
  BY <1>6, <1>7, <1>9, <1>10 DEF Heaps
<1>. QED BY <1>3, <1>11, <1>12

-------------------------------------------------------------------------------
(* The largest differencing method: the partitions. *)

\* The parts have each of the rows 1 to n once.
Partition(parts, n, k) ==
  /\ parts \in [1..k -> SUBSET (1..n)]
  /\ \A i, j \in 1..k : i # j => parts[i] \cap parts[j] = {}
  /\ \A x \in 1..n : \E i \in 1..k : x \in parts[i]

\* No part has more than b above another.
Balanced(parts, k, w, b) ==
  \A i, j \in 1..k : SumOver(w, parts[i]) - SumOver(w, parts[j]) <= b

ItemsOf(t, k) == [j \in 1..k |-> t[j].items]

\* The rows of the parts of a tuple that has them all.
LEMMA TuplePartition ==
  ASSUME NEW n \in Nat, NEW k \in Nat \ {0}, NEW t \in Tuples(n, k),
         \A x \in 1..n : HasRow(t, k, x), NEW w, NEW b, Weighs(t, k, w, b)
  PROVE  /\ Partition(ItemsOf(t, k), n, k)
         /\ Balanced(ItemsOf(t, k), k, w, b)
<1>1. \A i \in 1..k : t[i].items \in SUBSET (1..n)
  <2>1. \A i \in 1..k : t[i] \in PartsOf(n)
    BY DEF Tuples
  <2>. QED BY <2>1, PartFacts
<1>2. Partition(ItemsOf(t, k), n, k)
  BY <1>1 DEF Partition, Tuples, HasRow, ItemsOf
<1>3. Balanced(ItemsOf(t, k), k, w, b)
  BY DEF Balanced, Weighs, ItemsOf
<1>. QED BY <1>2, <1>3

\* The assertions of get_seqlen_balanced_partitions hold for every number of rows and
\* all workloads: every row is in one part, and when no more parts than rows are asked
\* for, no part is empty.  No part has more work above another than the largest row.
THEOREM PartitionFacts ==
  ASSUME NEW n \in Nat \ {0}, NEW k \in 1..n, NEW w \in [1..n -> Nat \ {0}],
         NEW b \in Nat, \A i \in 1..n : w[i] <= b
  PROVE  /\ Partition(Partitions(w, k, FALSE), n, k)
         /\ Balanced(Partitions(w, k, FALSE), k, w, b)
         /\ \A i \in 1..k : Partitions(w, k, FALSE)[i] # {}
<1>. DEFINE t == KarmarkarKarp(SingleTuples(w, k))
<1>1. k \in Nat \ {0} /\ n \in Nat /\ w \in [1..n -> Nat]
  OBVIOUS
<1>2. t \in Tuples(n, k) /\ Weighs(t, k, w, b) /\ \A x \in 1..n : HasRow(t, k, x)
  <2>1. PICK m \in Nat \ {0} : SingleTuples(w, k) \in Heaps(n, k, w, b, FALSE, m)
    BY <1>1, SingleTuplesFacts
  <2>2. FALSE \in BOOLEAN
    OBVIOUS
  <2>. QED BY <1>1, <2>1, <2>2, KarmarkarKarpFacts
<1>3. Partitions(w, k, FALSE) = [j \in 1..k |-> t[j].items]
  BY DEF Partitions
<1>. HIDE DEF t
<1>4. ASSUME NEW e \in 1..k, t[e].items = {} PROVE FALSE
  <2>. DEFINE T == (1..k) \ {e}
              f == [x \in 1..n |-> CHOOSE i \in 1..k : x \in t[i].items]
  <2>1. ASSUME NEW x \in 1..n PROVE f[x] \in T /\ x \in t[f[x]].items
    <3>1. \E i \in 1..k : x \in t[i].items
      BY <1>2 DEF HasRow
    <3>2. f[x] \in 1..k /\ x \in t[f[x]].items
      BY <3>1
    <3>. HIDE DEF f
    <3>. QED BY <1>4, <3>2
  <2>2. f \in [1..n -> T]
    BY <2>1
  <2>. HIDE DEF f
  <2>3. \A i \in 1..k : \A x, y \in t[i].items : x = y
    BY <1>2, <1>4 DEF Tuples
  <2>4. \A x, y \in 1..n : f[x] = f[y] => x = y
    BY <2>1, <2>3
  <2>5. f \in Injection(1..n, T)
    BY <2>2, <2>4 DEF Injection, IsInjective
  <2>6. IsFiniteSet(1..k) /\ Cardinality(1..k) = k /\ Cardinality(1..n) = n
    <3>1. n \in Nat /\ k \in Nat
      BY <1>1
    <3>. QED BY ONLY <3>1, Interval
  <2>7. IsFiniteSet(T) /\ Cardinality(T) = k - 1
    BY <2>6, FS_RemoveElement, ZenonT(30)
  <2>. HIDE DEF T
  <2>8. n <= k - 1
    BY <2>5, <2>6, <2>7, FS_Injection
  <2>. QED BY <1>1, <2>8
<1>5. /\ Partition(Partitions(w, k, FALSE), n, k)
      /\ Balanced(Partitions(w, k, FALSE), k, w, b)
  <2>1. t \in Tuples(n, k) /\ Weighs(t, k, w, b) /\ \A x \in 1..n : HasRow(t, k, x)
    BY <1>2
  <2>2. Partition(ItemsOf(t, k), n, k) /\ Balanced(ItemsOf(t, k), k, w, b)
    BY <1>1, <2>1, TuplePartition
  <2>. QED BY <1>3, <2>2 DEF ItemsOf
<1>. QED BY <1>3, <1>4, <1>5

\* The rows of the parts of one size are as many as the rows of a part times the parts.
LEMMA EqualPartitionSize ==
  ASSUME NEW n \in Nat, NEW k \in Nat \ {0}, NEW c \in Nat, NEW parts,
         Partition(parts, n, k), \A i \in 1..k : Cardinality(parts[i]) = c
  PROVE  n = k * c
<1>. DEFINE U(i) == UNION {parts[j] : j \in 1..i}
            T == {i \in 0..k : IsFiniteSet(U(i)) /\ Cardinality(U(i)) = i * c}
<1>1. \A i \in 1..k : IsFiniteSet(parts[i])
  <2>1. IsFiniteSet(1..n)
    BY Interval
  <2>2. \A i \in 1..k : parts[i] \in SUBSET (1..n)
    BY DEF Partition
  <2>. QED BY <2>1, <2>2, FS_Subset
<1>2. 0 \in T
  <2>1. U(0) = {} /\ 0 * c = 0 /\ 0 \in 0..k
    OBVIOUS
  <2>. HIDE DEF U
  <2>. QED BY <2>1, FS_EmptySet
<1>3. ASSUME NEW i \in 0..(k - 1), i \in T PROVE i + 1 \in T
  <2>1. i + 1 \in 1..k /\ i + 1 \in 0..k /\ 1..(i + 1) = (1..i) \cup {i + 1}
    OBVIOUS
  <2>2. U(i + 1) = U(i) \cup parts[i + 1]
    BY <2>1
  <2>3. U(i) \cap parts[i + 1] = {}
    <3>1. \A j \in 1..i : j \in 1..k /\ j # i + 1
      OBVIOUS
    <3>2. \A j \in 1..i : parts[j] \cap parts[i + 1] = {}
      BY <2>1, <3>1 DEF Partition
    <3>. QED BY <3>2
  <2>4. IsFiniteSet(U(i)) /\ Cardinality(U(i)) = i * c
    BY <1>3
  <2>. HIDE DEF U
  <2>. DEFINE a == U(i)
              b == parts[i + 1]
              d == i * c
  <2>5. IsFiniteSet(b) /\ Cardinality(b) = c
    BY <1>1, <2>1
  <2>6. d \in Int /\ d + c = (i + 1) * c
    OBVIOUS
  <2>7. a \cap b = {} /\ IsFiniteSet(a) /\ Cardinality(a) = d
    BY ONLY <2>3, <2>4 DEF a, b, d
  <2>. HIDE DEF a, b, d
  <2>8. IsFiniteSet(a \cup b) /\ Cardinality(a \cup b) = d + c
    <3>1. /\ IsFiniteSet(a \cup b)
          /\ Cardinality(a \cup b) = Cardinality(a) + Cardinality(b) - Cardinality(a \cap b)
      BY ONLY <2>5, <2>7, FS_Union
    <3>2. Cardinality(a \cap b) = 0
      BY ONLY <2>7, FS_EmptySet
    <3>. QED BY ONLY <2>5, <2>6, <2>7, <3>1, <3>2
  <2>9. IsFiniteSet(U(i + 1)) /\ Cardinality(U(i + 1)) = (i + 1) * c
    BY <2>2, <2>6, <2>8 DEF a, b
  <2>. QED BY <2>1, <2>9
<1>4. k \in T
  <2>1. k \in 0..k
    OBVIOUS
  <2>. HIDE DEF T
  <2>. QED BY <1>2, <1>3, <2>1, InductionTo
<1>5. U(k) = 1..n
  BY DEF Partition
<1>6. Cardinality(1..n) = n
  BY FS_Interval
<1>. QED BY <1>4, <1>5, <1>6

\* Parts of m rows.
EvenPartition(parts, n, k, m) ==
  Partition(parts, n, k) /\ \A i \in 1..k : Cardinality(parts[i]) = m

\* The assertion of karmarkar_karp: when equal sizes are asked for and the rows can be
\* divided, the parts have them.  No part has more work above another than some row
\* has above some other.
THEOREM EqualPartitionFacts ==
  ASSUME NEW m \in Nat \ {0}, NEW k \in Nat \ {0}, NEW n, n = m * k,
         NEW w \in [1..n -> Nat \ {0}],
         NEW b \in Nat, \A i, j \in 1..n : w[i] - w[j] <= b
  PROVE  /\ EvenPartition(Partitions(w, k, TRUE), n, k, m)
         /\ Balanced(Partitions(w, k, TRUE), k, w, b)
<1>. DEFINE t == KarmarkarKarp(EqualTuples(w, k))
            parts == Partitions(w, k, TRUE)
<1>1. n \in Nat /\ w \in [1..n -> Nat]
  OBVIOUS
<1>2. /\ t \in Tuples(n, k) /\ EqualParts(t, k) /\ \A x \in 1..n : HasRow(t, k, x)
      /\ Weighs(t, k, w, b)
  <2>1. PICK h \in Nat \ {0} : EqualTuples(w, k) \in Heaps(n, k, w, b, TRUE, h)
    BY EqualTuplesFacts
  <2>2. TRUE \in BOOLEAN
    OBVIOUS
  <2>. QED BY <1>1, <2>1, <2>2, KarmarkarKarpFacts
<1>3. parts = [j \in 1..k |-> t[j].items]
  BY DEF Partitions
<1>. HIDE DEF t, parts
<1>4. Partition(parts, n, k) /\ Balanced(parts, k, w, b)
  <2>1. Partition(ItemsOf(t, k), n, k) /\ Balanced(ItemsOf(t, k), k, w, b)
    BY <1>1, <1>2, TuplePartition
  <2>. QED BY <1>3, <2>1 DEF ItemsOf
<1>. DEFINE c == Cardinality(parts[1])
<1>5. c \in Nat /\ \A i \in 1..k : Cardinality(parts[i]) = c
  <2>1. 1 \in 1..k
    OBVIOUS
  <2>2. t[1] \in PartsOf(n)
    BY <1>2, <2>1 DEF Tuples
  <2>3. Cardinality(t[1].items) \in Nat
    BY <1>1, <2>2, PartFacts
  <2>. QED BY <1>2, <1>3, <2>1, <2>3 DEF EqualParts
<1>. HIDE DEF c
<1>6. n = k * c
  BY <1>1, <1>4, <1>5, EqualPartitionSize
<1>7. c = m
  <2>1. m * k = c * k
    <3>1. c \in Nat /\ k \in Nat /\ n = m * k /\ n = k * c
      BY <1>5, <1>6
    <3>2. k * c = c * k
      BY <3>1
    <3>. QED BY ONLY <3>1, <3>2
  <2>2. (c * k) \div k = c
    BY <1>5
  <2>3. (m * k) \div k = m
    OBVIOUS
  <2>. QED BY <2>1, <2>2, <2>3
<1>. QED BY <1>4, <1>5, <1>7 DEF EvenPartition, parts

-------------------------------------------------------------------------------
(* Placing the parts: small ones at both ends, or in the middle. *)

LEMMA SequenceOver ==
  ASSUME NEW T, NEW S \in SUBSET T, NEW s \in Seq(S)
  PROVE  s \in Seq(T)
<1>1. s \in [1..Len(s) -> S] /\ Len(s) \in Nat
  OBVIOUS
<1>2. s \in [1..Len(s) -> T]
  BY <1>1
<1>. QED BY <1>1, <1>2

LEMMA Concatenation ==
  ASSUME NEW V, NEW x \in Seq(V), NEW y \in Seq(V), NEW a \in Nat, NEW b \in Nat,
         Len(x) = a, Len(y) = b
  PROVE  x \o y = [p \in 1..(a + b) |-> IF p <= a THEN x[p] ELSE y[p - a]]
<1>. DEFINE z == [p \in 1..(a + b) |-> IF p <= a THEN x[p] ELSE y[p - a]]
<1>1. x \o y \in Seq(V) /\ Len(x \o y) = a + b /\ DOMAIN (x \o y) = 1..(a + b)
  OBVIOUS
<1>2. \A p \in 1..(a + b) : (x \o y)[p] = IF p <= a THEN x[p] ELSE y[p - a]
  OBVIOUS
<1>3. x \o y = [p \in 1..(a + b) |-> (x \o y)[p]]
  <2>. DEFINE u == x \o y
  <2>1. u \in Seq(V) /\ Len(u) = a + b
    BY <1>1
  <2>. HIDE DEF u
  <2>2. u = [p \in 1..(a + b) |-> u[p]]
    BY <2>1
  <2>. QED BY <2>2 DEF u
<1>. QED BY <1>2, <1>3

LEMMA OddsAndEvens ==
  ASSUME NEW k \in Nat \ {0}, NEW V, NEW s \in [1..k -> V]
  PROVE  /\ \E g : Permutes(g, k) /\ Reverse(Odds(s)) \o Evens(s) = Arranged(s, g, k)
         /\ \E g : Permutes(g, k) /\ Odds(s) \o Reverse(Evens(s)) = Arranged(s, g, k)
<1>. DEFINE a == ((k - 1) \div 2) + 1
            b == ((k - 2) \div 2) + 1
            odds == [i \in 1..a |-> s[2 * i - 1]]
            evens == [i \in 1..b |-> s[2 * i]]
            g == [p \in 1..k |-> IF p <= a THEN 2 * (a - p) + 1 ELSE 2 * (p - a)]
            f == [p \in 1..k |-> IF p <= a THEN 2 * p - 1 ELSE 2 * (k - p + 1)]
<1>1. a \in Nat /\ b \in Nat /\ a + b = k /\ (a = b \/ a = b + 1)
  OBVIOUS
<1>2. Len(s) = k
  OBVIOUS
<1>3. Odds(s) = odds
  <2>1. \A i \in 1..a : 1 + 2 * (i - 1) = 2 * i - 1
    BY <1>1
  <2>. QED BY <1>2, <2>1 DEF Odds, EverySecond
<1>4. Evens(s) = evens
  <2>1. \A i \in 1..b : 2 + 2 * (i - 1) = 2 * i
    BY <1>1
  <2>. QED BY <1>2, <2>1 DEF Evens, EverySecond
<1>. HIDE DEF a, b
<1>5. odds \in [1..a -> V] /\ \A i \in 1..a : odds[i] = s[2 * i - 1]
  <2>1. \A i \in 1..a : 2 * i - 1 \in 1..k
    BY <1>1
  <2>. QED BY <2>1
<1>6. evens \in [1..b -> V] /\ \A i \in 1..b : evens[i] = s[2 * i]
  <2>1. \A i \in 1..b : 2 * i \in 1..k
    BY <1>1
  <2>. QED BY <2>1
<1>7. Permutes(g, k)
  <2>1. \A p \in 1..k : g[p] \in 1..k
    BY <1>1
  <2>2. \A p, q \in 1..k : g[p] = g[q] => p = q
    BY <1>1
  <2>3. ASSUME NEW x \in 1..k PROVE \E p \in 1..k : g[p] = x
    <3>1. PICK h \in Int : x = 2 * h \/ x = 2 * h - 1
      <4>1. x = 2 * ((x + 1) \div 2) \/ x = 2 * ((x + 1) \div 2) - 1
        OBVIOUS
      <4>. QED BY <4>1
    <3>2. CASE x = 2 * h
      <4>1. a + h \in 1..k /\ g[a + h] = x
        BY <1>1, <3>2
      <4>. QED BY <4>1
    <3>3. CASE x = 2 * h - 1
      <4>1. a + 1 - h \in 1..k /\ g[a + 1 - h] = x
        BY <1>1, <3>3
      <4>. QED BY <4>1
    <3>. QED BY <3>1, <3>2, <3>3
  <2>4. g \in [1..k -> 1..k]
    BY <2>1
  <2>. HIDE DEF g
  <2>. QED BY <2>2, <2>3, <2>4 DEF Permutes
<1>8. Permutes(f, k)
  <2>1. \A p \in 1..k : f[p] \in 1..k
    BY <1>1
  <2>2. \A p, q \in 1..k : f[p] = f[q] => p = q
    BY <1>1
  <2>3. ASSUME NEW x \in 1..k PROVE \E p \in 1..k : f[p] = x
    <3>1. PICK h \in Int : x = 2 * h \/ x = 2 * h - 1
      <4>1. x = 2 * ((x + 1) \div 2) \/ x = 2 * ((x + 1) \div 2) - 1
        OBVIOUS
      <4>. QED BY <4>1
    <3>2. CASE x = 2 * h
      <4>1. k + 1 - h \in 1..k /\ f[k + 1 - h] = x
        BY <1>1, <3>2
      <4>. QED BY <4>1
    <3>3. CASE x = 2 * h - 1
      <4>1. h \in 1..k /\ f[h] = x
        BY <1>1, <3>3
      <4>. QED BY <4>1
    <3>. QED BY <3>1, <3>2, <3>3
  <2>4. f \in [1..k -> 1..k]
    BY <2>1
  <2>. HIDE DEF f
  <2>. QED BY <2>2, <2>3, <2>4 DEF Permutes
<1>. HIDE DEF odds, evens
<1>9. Len(odds) = a /\ Len(evens) = b
  BY <1>1, <1>5, <1>6
<1>10. Reverse(odds) \o evens = Arranged(s, g, k)
  <2>. DEFINE r == [i \in 1..a |-> odds[a - i + 1]]
  <2>1. Reverse(odds) = r
    BY <1>9 DEF Reverse
  <2>2. r \in [1..a -> V] /\ \A i \in 1..a : r[i] = s[2 * (a - i) + 1]
    <3>1. \A i \in 1..a : a - i + 1 \in 1..a /\ 2 * (a - i + 1) - 1 = 2 * (a - i) + 1
      BY <1>1
    <3>. QED BY <1>5, <3>1
  <2>. HIDE DEF r
  <2>3. r \o evens = [p \in 1..k |-> IF p <= a THEN r[p] ELSE evens[p - a]]
    <3>1. r \in Seq(V) /\ evens \in Seq(V) /\ Len(r) = a
      BY <1>1, <1>6, <2>2
    <3>2. a \in Nat /\ b \in Nat
      BY <1>1
    <3>3. r \o evens = [p \in 1..(a + b) |-> IF p <= a THEN r[p] ELSE evens[p - a]]
      BY ONLY <1>9, <3>1, <3>2, Concatenation
    <3>. QED BY <1>1, <3>3
  <2>4. ASSUME NEW p \in 1..k
        PROVE  (IF p <= a THEN r[p] ELSE evens[p - a]) = s[g[p]]
    <3>1. CASE p <= a
      BY <1>1, <2>2, <3>1
    <3>2. CASE ~(p <= a)
      <4>1. p - a \in 1..b
        BY <1>1, <3>2
      <4>. QED BY <1>6, <3>2, <4>1
    <3>. QED BY <3>1, <3>2
  <2>. HIDE DEF g
  <2>. QED BY <2>1, <2>3, <2>4 DEF Arranged
<1>11. odds \o Reverse(evens) = Arranged(s, f, k)
  <2>. DEFINE r == [i \in 1..b |-> evens[b - i + 1]]
  <2>1. Reverse(evens) = r
    BY <1>9 DEF Reverse
  <2>2. r \in [1..b -> V] /\ \A i \in 1..b : r[i] = s[2 * (b - i + 1)]
    <3>1. \A i \in 1..b : b - i + 1 \in 1..b
      BY <1>1
    <3>. QED BY <1>6, <3>1
  <2>. HIDE DEF r
  <2>3. odds \o r = [p \in 1..k |-> IF p <= a THEN odds[p] ELSE r[p - a]]
    <3>1. odds \in Seq(V) /\ r \in Seq(V) /\ Len(r) = b
      BY <1>1, <1>5, <2>2
    <3>2. a \in Nat /\ b \in Nat
      BY <1>1
    <3>3. odds \o r = [p \in 1..(a + b) |-> IF p <= a THEN odds[p] ELSE r[p - a]]
      BY ONLY <1>9, <3>1, <3>2, Concatenation
    <3>. QED BY <1>1, <3>3
  <2>4. ASSUME NEW p \in 1..k
        PROVE  (IF p <= a THEN odds[p] ELSE r[p - a]) = s[f[p]]
    <3>1. CASE p <= a
      BY <1>1, <1>5, <3>1
    <3>2. CASE ~(p <= a)
      <4>1. p - a \in 1..b /\ b - (p - a) + 1 = k - p + 1
        BY <1>1, <3>2
      <4>2. r[p - a] = s[2 * (k - p + 1)]
        BY <2>2, <4>1
      <4>. QED BY <3>2, <4>2
    <3>. QED BY <3>1, <3>2
  <2>. HIDE DEF f
  <2>. QED BY <2>1, <2>3, <2>4 DEF Arranged
<1>. HIDE DEF f, g
<1>. QED BY <1>3, <1>4, <1>7, <1>8, <1>10, <1>11

\* Placed otherwise, parts are still a partition.
LEMMA ArrangedPartition ==
  ASSUME NEW n \in Nat, NEW k \in Nat, NEW parts, Partition(parts, n, k),
         \A i \in 1..k : parts[i] # {},
         NEW g, Permutes(g, k)
  PROVE  /\ Partition(Arranged(parts, g, k), n, k)
         /\ \A i \in 1..k : Arranged(parts, g, k)[i] # {}
<1>. DEFINE a == Arranged(parts, g, k)
<1>1. /\ g \in [1..k -> 1..k]
      /\ \A p, q \in 1..k : g[p] = g[q] => p = q
      /\ \A x \in 1..k : \E p \in 1..k : g[p] = x
  BY DEF Permutes
<1>2. a = [p \in 1..k |-> parts[g[p]]]
  BY DEF Arranged
<1>. HIDE DEF a
<1>3. a \in [1..k -> SUBSET (1..n)]
  BY <1>1, <1>2 DEF Partition
<1>4. \A i, j \in 1..k : i # j => a[i] \cap a[j] = {}
  <2>. SUFFICES ASSUME NEW i \in 1..k, NEW j \in 1..k, i # j PROVE a[i] \cap a[j] = {}
    OBVIOUS
  <2>1. g[i] \in 1..k /\ g[j] \in 1..k /\ g[i] # g[j]
    BY <1>1
  <2>2. parts[g[i]] \cap parts[g[j]] = {}
    BY <2>1 DEF Partition
  <2>. QED BY <1>2, <2>2
<1>5. ASSUME NEW x \in 1..n PROVE \E i \in 1..k : x \in a[i]
  <2>1. PICK j \in 1..k : x \in parts[j]
    BY DEF Partition
  <2>2. PICK i \in 1..k : g[i] = j
    BY <1>1
  <2>. QED BY <1>2, <2>1, <2>2
<1>6. \A i \in 1..k : a[i] # {}
  BY <1>1, <1>2
<1>. QED BY <1>3, <1>4, <1>5, <1>6 DEF Partition, a

LEMMA ArrangedBalanced ==
  ASSUME NEW k, NEW w, NEW b, NEW parts, Balanced(parts, k, w, b), NEW g, Permutes(g, k)
  PROVE  Balanced(Arranged(parts, g, k), k, w, b)
BY DEF Balanced, Arranged, Permutes

LEMMA WorkloadsFacts ==
  ASSUME NEW n, NEW ls \in [1..n -> Nat \ {0}]
  PROVE  Workloads(ls) \in [1..n -> Nat \ {0}]
<1>1. ASSUME NEW l \in Nat \ {0} PROVE Workload(l) \in Nat \ {0}
  <2>1. l * l \in Nat /\ 24576 * l \in Nat /\ 24576 * l > 0
    OBVIOUS
  <2>. QED BY <2>1 DEF Workload
<1>2. Workloads(ls) = [i \in 1..n |-> Workload(ls[i])]
  BY DEF Workloads
<1>3. \A i \in 1..n : Workload(ls[i]) \in Nat \ {0}
  <2>1. \A i \in 1..n : ls[i] \in Nat \ {0}
    OBVIOUS
  <2>. QED BY ONLY <1>1, <2>1
<1>. QED BY <1>2, <1>3

\* Micro-batches have the positions 1 to n, each once.
Shared(batches, n, k) ==
  /\ batches \in [1..k -> Seq(1..n)]
  /\ \E parts : Partition(parts, n, k) /\ \A i \in 1..k : Lists(batches[i], parts[i])

\* No micro-batch has more work than b above another.
Alike(batches, k, w, b) ==
  \A i, j \in 1..k : SumOver(w, Range(batches[i])) - SumOver(w, Range(batches[j])) <= b

LEMMA MicroBatchesFacts ==
  ASSUME NEW n \in Nat \ {0}, NEW k \in 1..n, NEW ls \in [1..n -> Nat \ {0}],
         NEW b \in Nat, \A i \in 1..n : Workloads(ls)[i] <= b
  PROVE  /\ Shared(MicroBatches(ls, k), n, k)
         /\ Alike(MicroBatches(ls, k), k, Workloads(ls), b)
<1>. DEFINE w == Workloads(ls)
            parts == Partitions(w, k, FALSE)
            work(i) == SumOver(w, parts[i])
            low(i) == IF parts[i] = {} THEN 0 ELSE Min(parts[i])
            B == {x \in (1..k) \X (1..k) :
                    \/ work(x[1]) > work(x[2])
                    \/ work(x[1]) = work(x[2]) /\ low(x[1]) > low(x[2])}
            sorted == StableSort(parts, B)
            zigzag == Reverse(Odds(sorted)) \o Evens(sorted)
            batches == [i \in DOMAIN zigzag |-> Ascending(zigzag[i])]
<1>1. MicroBatches(ls, k) = batches
  BY DEF MicroBatches
<1>2. k \in Nat \ {0} /\ k \in Nat /\ n \in Nat
  OBVIOUS
<1>3. w \in [1..n -> Nat \ {0}] /\ \A i \in 1..n : w[i] <= b
  BY WorkloadsFacts
<1>. HIDE DEF w
<1>4. /\ Partition(parts, n, k) /\ \A i \in 1..k : parts[i] # {}
      /\ Balanced(parts, k, w, b)
  BY <1>3, PartitionFacts
<1>. HIDE DEF parts
<1>5. \A i \in 1..k : parts[i] \in SUBSET (1..n) /\ parts[i] \in SUBSET Nat
  <2>1. (1..n) \in SUBSET Nat
    OBVIOUS
  <2>2. \A i \in 1..k : parts[i] \in SUBSET (1..n)
    BY <1>4 DEF Partition
  <2>. QED BY <2>1, <2>2
<1>6. ASSUME NEW i \in 1..k PROVE work(i) \in Nat /\ low(i) \in Nat
  <2>1. IsFiniteSet(parts[i])
    BY <1>2, <1>5, Interval, FS_Subset
  <2>2. \A x \in parts[i] : w[x] \in Nat
    BY <1>3, <1>5
  <2>3. work(i) \in Nat
    BY <2>1, <2>2, SumIsNatural
  <2>4. low(i) \in parts[i]
    BY <1>4, <1>5, LeastNatural DEF Min
  <2>. QED BY <1>5, <2>3, <2>4
<1>7. \A x, y \in 1..k : <<x, y>> \in B <=>
        work(x) > work(y) \/ (work(x) = work(y) /\ low(x) > low(y))
  OBVIOUS
<1>. HIDE DEF B, work, low
<1>8. \A x \in 1..k : <<x, x>> \notin B
  <2>1. \A x \in 1..k : ~(work(x) > work(x)) /\ ~(low(x) > low(x))
    BY <1>6
  <2>. QED BY <1>7, <2>1
<1>9. \A x, y, z \in 1..k : <<x, y>> \in B /\ <<y, z>> \in B => <<x, z>> \in B
  <2>. SUFFICES ASSUME NEW x \in 1..k, NEW y \in 1..k, NEW z \in 1..k,
                       <<x, y>> \in B, <<y, z>> \in B
                PROVE  <<x, z>> \in B
    OBVIOUS
  <2>1. /\ work(x) \in Nat /\ low(x) \in Nat /\ work(y) \in Nat /\ low(y) \in Nat
        /\ work(z) \in Nat /\ low(z) \in Nat
    BY <1>6
  <2>2. /\ work(x) > work(y) \/ (work(x) = work(y) /\ low(x) > low(y))
        /\ work(y) > work(z) \/ (work(y) = work(z) /\ low(y) > low(z))
    BY <1>7
  <2>3. work(x) > work(z) \/ (work(x) = work(z) /\ low(x) > low(z))
    BY ONLY <2>1, <2>2
  <2>. QED BY <1>7, <2>3
<1>10. \A x, y, z \in 1..k : <<x, z>> \in B => <<x, y>> \in B \/ <<y, z>> \in B
  <2>. SUFFICES ASSUME NEW x \in 1..k, NEW y \in 1..k, NEW z \in 1..k, <<x, z>> \in B
                PROVE  <<x, y>> \in B \/ <<y, z>> \in B
    OBVIOUS
  <2>1. /\ work(x) \in Nat /\ low(x) \in Nat /\ work(y) \in Nat /\ low(y) \in Nat
        /\ work(z) \in Nat /\ low(z) \in Nat
    BY <1>6
  <2>2. work(x) > work(z) \/ (work(x) = work(z) /\ low(x) > low(z))
    BY <1>7
  <2>3. \/ work(x) > work(y) \/ (work(x) = work(y) /\ low(x) > low(y))
        \/ work(y) > work(z) \/ (work(y) = work(z) /\ low(y) > low(z))
    BY ONLY <2>1, <2>2
  <2>. QED BY <1>7, <2>3
<1>11. parts \in [1..k -> SUBSET (1..n)]
  BY <1>4 DEF Partition
<1>12. PICK g : Permutes(g, k) /\ sorted = Arranged(parts, g, k)
  BY ONLY <1>2, <1>8, <1>9, <1>10, <1>11, StableSortFacts
<1>. HIDE DEF sorted
<1>13. /\ Partition(sorted, n, k) /\ \A i \in 1..k : sorted[i] # {}
       /\ Balanced(sorted, k, w, b)
  BY <1>2, <1>4, <1>12, ArrangedPartition, ArrangedBalanced
<1>14. PICK z : Permutes(z, k) /\ zigzag = Arranged(sorted, z, k)
  <2>1. sorted \in [1..k -> SUBSET (1..n)]
    BY <1>13 DEF Partition
  <2>. QED BY ONLY <1>2, <2>1, OddsAndEvens
<1>. HIDE DEF zigzag
<1>15. Partition(zigzag, n, k) /\ Balanced(zigzag, k, w, b)
  BY <1>2, <1>13, <1>14, ArrangedPartition, ArrangedBalanced
<1>16. zigzag \in [1..k -> SUBSET (1..n)]
  BY <1>15 DEF Partition
<1>17. ASSUME NEW i \in 1..k
       PROVE  /\ batches[i] \in Seq(1..n) /\ Lists(batches[i], zigzag[i])
              /\ Range(batches[i]) = zigzag[i]
  <2>. DEFINE S == zigzag[i]
  <2>1. S \in SUBSET (1..n) /\ batches[i] = Ascending(S)
    BY <1>16
  <2>. HIDE DEF S, batches
  <2>2. S \in SUBSET Nat /\ IsFiniteSet(S)
    <3>1. (1..n) \in SUBSET Nat /\ IsFiniteSet(1..n)
      BY <1>2, Interval
    <3>. QED BY ONLY <2>1, <3>1, FS_Subset
  <2>3. Lists(Ascending(S), S)
    BY <2>2, AscendingFacts
  <2>4. Ascending(S) \in Seq(S)
    BY <2>3 DEF Lists
  <2>5. Ascending(S) \in Seq(1..n)
    BY ONLY <2>1, <2>4, SequenceOver
  <2>6. Range(Ascending(S)) = S
    BY <2>3, ListRange
  <2>. QED BY <2>1, <2>3, <2>5, <2>6 DEF S
<1>18. batches = [i \in 1..k |-> batches[i]]
  BY <1>16
<1>. HIDE DEF batches
<1>19. Shared(batches, n, k)
  BY <1>15, <1>17, <1>18 DEF Shared
<1>20. Alike(batches, k, w, b)
  BY <1>15, <1>17 DEF Alike, Balanced
<1>. QED BY <1>1, <1>19, <1>20 DEF w

-------------------------------------------------------------------------------
(* Chunks of one size, one after the other. *)

LEMMA Euclid ==
  ASSUME NEW m \in Nat \ {0}, NEW o \in Int, NEW j \in 1..m, NEW x, x = o * m + j
  PROVE  (x - 1) \div m = o /\ (x - 1) % m = j - 1
<1>. DEFINE q == (x - 1) \div m
            r == (x - 1) % m
<1>1. q \in Int /\ r \in Int /\ r + 1 \in 1..m /\ x - 1 = q * m + r /\ x \in Int
  OBVIOUS
<1>. HIDE DEF q, r
<1>2. o * m \in Int /\ q * m \in Int
  BY <1>1
<1>3. o * m + j = q * m + (r + 1)
  BY <1>1, <1>2
<1>4. o = q /\ j = r + 1
  <2>1. 1 \in Nat \ {0}
    OBVIOUS
  <2>. QED BY <1>1, <1>3, <2>1, Places
<1>5. q = o /\ r = j - 1
  BY <1>1, <1>4
<1>. QED BY ONLY <1>5 DEF q, r

\* The place x of chunks of m.
LEMMA PlaceOf ==
  ASSUME NEW k \in Nat \ {0}, NEW m \in Nat \ {0}, NEW x \in 1..(k * m)
  PROVE  \E o \in 0..(k - 1) : \E j \in 1..m :
           x = o * m + j /\ (x - 1) \div m = o /\ (x - 1) % m = j - 1
<1>0. \A y \in 1..(k * m) : \E o \in 0..(k - 1), j \in 1..m : y = o * m + j
  BY Places
<1>1. PICK o \in 0..(k - 1) : \E j \in 1..m : x = o * m + j
  <2>. DEFINE P(y, o) == \E j \in 1..m : y = o * m + j
  <2>1. \A y \in 1..(k * m) : \E o \in 0..(k - 1) : P(y, o)
    BY <1>0
  <2>2. \E o \in 0..(k - 1) : P(x, o)
    <3>. HIDE DEF P
    <3>. QED BY <2>1
  <2>. QED BY <2>2
<1>2. PICK j \in 1..m : x = o * m + j
  BY <1>1
<1>3. o \in Int /\ x \in Int
  OBVIOUS
<1>4. (x - 1) \div m = o /\ (x - 1) % m = j - 1
  BY <1>2, <1>3, Euclid
<1>. QED BY <1>2, <1>4

\* The chunks 1 to k of m elements.
Joined(c, k, m) ==
  [x \in 1..(k * m) |-> c[((x - 1) \div m) + 1][((x - 1) % m) + 1]]

LEMMA JoinedAt ==
  ASSUME NEW k \in Nat \ {0}, NEW m \in Nat \ {0}, NEW c,
         NEW o \in 0..(k - 1), NEW j \in 1..m
  PROVE  o * m + j \in 1..(k * m) /\ Joined(c, k, m)[o * m + j] = c[o + 1][j]
<1>. DEFINE x == o * m + j
            J == Joined(c, k, m)
<1>1. x \in 1..(k * m)
  BY Places
<1>2. (x - 1) \div m = o /\ (x - 1) % m = j - 1
  <2>1. x = o * m + j /\ o \in Int
    OBVIOUS
  <2>. HIDE DEF x
  <2>. QED BY ONLY m \in Nat \ {0}, j \in 1..m, <2>1, Euclid
<1>3. J[x] = c[((x - 1) \div m) + 1][((x - 1) % m) + 1]
  BY <1>1 DEF Joined
<1>. HIDE DEF x, J
<1>4. J[x] = c[o + 1][j]
  BY <1>2, <1>3
<1>. QED BY <1>1, <1>4 DEF x, J

LEMMA JoinedFacts ==
  ASSUME NEW k \in Nat \ {0}, NEW m \in Nat \ {0}, NEW V, NEW c \in [1..k -> [1..m -> V]]
  PROVE  Joined(c, k, m) \in [1..(k * m) -> V]
<1>. DEFINE J == Joined(c, k, m)
<1>1. ASSUME NEW x \in 1..(k * m) PROVE J[x] \in V
  <2>1. PICK o \in 0..(k - 1) : \E j \in 1..m :
          x = o * m + j /\ (x - 1) \div m = o /\ (x - 1) % m = j - 1
    BY PlaceOf
  <2>2. PICK j \in 1..m : x = o * m + j
    BY <2>1
  <2>3. J[x] = c[o + 1][j]
    BY <2>2, JoinedAt
  <2>4. o + 1 \in 1..k
    OBVIOUS
  <2>. HIDE DEF J
  <2>. QED BY <2>3, <2>4
<1>2. J = [x \in 1..(k * m) |-> J[x]]
  BY DEF Joined
<1>. HIDE DEF J
<1>. QED BY <1>1, <1>2 DEF J

LEMMA FlattenFacts ==
  ASSUME NEW k \in Nat \ {0}, NEW m \in Nat \ {0}, NEW V, NEW c \in [1..k -> [1..m -> V]]
  PROVE  FlattenSeq(c) = Joined(c, k, m)
<1>. DEFINE step(f) == [i \in 1..k |-> IF i = 1 THEN c[i] ELSE f[i - 1] \o c[i]]
            flatten == CHOOSE f : f = step(f)
            prefix(i) == Joined(c, i, m)
<1>1. FlattenSeq(c) = flatten[k]
  <2>1. Len(c) = k /\ k # 0
    OBVIOUS
  <2>. QED BY <2>1 DEF FlattenSeq
<1>2. prefix(1) = c[1]
  <2>1. 1 \in 1..k /\ 1 * m = m /\ c[1] \in [1..m -> V]
    OBVIOUS
  <2>2. \A x \in 1..m : (x - 1) \div m = 0 /\ (x - 1) % m = x - 1
    <3>1. \A x \in 1..m : x = 0 * m + x
      OBVIOUS
    <3>2. 0 \in Int
      OBVIOUS
    <3>. QED BY ONLY m \in Nat \ {0}, <3>1, <3>2, Euclid, ZenonT(30)
  <2>. QED BY <2>1, <2>2 DEF Joined
<1>3. ASSUME NEW i \in 1..(k - 1) PROVE prefix(i + 1) = prefix(i) \o c[i + 1]
  <2>. DEFINE a == i * m
              s == prefix(i)
              t == c[i + 1]
              u == [x \in 1..(a + m) |-> c[((x - 1) \div m) + 1][((x - 1) % m) + 1]]
  <2>1. /\ i \in Nat \ {0} /\ c \in [1..k -> [1..m -> V]] /\ i + 1 \in 1..k
        /\ (i + 1) * m = i * m + m /\ i * m \in Nat
    OBVIOUS
  <2>2. s \in [1..a -> V]
    <3>. DEFINE d == [j \in 1..i |-> c[j]]
    <3>1. d \in [1..i -> [1..m -> V]]
      OBVIOUS
    <3>2. Joined(d, i, m) \in [1..(i * m) -> V]
      <4>. HIDE DEF d
      <4>. QED BY <2>1, <3>1, JoinedFacts
    <3>3. Joined(d, i, m) = Joined(c, i, m)
      <4>1. \A x \in 1..(i * m) : ((x - 1) \div m) + 1 \in 1..i
        <5>. SUFFICES ASSUME NEW x \in 1..(i * m) PROVE ((x - 1) \div m) + 1 \in 1..i
          OBVIOUS
        <5>1. PICK o \in 0..(i - 1) : \E j \in 1..m :
                x = o * m + j /\ (x - 1) \div m = o /\ (x - 1) % m = j - 1
          BY ONLY m \in Nat \ {0}, x \in 1..(i * m), <2>1, PlaceOf
        <5>2. (x - 1) \div m = o
          BY <5>1
        <5>. QED BY <5>2
      <4>. QED BY <4>1 DEF Joined
    <3>. QED BY <3>2, <3>3
  <2>3. prefix(i + 1) = u
    BY <2>1 DEF Joined
  <2>4. \A x \in 1..(a + m) : x <= a => u[x] = s[x]
    BY <2>1 DEF Joined
  <2>5. \A x \in 1..(a + m) : ~(x <= a) => u[x] = t[x - a]
    <3>. SUFFICES ASSUME NEW x \in 1..(a + m), ~(x <= a) PROVE u[x] = t[x - a]
      OBVIOUS
    <3>. DEFINE j == x - a
    <3>1. j \in 1..m /\ x = i * m + j
      BY <2>1
    <3>2. (x - 1) \div m = i /\ (x - 1) % m = j - 1
      <4>. HIDE DEF j
      <4>1. i \in Int /\ x \in Int
        BY <2>1, <3>1
      <4>. QED BY ONLY m \in Nat \ {0}, <3>1, <4>1, Euclid, ZenonT(30)
    <3>. QED BY <3>1, <3>2
  <2>6. t \in [1..m -> V]
    BY <2>1
  <2>7. a \in Nat
    BY <2>1
  <2>8. u = [x \in 1..(a + m) |-> u[x]]
    OBVIOUS
  <2>. HIDE DEF a, s, t, u
  <2>9. s \in Seq(V) /\ Len(s) = a
    BY <2>2, <2>7
  <2>12. m \in Nat /\ t \in Seq(V) /\ Len(t) = m
    BY <2>6
  <2>13. s \o t = [x \in 1..(a + m) |-> IF x <= a THEN s[x] ELSE t[x - a]]
    BY ONLY <2>7, <2>9, <2>12, Concatenation
  <2>11. u = s \o t
    BY <2>4, <2>5, <2>8, <2>13
  <2>. QED BY <2>3, <2>11 DEF s, t
<1>. HIDE DEF prefix
<1>4. \E f : f = step(f)
  <2>. DEFINE f == [i \in 1..k |-> prefix(i)]
  <2>1. ASSUME NEW i \in 1..k, i # 1 PROVE f[i] = f[i - 1] \o c[i]
    <3>1. i - 1 \in 1..(k - 1) /\ i - 1 + 1 = i /\ i - 1 \in 1..k
      BY <2>1
    <3>2. prefix(i) = prefix(i - 1) \o c[i]
      BY <1>3, <3>1
    <3>. QED BY <3>1, <3>2
  <2>2. 1 \in 1..k
    OBVIOUS
  <2>3. f = step(f)
    BY <1>2, <2>1, <2>2
  <2>. QED BY <2>3
<1>5. flatten = step(flatten)
  BY <1>4
<1>. HIDE DEF flatten
<1>6. flatten[1] = c[1] /\ \A i \in 1..(k - 1) : flatten[i + 1] = flatten[i] \o c[i + 1]
  <2>1. 1 \in 1..k /\ \A i \in 1..(k - 1) : i + 1 \in 1..k /\ i + 1 # 1 /\ i + 1 - 1 = i
    OBVIOUS
  <2>2. \A i \in 1..k : flatten[i] = IF i = 1 THEN c[i] ELSE flatten[i - 1] \o c[i]
    BY <1>5
  <2>3. flatten[1] = c[1]
    BY <2>1, <2>2
  <2>4. ASSUME NEW i \in 1..(k - 1) PROVE flatten[i + 1] = flatten[i] \o c[i + 1]
    <3>1. i + 1 \in 1..k /\ i + 1 # 1 /\ i + 1 - 1 = i
      BY <2>1
    <3>. DEFINE j == i + 1
    <3>2. j \in 1..k /\ j # 1 /\ j - 1 = i
      BY <3>1
    <3>. HIDE DEF j
    <3>3. flatten[j] = flatten[j - 1] \o c[j]
      BY <2>2, <3>2
    <3>4. flatten[j] = flatten[i] \o c[j]
      BY <3>2, <3>3
    <3>. QED BY <3>4 DEF j
  <2>. QED BY <2>3, <2>4
<1>. DEFINE T == {i \in 0..(k - 1) : flatten[i + 1] = prefix(i + 1)}
<1>7. 0 \in T
  <2>1. 0 \in 0..(k - 1) /\ 0 + 1 = 1
    OBVIOUS
  <2>. QED BY <1>2, <1>6, <2>1
<1>8. ASSUME NEW i \in 0..(k - 1 - 1), i \in T PROVE i + 1 \in T
  <2>1. i + 1 \in 1..(k - 1) /\ i + 1 \in 0..(k - 1)
    OBVIOUS
  <2>2. flatten[i + 1] = prefix(i + 1)
    BY <1>8
  <2>. QED BY <1>3, <1>6, <2>1, <2>2
<1>9. k - 1 \in T
  <2>1. k - 1 \in Nat /\ k - 1 \in 0..(k - 1)
    OBVIOUS
  <2>. HIDE DEF T
  <2>. QED BY <1>7, <1>8, <2>1, InductionTo
<1>10. k - 1 + 1 = k
  OBVIOUS
<1>. QED BY <1>1, <1>9, <1>10 DEF prefix

-------------------------------------------------------------------------------
(* The batch. *)

LEMMA Constants ==
  /\ Ranks \in Nat \ {0} /\ RowsPerRank \in Nat \ {0} /\ MaxTokenLen \in Nat
  /\ MiniBatch \in Nat \ {0} /\ Epochs \in Nat \ {0}
  /\ \A l \in Lengths : l \in Nat \ {0} /\ l <= MaxTokenLen
BY BatchAssumption

\* The largest and the least of some numbers.
LEMMA MaxAndMin ==
  ASSUME NEW S \in SUBSET Nat, IsFiniteSet(S), S # {}
  PROVE  /\ Max(S) \in S /\ Min(S) \in S
         /\ \A x \in S : x <= Max(S) /\ Min(S) <= x
<1>1. \E x \in S : \A y \in S : y <= x
  <2>. DEFINE f == [x \in S |-> x]
  <2>1. f \in [S -> Nat] /\ \A x \in S : f[x] = x
    OBVIOUS
  <2>. HIDE DEF f
  <2>2. PICK x \in S : \A y \in S : f[y] <= f[x]
    BY <2>1, LargestBy
  <2>. QED BY <2>1, <2>2
<1>2. \E x \in S : \A y \in S : x >= y
  BY <1>1
<1>3. Max(S) \in S /\ \A x \in S : Max(S) >= x
  BY <1>2 DEF Max
<1>4. Min(S) \in S /\ \A x \in S : Min(S) <= x
  BY LeastNatural DEF Min
<1>. QED BY <1>3, <1>4

\* Numbers that are within b of each other.
LEMMA WithinOf ==
  ASSUME NEW I, IsFiniteSet(I), I # {}, NEW f \in [I -> Nat], NEW b,
         \A i, j \in I : f[i] - f[j] <= b
  PROVE  Max(Range(f)) - Min(Range(f)) <= b
<1>1. Range(f) \in SUBSET Nat /\ Range(f) # {} /\ IsFiniteSet(Range(f))
  <2>1. f \in Surjection(I, Range(f))
    BY DEF Surjection, Range
  <2>2. IsFiniteSet(Range(f))
    BY <2>1, FS_Surjection
  <2>. QED BY <2>2 DEF Range
<1>2. \A x, y \in Range(f) : x - y <= b
  BY DEF Range
<1>3. Max(Range(f)) \in Range(f) /\ Min(Range(f)) \in Range(f)
  BY <1>1, MaxAndMin
<1>. QED BY <1>2, <1>3

\* How much more work a row has than another at most.
Gap == Max(Range(Workloads(lens))) - Min(Range(Workloads(lens)))

LEMMA GapIs ==
  ASSUME lens \in [Rows -> Lengths]
  PROVE  /\ Workloads(lens) \in [Rows -> Nat \ {0}] /\ Gap \in Nat
         /\ \A i, j \in Rows : Workloads(lens)[i] - Workloads(lens)[j] <= Gap
<1>. DEFINE w == Workloads(lens)
            S == Range(w)
<1>1. w \in [Rows -> Nat \ {0}]
  <2>. DEFINE n == Ranks * RowsPerRank
  <2>1. lens \in [1..n -> Nat \ {0}]
    BY Constants DEF Rows
  <2>. HIDE DEF n
  <2>2. w \in [1..n -> Nat \ {0}]
    BY <2>1, WorkloadsFacts
  <2>. QED BY <2>2 DEF n, Rows
<1>. HIDE DEF w
<1>2. IsFiniteSet(Rows) /\ 1 \in Rows
  <2>1. Ranks * RowsPerRank \in Nat \ {0}
    BY Constants, Places
  <2>. QED BY <2>1, Interval DEF Rows
<1>3. S \in SUBSET Nat /\ S # {} /\ IsFiniteSet(S) /\ \A i \in Rows : w[i] \in S
  <2>1. w \in Surjection(Rows, S)
    BY <1>1 DEF Surjection, Range
  <2>2. IsFiniteSet(S)
    BY <1>2, <2>1, FS_Surjection
  <2>. QED BY <1>1, <1>2, <2>2 DEF Range
<1>. HIDE DEF S
<1>4. /\ Max(S) \in Nat /\ Min(S) \in Nat /\ Min(S) <= Max(S)
      /\ \A x \in S : x \in Nat /\ x <= Max(S) /\ Min(S) <= x
  BY <1>3, MaxAndMin
<1>5. Gap = Max(S) - Min(S)
  BY DEF Gap, S, w
<1>6. ASSUME NEW i \in Rows, NEW j \in Rows PROVE w[i] - w[j] <= Gap
  <2>1. w[i] \in Nat /\ w[j] \in Nat /\ w[i] <= Max(S) /\ Min(S) <= w[j]
    BY <1>3, <1>4
  <2>. QED BY ONLY <1>4, <1>5, <2>1
<1>. QED BY <1>1, <1>4, <1>5, <1>6 DEF w

\* The driver's order has every row once; the rows of a rank are those of a part.
LEMMA BalancedOrderFacts ==
  ASSUME lens \in [Rows -> Lengths],
         NEW b \in Nat, \A i, j \in Rows : Workloads(lens)[i] - Workloads(lens)[j] <= b
  PROVE  /\ BalancedOrder \in [Rows -> Rows]
         /\ \E parts : /\ Balanced(parts, Ranks, Workloads(lens), b)
                       /\ \A r \in RankIds : parts[r] =
                            {BalancedOrder[(r - 1) * RowsPerRank + j] : j \in 1..RowsPerRank}
         /\ \A x, y \in Rows : BalancedOrder[x] = BalancedOrder[y] => x = y
<1>. DEFINE w == Workloads(lens)
            parts == Partitions(w, Ranks, TRUE)
            s(r) == ByWorkload(w, parts[r])
            c == [r \in RankIds |-> Odds(s(r)) \o Reverse(Evens(s(r)))]
            n == Ranks * RowsPerRank
<1>1. /\ Ranks \in Nat \ {0} /\ RowsPerRank \in Nat \ {0} /\ RowsPerRank \in Nat
      /\ n \in Nat /\ n = RowsPerRank * Ranks
  BY Constants
<1>2. Rows = 1..n /\ RankIds = 1..Ranks
  BY DEF Rows, RankIds
<1>3. BalancedOrder = FlattenSeq(c)
  BY DEF BalancedOrder
<1>4. w \in [1..n -> Nat \ {0}] /\ \A i, j \in 1..n : w[i] - w[j] <= b
  <2>1. lens \in [1..n -> Nat \ {0}]
    BY <1>2, Constants
  <2>. QED BY <1>2, <2>1, WorkloadsFacts
<1>. HIDE DEF w, n
<1>5. /\ Partition(parts, n, Ranks) /\ \A r \in 1..Ranks : Cardinality(parts[r]) = RowsPerRank
      /\ Balanced(parts, Ranks, w, b)
  <2>1. RowsPerRank \in Nat \ {0} /\ Ranks \in Nat \ {0} /\ n = RowsPerRank * Ranks
    BY <1>1
  <2>2. EvenPartition(parts, n, Ranks, RowsPerRank) /\ Balanced(parts, Ranks, w, b)
    BY ONLY <1>4, <2>1, b \in Nat, EqualPartitionFacts
  <2>. QED BY <2>2 DEF EvenPartition
<1>. HIDE DEF parts
<1>6. ASSUME NEW r \in 1..Ranks
      PROVE  /\ c[r] \in [1..RowsPerRank -> 1..n]
             /\ \A j \in 1..RowsPerRank : c[r][j] \in parts[r]
             /\ \A x \in parts[r] : \E j \in 1..RowsPerRank : c[r][j] = x
             /\ \A i, j \in 1..RowsPerRank : c[r][i] = c[r][j] => i = j
  <2>. DEFINE p == parts[r]
              t == s(r)
              e == Odds(t) \o Reverse(Evens(t))
  <2>1. p \in SUBSET (1..n) /\ Cardinality(p) = RowsPerRank
    BY <1>5 DEF Partition
  <2>2. c[r] = e
    BY <1>2
  <2>3. Lists(t, p)
    <3>1. (1..n) \in SUBSET Nat /\ IsFiniteSet(1..n)
      BY <1>1, Interval
    <3>2. p \in SUBSET Nat /\ IsFiniteSet(p)
      BY ONLY <2>1, <3>1, FS_Subset
    <3>3. \A x \in p : w[x] \in Nat
      BY <1>4, <2>1
    <3>. HIDE DEF p
    <3>. QED BY <3>2, <3>3, ByWorkloadFacts DEF p
  <2>. HIDE DEF c, p, t
  <2>4. t \in [1..RowsPerRank -> p]
    <3>1. t \in Seq(p) /\ Len(t) = RowsPerRank
      BY <2>1, <2>3 DEF Lists
    <3>. QED BY ONLY <3>1
  <2>5. \A i, j \in 1..RowsPerRank : t[i] = t[j] => i = j
    <3>1. DOMAIN t = 1..RowsPerRank
      BY <2>4
    <3>. QED BY <2>3, <3>1 DEF Lists
  <2>6. PICK g : Permutes(g, RowsPerRank) /\ e = Arranged(t, g, RowsPerRank)
    BY ONLY <1>1, <2>4, OddsAndEvens
  <2>. HIDE DEF e
  <2>7. /\ g \in [1..RowsPerRank -> 1..RowsPerRank]
        /\ \A i, j \in 1..RowsPerRank : g[i] = g[j] => i = j
        /\ e = [j \in 1..RowsPerRank |-> t[g[j]]]
        /\ \A i \in 1..RowsPerRank : \E j \in 1..RowsPerRank : g[j] = i
    BY <2>6 DEF Permutes, Arranged
  <2>8. e \in [1..RowsPerRank -> 1..n] /\ \A j \in 1..RowsPerRank : e[j] \in p
    BY <2>1, <2>4, <2>7
  <2>9. \A i, j \in 1..RowsPerRank : e[i] = e[j] => i = j
    BY <2>5, <2>7, ZenonT(30)
  <2>10. ASSUME NEW x \in p PROVE \E j \in 1..RowsPerRank : e[j] = x
    <3>1. DOMAIN t = 1..RowsPerRank
      BY <2>4
    <3>2. PICK i \in 1..RowsPerRank : t[i] = x
      BY <2>3, <3>1 DEF Lists
    <3>3. PICK j \in 1..RowsPerRank : g[j] = i
      BY <2>7
    <3>. QED BY <2>7, <3>2, <3>3
  <2>. QED BY <2>2, <2>8, <2>9, <2>10 DEF p
<1>7. c \in [1..Ranks -> [1..RowsPerRank -> 1..n]]
  <2>1. c = [r \in 1..Ranks |-> c[r]]
    BY <1>2
  <2>. HIDE DEF c
  <2>. QED BY <1>6, <2>1
<1>. HIDE DEF c
<1>. DEFINE J == Joined(c, Ranks, RowsPerRank)
<1>8. BalancedOrder = J
  BY <1>1, <1>3, <1>7, FlattenFacts
<1>9. /\ J \in [1..n -> 1..n]
      /\ \A o \in 0..(Ranks - 1), j \in 1..RowsPerRank : J[o * RowsPerRank + j] = c[o + 1][j]
  <2>1. Ranks \in Nat \ {0} /\ RowsPerRank \in Nat \ {0} /\ n = Ranks * RowsPerRank
    BY <1>1 DEF n
  <2>2. J \in [1..(Ranks * RowsPerRank) -> 1..n]
    BY ONLY <1>7, <2>1, JoinedFacts
  <2>3. \A o \in 0..(Ranks - 1), j \in 1..RowsPerRank : J[o * RowsPerRank + j] = c[o + 1][j]
    BY ONLY <2>1, JoinedAt
  <2>. QED BY <2>1, <2>2, <2>3
<1>. HIDE DEF J
<1>10. ASSUME NEW x \in 1..n, NEW y \in 1..n, J[x] = J[y] PROVE x = y
  <2>1. PICK o \in 0..(Ranks - 1) : \E j \in 1..RowsPerRank :
          x = o * RowsPerRank + j /\ (x - 1) \div RowsPerRank = o
          /\ (x - 1) % RowsPerRank = j - 1
    <3>1. x \in 1..(Ranks * RowsPerRank)
      BY DEF n
    <3>. QED BY ONLY <1>1, <3>1, PlaceOf
  <2>2. PICK j \in 1..RowsPerRank : x = o * RowsPerRank + j
    BY <2>1
  <2>3. PICK p \in 0..(Ranks - 1) : \E i \in 1..RowsPerRank :
          y = p * RowsPerRank + i /\ (y - 1) \div RowsPerRank = p
          /\ (y - 1) % RowsPerRank = i - 1
    <3>1. y \in 1..(Ranks * RowsPerRank)
      BY DEF n
    <3>. QED BY ONLY <1>1, <3>1, PlaceOf
  <2>4. PICK i \in 1..RowsPerRank : y = p * RowsPerRank + i
    BY <2>3
  <2>5. J[x] = c[o + 1][j] /\ J[y] = c[p + 1][i]
    BY <1>9, <2>2, <2>4
  <2>6. o + 1 \in 1..Ranks /\ p + 1 \in 1..Ranks
    BY <1>1
  <2>7. J[x] \in parts[o + 1] /\ J[x] \in parts[p + 1]
    BY <1>6, <1>10, <2>5, <2>6
  <2>8. o + 1 = p + 1
    BY <1>5, <2>6, <2>7 DEF Partition
  <2>9. o = p
    BY <2>8
  <2>10. i = j
    <3>. DEFINE r == o + 1
    <3>1. r \in 1..Ranks /\ c[r][i] = c[r][j]
      BY <1>10, <2>5, <2>6, <2>9
    <3>. HIDE DEF r
    <3>2. \A k, l \in 1..RowsPerRank : c[r][k] = c[r][l] => k = l
      BY <1>6, <3>1
    <3>. QED BY ONLY <3>1, <3>2, i \in 1..RowsPerRank, j \in 1..RowsPerRank
  <2>. QED BY <2>2, <2>4, <2>9, <2>10
<1>11. ASSUME NEW r \in RankIds
       PROVE  parts[r] = {J[(r - 1) * RowsPerRank + j] : j \in 1..RowsPerRank}
  <2>. DEFINE o == r - 1
  <2>1. o \in 0..(Ranks - 1) /\ o + 1 = r /\ r \in 1..Ranks
    BY <1>1, <1>2
  <2>2. \A j \in 1..RowsPerRank : J[o * RowsPerRank + j] = c[r][j]
    BY <1>9, <2>1
  <2>3. parts[r] = {c[r][j] : j \in 1..RowsPerRank}
    BY <1>6, <2>1
  <2>. QED BY <2>2, <2>3
<1>12. \E q : /\ Balanced(q, Ranks, w, b)
              /\ \A r \in RankIds : q[r] =
                   {J[(r - 1) * RowsPerRank + j] : j \in 1..RowsPerRank}
  BY <1>5, <1>11
<1>. QED BY <1>2, <1>8, <1>9, <1>10, <1>12 DEF w

-------------------------------------------------------------------------------
(* Mini-batches and turns. *)

Parts == CeilDiv(RowsPerRank, MiniBatch)
FirstOf(b) == b * MiniBatch
SizeOf(b) == IF FirstOf(b) + MiniBatch < RowsPerRank THEN MiniBatch
             ELSE RowsPerRank - FirstOf(b)

LEMMA PartsFacts ==
  /\ Parts \in Nat \ {0}
  /\ \A b \in 0..(Parts - 1) : /\ FirstOf(b) \in 0..(RowsPerRank - 1)
                              /\ SizeOf(b) \in 1..(RowsPerRank - FirstOf(b))
  /\ \A j \in 1..RowsPerRank : (j - 1) \div MiniBatch \in 0..(Parts - 1)
  /\ \A b \in 0..(Parts - 1), j \in 1..RowsPerRank :
       j - FirstOf(b) \in 1..SizeOf(b) <=> (j - 1) \div MiniBatch = b
<1>. DEFINE R == RowsPerRank
            M == MiniBatch
            C == Parts
            x == R + M - 1
<1>1. R \in Nat \ {0} /\ M \in Nat \ {0}
  BY Constants
<1>2. C \in Int /\ x \in Int /\ C * M \in Int /\ C * M <= x /\ x < C * M + M
  <2>1. C = x \div M
    BY DEF Parts, CeilDiv
  <2>2. x \in Nat
    BY <1>1
  <2>. HIDE DEF C, x, M
  <2>3. C \in Int /\ C * M \in Int
    BY <1>1, <2>1, <2>2
  <2>. QED BY <1>1, <2>1, <2>2, <2>3
<1>3. C \in Nat \ {0}
  <2>1. C >= 1
    <3>1. ~(C <= 0)
      <4>1. C <= 0 => C * M <= 0
        BY <1>1, <1>2
      <4>. QED BY <1>1, <1>2, <4>1
    <3>. QED BY <1>2, <3>1
  <2>. QED BY <1>2, <2>1
<1>. HIDE DEF C, M, R
<1>4. ASSUME NEW b \in 0..(C - 1)
      PROVE  b * M \in Nat /\ b * M + M <= C * M
  <2>1. C - 1 - b \in Nat /\ (C - 1 - b) * M \in Nat
    BY <1>1, <1>3
  <2>2. (C - 1 - b) * M = C * M - M - b * M
    BY <1>1, <1>3
  <2>3. b * M \in Nat
    BY <1>1, <1>3
  <2>. QED BY <1>1, <1>2, <2>1, <2>2, <2>3
<1>5. ASSUME NEW b \in 0..(C - 1)
      PROVE  FirstOf(b) \in 0..(R - 1) /\ SizeOf(b) \in 1..(R - FirstOf(b))
  <2>1. FirstOf(b) = b * M /\ SizeOf(b) = IF FirstOf(b) + M < R THEN M ELSE R - FirstOf(b)
    BY DEF FirstOf, SizeOf, M, R
  <2>2. FirstOf(b) \in Nat /\ FirstOf(b) < R
    BY <1>1, <1>2, <1>4, <2>1
  <2>. QED BY <1>1, <2>1, <2>2
<1>6. ASSUME NEW j \in 1..R
      PROVE  /\ (j - 1) \div M \in 0..(C - 1)
             /\ ((j - 1) \div M) * M <= j - 1 /\ j - 1 < ((j - 1) \div M) * M + M
  <2>. DEFINE q == (j - 1) \div M
  <2>1. q \in Nat /\ q * M \in Nat /\ q * M <= j - 1 /\ j - 1 < q * M + M
    BY <1>1
  <2>. HIDE DEF q
  <2>2. q < C
    <3>1. C <= q => C * M <= q * M
      <4>. SUFFICES ASSUME C <= q PROVE C * M <= q * M
        OBVIOUS
      <4>1. q - C \in Nat /\ (q - C) * M \in Nat /\ (q - C) * M = q * M - C * M
        BY <1>1, <1>3, <2>1
      <4>. QED BY <1>2, <2>1, <4>1
    <3>2. q * M < C * M
      BY <1>1, <1>2, <2>1
    <3>. QED BY <1>2, <1>3, <2>1, <3>1, <3>2
  <2>. QED BY <1>3, <2>1, <2>2 DEF q
<1>7. ASSUME NEW b \in 0..(C - 1), NEW j \in 1..R
      PROVE  j - FirstOf(b) \in 1..SizeOf(b) <=> (j - 1) \div M = b
  <2>. DEFINE q == (j - 1) \div M
              a == b * M
  <2>1. FirstOf(b) = a /\ SizeOf(b) = IF a + M < R THEN M ELSE R - a
    BY DEF FirstOf, SizeOf, M, R
  <2>2. q \in Int /\ q * M <= j - 1 /\ j - 1 < q * M + M /\ q * M \in Int
    BY <1>1, <1>3, <1>6
  <2>3. j - a \in 1..SizeOf(b) <=> a < j /\ j <= a + M
    BY <1>1, <1>4, <2>1
  <2>4. b \in Int /\ a \in Int
    BY <1>3, <1>4
  <2>. HIDE DEF q
  <2>5. q < b => q * M + M <= a
    <3>. SUFFICES ASSUME q < b PROVE q * M + M <= a
      OBVIOUS
    <3>1. b - q - 1 \in Nat
      BY <2>2, <2>4
    <3>2. (b - q - 1) * M \in Nat
      BY <1>1, <3>1
    <3>3. (b - q - 1) * M = a - q * M - M
      BY <1>1, <2>2, <2>4
    <3>. QED BY <1>1, <2>2, <2>4, <3>2, <3>3
  <2>6. b < q => a + M <= q * M
    <3>. SUFFICES ASSUME b < q PROVE a + M <= q * M
      OBVIOUS
    <3>1. q - b - 1 \in Nat
      BY <2>2, <2>4
    <3>2. (q - b - 1) * M \in Nat
      BY <1>1, <3>1
    <3>3. (q - b - 1) * M = q * M - a - M
      BY <1>1, <2>2, <2>4
    <3>. QED BY <1>1, <2>2, <2>4, <3>2, <3>3
  <2>7. q = b => q * M = a
    OBVIOUS
  <2>. HIDE DEF a
  <2>8. a < j /\ j <= a + M <=> q = b
    <3>. DEFINE z == q * M
    <3>. HIDE DEF z
    <3>1. z \in Int /\ z <= j - 1 /\ j - 1 < z + M
      BY <2>2 DEF z
    <3>2. (q < b => z + M <= a) /\ (b < q => a + M <= z) /\ (q = b => z = a)
      BY <2>5, <2>6, <2>7 DEF z
    <3>3. q \in Int /\ b \in Int /\ a \in Int /\ j \in Int /\ M \in Nat
      BY <1>1, <2>2, <2>4
    <3>. QED BY ONLY <3>1, <3>2, <3>3
  <2>. QED BY <2>1, <2>3, <2>8 DEF q
<1>. QED BY <1>3, <1>5, <1>6, <1>7 DEF C, M, R

\* How often a row of the mini-batch b was in one of the first t turns.
Trained(t, b) == (t \div Parts) + (IF b < t % Parts THEN 1 ELSE 0)

LEMMA TrainedFacts ==
  /\ \A b \in 0..(Parts - 1) : Trained(0, b) = 0 /\ Trained(Turns, b) = Epochs
  /\ \A t \in Nat : t % Parts \in 0..(Parts - 1)
  /\ \A t \in 0..Turns, b \in 0..(Parts - 1) : Trained(t, b) \in 0..Epochs
  /\ \A t \in Nat, b \in 0..(Parts - 1) :
       Trained(t + 1, b) = Trained(t, b) + (IF b = t % Parts THEN 1 ELSE 0)
  /\ Turns \in Nat \ {0}
<1>. DEFINE C == Parts
            E == Epochs
<1>1. C \in Nat \ {0} /\ E \in Nat \ {0} /\ Turns = E * C
  BY PartsFacts, Constants DEF Turns, Parts
<1>. HIDE DEF C, E
<1>2. ASSUME NEW q \in Int, NEW r \in 0..(C - 1), NEW t \in Int, t = q * C + r
      PROVE  t \div C = q /\ t % C = r
  <2>1. r + 1 \in 1..C /\ t + 1 = q * C + (r + 1)
    BY <1>1, <1>2
  <2>2. (t + 1 - 1) \div C = q /\ (t + 1 - 1) % C = r + 1 - 1
    <3>. DEFINE j == r + 1
                y == t + 1
    <3>1. j \in 1..C /\ y = q * C + j
      BY <2>1
    <3>. HIDE DEF j, y
    <3>2. (y - 1) \div C = q /\ (y - 1) % C = j - 1
      BY ONLY <1>1, q \in Int, <3>1, Euclid
    <3>. QED BY <3>2 DEF j, y
  <2>3. t + 1 - 1 = t /\ r + 1 - 1 = r
    BY <1>1
  <2>. QED BY <2>2, <2>3
<1>3. ASSUME NEW t \in Nat
      PROVE  /\ t \div C \in Nat /\ t % C \in 0..(C - 1)
             /\ t = (t \div C) * C + (t % C) /\ (t \div C) * C \in Nat
  BY <1>1
<1>4. ASSUME NEW b \in 0..(C - 1) PROVE Trained(0, b) = 0 /\ Trained(Turns, b) = Epochs
  <2>1. 0 \div C = 0 /\ 0 % C = 0
    BY <1>1
  <2>2. Turns \div C = E /\ Turns % C = 0
    <3>1. E \in Int /\ 0 \in 0..(C - 1) /\ Turns \in Int /\ Turns = E * C + 0
      BY <1>1
    <3>. QED BY ONLY <1>2, <3>1
  <2>3. ~(b < 0)
    BY <1>1
  <2>. QED BY <1>1, <2>1, <2>2, <2>3 DEF Trained, C, E
<1>5. ASSUME NEW t \in 0..Turns, NEW b \in 0..(C - 1) PROVE Trained(t, b) \in 0..E
  <2>. DEFINE q == t \div C
              r == t % C
  <2>1. q \in Nat /\ r \in 0..(C - 1) /\ t = q * C + r /\ q * C \in Nat /\ t <= E * C
    BY <1>1, <1>3, SMTT(30)
  <2>2. Trained(t, b) = q + (IF b < r THEN 1 ELSE 0)
    BY DEF Trained, C
  <2>. HIDE DEF q, r
  <2>3. E <= q => E * C + (q - E) * C = q * C /\ (q - E) * C \in Nat
    BY <1>1, <2>1
  <2>4. E < q => E * C + C <= q * C
    <3>. SUFFICES ASSUME E < q PROVE E * C + C <= q * C
      OBVIOUS
    <3>1. q - E - 1 \in Nat
      BY <1>1, <2>1
    <3>2. (q - E - 1) * C \in Nat
      BY <1>1, <3>1
    <3>3. (q - E - 1) * C = q * C - E * C - C
      BY <1>1, <2>1
    <3>4. E * C \in Nat
      BY <1>1
    <3>. QED BY <1>1, <2>1, <3>2, <3>3, <3>4
  <2>5. E * C \in Nat
    BY <1>1
  <2>6. ~(E < q)
    BY <1>1, <2>1, <2>4, <2>5
  <2>7. q = E => r = 0
    BY <1>1, <2>1, <2>5
  <2>. QED BY <1>1, <2>1, <2>2, <2>6, <2>7
<1>6. ASSUME NEW t \in Nat, NEW b \in 0..(C - 1)
      PROVE  Trained(t + 1, b) = Trained(t, b) + (IF b = t % C THEN 1 ELSE 0)
  <2>. DEFINE q == t \div C
              r == t % C
  <2>1. q \in Nat /\ r \in 0..(C - 1) /\ t = q * C + r /\ q * C \in Nat
    BY <1>3
  <2>2. Trained(t, b) = q + (IF b < r THEN 1 ELSE 0)
    BY DEF Trained, C
  <2>3. Trained(t + 1, b) = ((t + 1) \div C) + (IF b < (t + 1) % C THEN 1 ELSE 0)
    BY DEF Trained, C
  <2>. HIDE DEF q
  <2>4. CASE r + 1 < C
    <3>. DEFINE u == r + 1
    <3>. HIDE DEF r
    <3>1. u \in 0..(C - 1) /\ t + 1 = q * C + u /\ t + 1 \in Int /\ q \in Int
      BY <1>1, <2>1, <2>4
    <3>2. (t + 1) \div C = q /\ (t + 1) % C = u
      <4>. HIDE DEF u
      <4>. QED BY <1>2, <3>1
    <3>3. Trained(t + 1, b) = q + (IF b < r + 1 THEN 1 ELSE 0)
      BY <2>3, <3>2
    <3>4. Trained(t + 1, b) = Trained(t, b) + (IF b = r THEN 1 ELSE 0)
      BY <1>1, <2>1, <2>2, <3>3
    <3>. QED BY <3>4 DEF r
  <2>5. CASE ~(r + 1 < C)
    <3>. HIDE DEF r
    <3>1. t + 1 = (q + 1) * C + 0 /\ t + 1 \in Int /\ q + 1 \in Int /\ 0 \in 0..(C - 1)
      <4>1. (q + 1) * C = q * C + C
        BY <1>1, <2>1
      <4>2. r + 1 = C
        BY <1>1, <2>1, <2>5
      <4>. QED BY <1>1, <2>1, <4>1, <4>2
    <3>2. (t + 1) \div C = q + 1 /\ (t + 1) % C = 0
      <4>. DEFINE v == q + 1
                  y == t + 1
      <4>1. y = v * C + 0 /\ y \in Int /\ v \in Int /\ 0 \in 0..(C - 1)
        BY <3>1
      <4>. HIDE DEF v, y
      <4>2. y \div C = v /\ y % C = 0
        BY <1>2, <4>1
      <4>. QED BY <4>2 DEF v, y
    <3>3. Trained(t + 1, b) = q + 1
      BY <1>1, <2>1, <2>3, <3>2
    <3>4. Trained(t + 1, b) = Trained(t, b) + (IF b = r THEN 1 ELSE 0)
      BY <1>1, <2>1, <2>2, <2>5, <3>3
    <3>. QED BY <3>4 DEF r
  <2>. QED BY <2>4, <2>5
<1>7. Turns \in Nat \ {0}
  BY <1>1
<1>8. \A t \in Nat : t % Parts \in 0..(Parts - 1)
  BY <1>3 DEF C
<1>. QED BY <1>4, <1>5, <1>6, <1>7, <1>8 DEF C, E

-------------------------------------------------------------------------------
(* The piece of a rank. *)

\* A subsequence of n elements.
LEMMA Subsequence ==
  ASSUME NEW V, NEW s, NEW f \in Int, NEW n \in Nat, NEW l \in Int, l = f + n,
         \A i \in 1..n : s[f + i] \in V
  PROVE  /\ SubSeq(s, f + 1, l) \in [1..n -> V]
         /\ \A i \in 1..n : SubSeq(s, f + 1, l)[i] = s[f + i]
<1>. DEFINE a == f + 1
            t == SubSeq(s, a, l)
<1>1. \A i \in a..l : s[i] \in V
  <2>. SUFFICES ASSUME NEW i \in a..l PROVE s[i] \in V
    OBVIOUS
  <2>. DEFINE j == i - f
  <2>1. j \in 1..n /\ f + j = i
    OBVIOUS
  <2>. HIDE DEF j
  <2>2. s[f + j] \in V
    BY <2>1
  <2>. QED BY <2>1, <2>2
<1>2. a \in Int /\ l - a + 1 = n /\ (a <= l <=> n # 0)
  OBVIOUS
<1>3. \A i \in 1..n : a + i - 1 = f + i
  OBVIOUS
<1>. HIDE DEF a
<1>4. /\ t \in Seq(V) /\ Len(t) = IF a <= l THEN l - a + 1 ELSE 0
      /\ \A i \in 1..(l - a + 1) : t[i] = s[a + i - 1]
  BY <1>1, <1>2, SubSeqProperties
<1>5. Len(t) = n
  BY <1>2, <1>4
<1>. HIDE DEF t
<1>6. t \in [1..n -> V]
  BY <1>4, <1>5
<1>7. \A i \in 1..n : t[i] = s[f + i]
  BY <1>2, <1>3, <1>4
<1>. QED BY <1>6, <1>7 DEF t, a

\* The first place in the chunk of the piece of a turn, and its size.
First(t) == IF phase = "log_prob" THEN 0 ELSE FirstOf((t - 1) % Parts)
Size(t) == IF phase = "log_prob" THEN RowsPerRank ELSE SizeOf((t - 1) % Parts)

\* The row at the place j of the chunk of r.
RowAt(r, j) == order[(r - 1) * RowsPerRank + j]

\* The places of the chunks of the ranks are those of the batch.
LEMMA RowPlaces ==
  /\ \A r \in RankIds, j \in 1..RowsPerRank : (r - 1) * RowsPerRank + j \in Rows
  /\ \A r, s \in RankIds, i, j \in 1..RowsPerRank :
       (r - 1) * RowsPerRank + i = (s - 1) * RowsPerRank + j => r = s /\ i = j
  /\ \A y \in Rows : \E r \in RankIds : \E j \in 1..RowsPerRank :
       y = (r - 1) * RowsPerRank + j
<1>. DEFINE place(r, j) == (r - 1) * RowsPerRank + j
            n == Ranks * RowsPerRank
<1>1. /\ Ranks \in Nat \ {0} /\ RowsPerRank \in Nat \ {0} /\ n \in Nat
      /\ Rows = 1..n /\ RankIds = 1..Ranks
  BY Constants DEF Rows, RankIds
<1>2. ASSUME NEW r \in RankIds, NEW j \in 1..RowsPerRank PROVE place(r, j) \in Rows
  <2>. DEFINE o == r - 1
  <2>1. o \in 0..(Ranks - 1)
    BY <1>1
  <2>. HIDE DEF o
  <2>2. o * RowsPerRank + j \in 1..(Ranks * RowsPerRank)
    BY ONLY <1>1, <2>1, j \in 1..RowsPerRank, Places
  <2>. QED BY <1>1, <2>2 DEF o
<1>3. ASSUME NEW r \in RankIds, NEW s \in RankIds, NEW i \in 1..RowsPerRank,
             NEW j \in 1..RowsPerRank, place(r, i) = place(s, j)
      PROVE  r = s /\ i = j
  <2>. DEFINE o == r - 1
              p == s - 1
  <2>1. o \in Int /\ p \in Int /\ o * RowsPerRank + i = p * RowsPerRank + j
    BY <1>1, <1>3
  <2>. HIDE DEF o, p
  <2>2. o = p /\ i = j
    BY ONLY <1>1, <2>1, i \in 1..RowsPerRank, j \in 1..RowsPerRank, Places
  <2>. QED BY <1>1, <2>2 DEF o, p
<1>4. ASSUME NEW y \in Rows
      PROVE  \E r \in RankIds : \E j \in 1..RowsPerRank : y = place(r, j)
  <2>1. PICK o \in 0..(Ranks - 1) : \E j \in 1..RowsPerRank :
          y = o * RowsPerRank + j /\ (y - 1) \div RowsPerRank = o
          /\ (y - 1) % RowsPerRank = j - 1
    <3>1. y \in 1..(Ranks * RowsPerRank)
      BY <1>1
    <3>. QED BY ONLY <1>1, <3>1, PlaceOf
  <2>2. PICK j \in 1..RowsPerRank : y = o * RowsPerRank + j
    BY <2>1
  <2>3. o + 1 \in RankIds /\ place(o + 1, j) = o * RowsPerRank + j
    BY <1>1
  <2>. QED BY <2>2, <2>3
<1>. QED BY <1>2, <1>3, <1>4

LEMMA RowAtFacts ==
  ASSUME order \in [Rows -> Rows], \A x, y \in Rows : order[x] = order[y] => x = y
  PROVE  /\ \A r \in RankIds, j \in 1..RowsPerRank : RowAt(r, j) \in Rows
         /\ \A r, s \in RankIds, i, j \in 1..RowsPerRank :
              RowAt(r, i) = RowAt(s, j) => r = s /\ i = j
         /\ \A x \in Rows : \E r \in RankIds : \E j \in 1..RowsPerRank : x = RowAt(r, j)
<1>. DEFINE place(r, j) == (r - 1) * RowsPerRank + j
<1>2. \A r \in RankIds, j \in 1..RowsPerRank : place(r, j) \in Rows
  BY RowPlaces
<1>3. \A r, s \in RankIds, i, j \in 1..RowsPerRank :
        place(r, i) = place(s, j) => r = s /\ i = j
  BY RowPlaces
<1>4. \A y \in Rows : \E r \in RankIds : \E j \in 1..RowsPerRank : y = place(r, j)
  BY RowPlaces
<1>. HIDE DEF place
<1>5. \A x \in Rows : \E y \in Rows : order[y] = x
  <2>1. order \in Injection(Rows, Rows)
    BY DEF Injection, IsInjective
  <2>2. IsFiniteSet(Rows)
    BY Constants, Interval DEF Rows
  <2>3. order \in Surjection(Rows, Rows)
    BY <2>1, <2>2, FS_Injection
  <2>. QED BY <2>3 DEF Surjection
<1>6. \A r, j : RowAt(r, j) = order[place(r, j)]
  BY DEF RowAt, place
<1>7. \A r \in RankIds, j \in 1..RowsPerRank : RowAt(r, j) \in Rows
  BY <1>2, <1>6
<1>8. \A r, s \in RankIds, i, j \in 1..RowsPerRank :
        RowAt(r, i) = RowAt(s, j) => r = s /\ i = j
  <2>. SUFFICES ASSUME NEW r \in RankIds, NEW s \in RankIds, NEW i \in 1..RowsPerRank,
                       NEW j \in 1..RowsPerRank, RowAt(r, i) = RowAt(s, j)
                PROVE  r = s /\ i = j
    OBVIOUS
  <2>1. place(r, i) \in Rows /\ place(s, j) \in Rows /\ order[place(r, i)] = order[place(s, j)]
    BY <1>2, <1>6
  <2>2. place(r, i) = place(s, j)
    BY <2>1
  <2>. QED BY <1>3, <2>2
<1>9. \A x \in Rows : \E r \in RankIds : \E j \in 1..RowsPerRank : x = RowAt(r, j)
  <2>. SUFFICES ASSUME NEW x \in Rows
                PROVE  \E r \in RankIds : \E j \in 1..RowsPerRank : x = RowAt(r, j)
    OBVIOUS
  <2>1. PICK y \in Rows : order[y] = x
    BY <1>5
  <2>2. PICK r \in RankIds : \E j \in 1..RowsPerRank : y = place(r, j)
    BY <1>4
  <2>. QED BY <1>6, <2>1, <2>2
<1>. QED BY <1>7, <1>8, <1>9

LEMMA PieceFacts ==
  ASSUME order \in [Rows -> Rows], \A x, y \in Rows : order[x] = order[y] => x = y,
         NEW r \in RankIds, turn[r] \in Nat \ {0}
  PROVE  /\ First(turn[r]) \in 0..(RowsPerRank - 1)
         /\ Size(turn[r]) \in 1..(RowsPerRank - First(turn[r]))
         /\ Piece(r) \in [1..Size(turn[r]) -> Rows]
         /\ \A j \in 1..Size(turn[r]) : /\ First(turn[r]) + j \in 1..RowsPerRank
                                        /\ Piece(r)[j] = RowAt(r, First(turn[r]) + j)
<1>. DEFINE R == RowsPerRank
            b == (turn[r] - 1) % Parts
            from == First(turn[r])
            size == Size(turn[r])
            chunk == Chunk(r)
<1>1. R \in Nat \ {0} /\ r \in Nat \ {0} /\ (r - 1) * R \in Int /\ (r - 1) * R + R = r * R
      /\ r * R \in Int
  BY Constants DEF RankIds
<1>2. b \in 0..(Parts - 1)
  <2>1. turn[r] - 1 \in Nat
    OBVIOUS
  <2>. QED BY <2>1, TrainedFacts
<1>. HIDE DEF b
<1>3. from \in 0..(R - 1) /\ size \in 1..(R - from)
  <2>1. from = IF phase = "log_prob" THEN 0 ELSE FirstOf(b)
    BY DEF First, b
  <2>2. size = IF phase = "log_prob" THEN R ELSE SizeOf(b)
    BY DEF Size, b
  <2>3. FirstOf(b) \in 0..(R - 1) /\ SizeOf(b) \in 1..(R - FirstOf(b))
    BY <1>2, PartsFacts
  <2>. HIDE DEF from, size
  <2>. QED BY <1>1, <2>1, <2>2, <2>3
<1>4. /\ chunk \in [1..R -> Rows]
      /\ \A j \in 1..R : chunk[j] = RowAt(r, j)
  <2>. DEFINE f == (r - 1) * R
  <2>1. \A j \in 1..R : RowAt(r, j) = order[f + j] /\ RowAt(r, j) \in Rows
    BY RowAtFacts DEF RowAt
  <2>2. chunk = SubSeq(order, f + 1, r * R)
    BY DEF Chunk
  <2>3. f \in Int /\ r * R = f + R /\ R \in Nat /\ r * R \in Int
    BY <1>1
  <2>4. \A j \in 1..R : order[f + j] \in Rows
    BY <2>1
  <2>. DEFINE l == r * R
  <2>. HIDE DEF f, chunk, l, R
  <2>5. /\ SubSeq(order, f + 1, l) \in [1..R -> Rows]
        /\ \A i \in 1..R : SubSeq(order, f + 1, l)[i] = order[f + i]
    <3>1. f \in Int /\ l = f + R /\ R \in Nat /\ l \in Int
      BY <2>3 DEF l
    <3>. QED BY ONLY <2>4, <3>1, Subsequence
  <2>6. chunk = SubSeq(order, f + 1, l)
    BY <2>2 DEF l
  <2>. QED BY <2>1, <2>5, <2>6
<1>5. CASE phase = "log_prob"
  <2>1. Piece(r) = chunk /\ from = 0 /\ size = R
    BY <1>5 DEF Piece, First, Size
  <2>. HIDE DEF from, size, chunk
  <2>2. \A j \in 1..R : from + j = j
    BY <2>1
  <2>. QED BY <1>1, <1>3, <1>4, <2>1, <2>2 DEF from, size
<1>6. CASE phase # "log_prob"
  <2>1. from = b * MiniBatch /\ size = IF from + MiniBatch < R THEN MiniBatch ELSE R - from
    BY <1>6 DEF First, FirstOf, Size, SizeOf, b
  <2>2. Piece(r) = SubSeq(chunk, from + 1, IF from + MiniBatch < R THEN from + MiniBatch ELSE R)
    <3>1. b = (turn[r] - 1) % CeilDiv(R, MiniBatch)
      BY DEF b, Parts
    <3>. QED BY <1>6, <2>1, <3>1 DEF Piece, MiniBatchOf
  <2>0. R \in Nat
    BY Constants
  <2>. HIDE DEF from, size, chunk, R
  <2>3. (IF from + MiniBatch < R THEN from + MiniBatch ELSE R) = from + size
    BY <1>1, <1>3, <2>1, Constants
  <2>4. \A j \in 1..size : from + j \in 1..R
    BY <1>1, <1>3
  <2>5. \A j \in 1..size : chunk[from + j] \in Rows
    BY <1>4, <2>4
  <2>. DEFINE l == from + size
  <2>6. /\ SubSeq(chunk, from + 1, l) \in [1..size -> Rows]
        /\ \A i \in 1..size : SubSeq(chunk, from + 1, l)[i] = chunk[from + i]
    <3>1. from \in Int /\ size \in Nat /\ l \in Int /\ l = from + size
      BY ONLY <1>3, <2>0 DEF l
    <3>. HIDE DEF l
    <3>2. ASSUME NEW s, NEW f \in Int, NEW n \in Nat, NEW u \in Int, u = f + n,
                 \A i \in 1..n : s[f + i] \in Rows
          PROVE  /\ SubSeq(s, f + 1, u) \in [1..n -> Rows]
                 /\ \A i \in 1..n : SubSeq(s, f + 1, u)[i] = s[f + i]
      BY ONLY <3>2, Subsequence
    <3>. QED BY ONLY <2>5, <3>1, <3>2
  <2>7. Piece(r) = SubSeq(chunk, from + 1, l)
    BY <2>2, <2>3
  <2>. HIDE DEF l
  <2>8. /\ Piece(r) \in [1..size -> Rows]
        /\ \A j \in 1..size : from + j \in 1..R /\ Piece(r)[j] = RowAt(r, from + j)
    BY <1>4, <2>4, <2>6, <2>7
  <2>. QED BY <1>3, <2>8 DEF from, size, R
<1>. QED BY <1>5, <1>6

-------------------------------------------------------------------------------
(* What is before a rank and behind it. *)

\* The positions 1 to n are those behind, in ix, and those before, in ms, each once.
Splits(ms, ix, n) ==
  /\ ms \in Seq(Seq(1..n)) /\ ix \in Seq(1..n)
  /\ \A p, q \in DOMAIN ix : ix[p] = ix[q] => p = q
  /\ \A i \in DOMAIN ms : \A p, q \in DOMAIN ms[i] : ms[i][p] = ms[i][q] => p = q
  /\ \A i, j \in DOMAIN ms : \A p \in DOMAIN ms[i], q \in DOMAIN ms[j] :
       ms[i][p] = ms[j][q] => i = j
  /\ \A i \in DOMAIN ms : \A p \in DOMAIN ms[i], q \in DOMAIN ix : ms[i][p] # ix[q]
  /\ \A x \in 1..n : \/ \E p \in DOMAIN ix : ix[p] = x
                     \/ \E i \in DOMAIN ms : \E p \in DOMAIN ms[i] : ms[i][p] = x

\* So it is when nothing is done yet.
LEMMA SharedSplits ==
  ASSUME NEW n \in Nat, NEW k \in Nat, NEW ms, Shared(ms, n, k)
  PROVE  Splits(ms, << >>, n) /\ Len(ms) = k
<1>1. PICK parts : Partition(parts, n, k) /\ \A i \in 1..k : Lists(ms[i], parts[i])
  BY DEF Shared
<1>2. ms \in [1..k -> Seq(1..n)] /\ ms \in Seq(Seq(1..n)) /\ DOMAIN ms = 1..k /\ Len(ms) = k
  BY DEF Shared
<1>3. \A i \in 1..k : ms[i] \in Seq(parts[i])
                      /\ \A p, q \in DOMAIN ms[i] : ms[i][p] = ms[i][q] => p = q
  BY <1>1 DEF Lists
<1>4. \A i \in 1..k : \A p \in DOMAIN ms[i] : ms[i][p] \in parts[i]
  <2>. SUFFICES ASSUME NEW i \in 1..k, NEW p \in DOMAIN ms[i] PROVE ms[i][p] \in parts[i]
    OBVIOUS
  <2>. DEFINE s == ms[i]
              S == parts[i]
  <2>1. s \in Seq(S) /\ p \in DOMAIN s
    BY <1>3
  <2>. HIDE DEF s, S
  <2>2. s[p] \in S
    BY <2>1
  <2>. QED BY <2>2 DEF s, S
<1>5. \A i, j \in 1..k : i # j => parts[i] \cap parts[j] = {}
  BY <1>1 DEF Partition
<1>6. \A i, j \in DOMAIN ms : \A p \in DOMAIN ms[i], q \in DOMAIN ms[j] :
        ms[i][p] = ms[j][q] => i = j
  <2>. SUFFICES ASSUME NEW i \in 1..k, NEW j \in 1..k,
                       NEW p \in DOMAIN ms[i], NEW q \in DOMAIN ms[j], ms[i][p] = ms[j][q]
                PROVE  i = j
    BY <1>2
  <2>1. ms[i][p] \in parts[i] /\ ms[i][p] \in parts[j]
    BY <1>4
  <2>. QED BY <1>5, <2>1
<1>7. \A x \in 1..n : \E i \in DOMAIN ms : \E p \in DOMAIN ms[i] : ms[i][p] = x
  <2>. SUFFICES ASSUME NEW x \in 1..n
                PROVE  \E i \in DOMAIN ms : \E p \in DOMAIN ms[i] : ms[i][p] = x
    OBVIOUS
  <2>1. PICK i \in 1..k : x \in parts[i]
    BY <1>1 DEF Partition
  <2>2. \E p \in DOMAIN ms[i] : ms[i][p] = x
    BY <1>1, <2>1 DEF Lists
  <2>. QED BY <1>2, <2>2
<1>8. << >> \in Seq(1..n) /\ DOMAIN << >> = {}
  OBVIOUS
<1>. QED BY <1>2, <1>3, <1>6, <1>7, <1>8 DEF Splits

\* So it stays when the next micro-batch is computed.
LEMMA SplitsStep ==
  ASSUME NEW n \in Nat, NEW ms, NEW ix, Splits(ms, ix, n), ms # << >>
  PROVE  Splits(Tail(ms), ix \o Head(ms), n) /\ Len(Tail(ms)) = Len(ms) - 1
<1>. DEFINE h == Head(ms)
            t == Tail(ms)
            a == Len(ix)
            b == Len(h)
            m == Len(ms) - 1
            u == ix \o h
<1>1. ms \in Seq(Seq(1..n)) /\ ix \in Seq(1..n)
  BY DEF Splits
<1>2. /\ h = ms[1] /\ 1 \in DOMAIN ms /\ h \in Seq(1..n) /\ Len(ms) \in Nat
      /\ m \in Nat /\ DOMAIN ms = 1..(m + 1)
  BY <1>1
<1>3. t \in Seq(Seq(1..n)) /\ Len(t) = m /\ DOMAIN t = 1..m /\ \A i \in 1..m : t[i] = ms[i + 1]
  BY <1>1
<1>4. a \in Nat /\ b \in Nat /\ DOMAIN ix = 1..a /\ DOMAIN h = 1..b
  BY <1>1, <1>2
<1>5. u \in Seq(1..n)
  BY <1>1, <1>2
<1>. HIDE DEF h, t, m
<1>6. /\ DOMAIN u = 1..(a + b)
      /\ \A p \in 1..(a + b) : u[p] = IF p <= a THEN ix[p] ELSE h[p - a]
  <2>1. Len(ix) = a /\ Len(h) = b
    OBVIOUS
  <2>. DEFINE V == 1..n
  <2>2. ix \in Seq(V) /\ h \in Seq(V) /\ a \in Nat /\ b \in Nat
    BY <1>1, <1>2, <1>4
  <2>. HIDE DEF a, b, V
  <2>3. u = [p \in 1..(a + b) |-> IF p <= a THEN ix[p] ELSE h[p - a]]
    BY ONLY <2>1, <2>2, Concatenation
  <2>. HIDE DEF u
  <2>. QED BY <2>3
<1>. HIDE DEF a, b, u
<1>7. \A p \in 1..(a + b) : (p <= a => p \in 1..a) /\ (~(p <= a) => p - a \in 1..b)
  BY <1>4
<1>8. /\ \A p, q \in 1..a : ix[p] = ix[q] => p = q
      /\ \A p, q \in 1..b : h[p] = h[q] => p = q
      /\ \A p \in 1..b, q \in 1..a : h[p] # ix[q]
  <2>1. \A p, q \in 1..a : ix[p] = ix[q] => p = q
    BY <1>4 DEF Splits
  <2>2. \A p, q \in DOMAIN ms[1] : ms[1][p] = ms[1][q] => p = q
    BY <1>2 DEF Splits
  <2>3. \A p \in DOMAIN ms[1], q \in DOMAIN ix : ms[1][p] # ix[q]
    BY <1>2 DEF Splits
  <2>. QED BY <1>2, <1>4, <2>1, <2>2, <2>3
<1>9. \A p, q \in DOMAIN u : u[p] = u[q] => p = q
  <2>. SUFFICES ASSUME NEW p \in 1..(a + b), NEW q \in 1..(a + b), u[p] = u[q] PROVE p = q
    BY <1>6
  <2>1. CASE p <= a /\ q <= a
    BY <1>6, <1>7, <1>8, <2>1
  <2>2. CASE ~(p <= a) /\ ~(q <= a)
    <3>1. p - a \in 1..b /\ q - a \in 1..b /\ h[p - a] = h[q - a]
      BY <1>6, <1>7, <2>2
    <3>2. p - a = q - a
      BY <1>8, <3>1
    <3>. QED BY <1>4, <3>2
  <2>3. CASE p <= a /\ ~(q <= a)
    BY <1>6, <1>7, <1>8, <2>3
  <2>4. CASE ~(p <= a) /\ q <= a
    BY <1>6, <1>7, <1>8, <2>4
  <2>. QED BY <2>1, <2>2, <2>3, <2>4
<1>10. \A i \in 1..m : i + 1 \in DOMAIN ms /\ i + 1 # 1
  BY <1>2
<1>11. \A i \in DOMAIN t : \A p, q \in DOMAIN t[i] : t[i][p] = t[i][q] => p = q
  BY <1>3, <1>10 DEF Splits
<1>12. \A i, j \in DOMAIN t : \A p \in DOMAIN t[i], q \in DOMAIN t[j] :
         t[i][p] = t[j][q] => i = j
  <2>. SUFFICES ASSUME NEW i \in 1..m, NEW j \in 1..m,
                       NEW p \in DOMAIN t[i], NEW q \in DOMAIN t[j], t[i][p] = t[j][q]
                PROVE  i = j
    BY <1>3
  <2>1. t[i] = ms[i + 1] /\ t[j] = ms[j + 1] /\ i + 1 \in DOMAIN ms /\ j + 1 \in DOMAIN ms
    BY <1>3, <1>10
  <2>2. i + 1 = j + 1
    BY <2>1 DEF Splits
  <2>. QED BY <2>2
<1>13. \A i \in DOMAIN t : \A p \in DOMAIN t[i], q \in DOMAIN u : t[i][p] # u[q]
  <2>. SUFFICES ASSUME NEW i \in 1..m, NEW p \in DOMAIN t[i], NEW q \in 1..(a + b),
                       t[i][p] = u[q]
                PROVE  FALSE
    BY <1>3, <1>6
  <2>1. t[i] = ms[i + 1] /\ i + 1 \in DOMAIN ms /\ i + 1 # 1
    BY <1>3, <1>10
  <2>2. CASE q <= a
    <3>1. q \in DOMAIN ix /\ u[q] = ix[q]
      BY <1>4, <1>6, <1>7, <2>2
    <3>. QED BY <2>1, <3>1 DEF Splits
  <2>3. CASE ~(q <= a)
    <3>1. q - a \in DOMAIN ms[1] /\ u[q] = ms[1][q - a]
      BY <1>2, <1>4, <1>6, <1>7, <2>3
    <3>2. \A j \in DOMAIN ms : \A v \in DOMAIN ms[j], z \in DOMAIN ms[1] :
            ms[j][v] = ms[1][z] => j = 1
      BY <1>2 DEF Splits
    <3>3. i + 1 = 1
      BY <2>1, <3>1, <3>2
    <3>. QED BY <2>1, <3>3
  <2>. QED BY <2>2, <2>3
<1>14. ASSUME NEW x \in 1..n
       PROVE  \/ \E p \in DOMAIN u : u[p] = x
              \/ \E i \in DOMAIN t : \E p \in DOMAIN t[i] : t[i][p] = x
  <2>1. CASE \E p \in DOMAIN ix : ix[p] = x
    <3>1. PICK p \in 1..a : ix[p] = x
      BY <1>4, <2>1
    <3>2. p \in 1..(a + b) /\ p <= a
      BY <1>4
    <3>. QED BY <1>6, <3>1, <3>2
  <2>2. ASSUME NEW i \in DOMAIN ms, NEW p \in DOMAIN ms[i], ms[i][p] = x
        PROVE  \/ \E q \in DOMAIN u : u[q] = x
               \/ \E j \in DOMAIN t : \E q \in DOMAIN t[j] : t[j][q] = x
    <3>1. CASE i = 1
      <4>1. p \in 1..b /\ h[p] = x
        BY <1>2, <1>4, <2>2, <3>1
      <4>. DEFINE y == a + p
      <4>2. p \in Nat /\ 1 <= p /\ p <= b
        BY <1>4, <4>1
      <4>3. y \in 1..(a + b) /\ ~(y <= a) /\ y - a = p
        BY <1>4, <4>2
      <4>. HIDE DEF y
      <4>4. u[y] = x
        BY <1>6, <4>1, <4>3
      <4>. QED BY <1>6, <4>3, <4>4
    <3>2. CASE i # 1
      <4>. DEFINE j == i - 1
      <4>1. j \in 1..m /\ j + 1 = i
        BY <1>2, <3>2
      <4>. HIDE DEF j
      <4>2. t[j] = ms[i]
        BY <1>3, <4>1
      <4>. QED BY <1>3, <2>2, <4>1, <4>2
    <3>. QED BY <3>1, <3>2
  <2>. QED BY <2>1, <2>2 DEF Splits
<1>15. Splits(t, u, n)
  BY <1>3, <1>5, <1>9, <1>11, <1>12, <1>13, <1>14 DEF Splits
<1>16. Len(t) = Len(ms) - 1
  BY <1>3 DEF m
<1>. QED BY <1>15, <1>16 DEF t, u, h

\* When nothing is left, the positions have been put into another order.
LEMMA SplitsDone ==
  ASSUME NEW n \in Nat, NEW ix, Splits(<< >>, ix, n)
  PROVE  Permutes(ix, n)
<1>. DEFINE a == Len(ix)
<1>1. ix \in Seq(1..n) /\ a \in Nat /\ ix \in [1..a -> 1..n] /\ DOMAIN ix = 1..a
  BY DEF Splits
<1>2. \A p, q \in 1..a : ix[p] = ix[q] => p = q
  BY <1>1 DEF Splits
<1>3. \A x \in 1..n : \E p \in 1..a : ix[p] = x
  BY <1>1 DEF Splits
<1>. HIDE DEF a
<1>4. ix \in Injection(1..a, 1..n) /\ ix \in Surjection(1..a, 1..n)
  BY <1>1, <1>2, <1>3 DEF Injection, IsInjective, Surjection
<1>5. IsFiniteSet(1..n) /\ Cardinality(1..n) = n /\ Cardinality(1..a) = a
  BY <1>1, Interval
<1>6. a = n
  BY <1>4, <1>5, FS_Injection
<1>. QED BY <1>1, <1>2, <1>3, <1>6 DEF Permutes

\* The inverse of the order puts rows back.
LEMMA RestoredFacts ==
  ASSUME NEW n \in Nat, NEW ix, Permutes(ix, n), NEW P, NEW out,
         out = [i \in 1..n |-> P[ix[i]]]
  PROVE  [i \in DOMAIN out |-> out[ReverseIdx(ix)[i]]] = [i \in 1..n |-> P[i]]
<1>1. /\ ix \in [1..n -> 1..n] /\ DOMAIN ix = 1..n
      /\ \A x \in 1..n : \E p \in 1..n : ix[p] = x
  BY DEF Permutes
<1>2. Range(ix) = 1..n
  BY <1>1 DEF Range
<1>3. ASSUME NEW x \in 1..n
      PROVE  ReverseIdx(ix)[x] \in 1..n /\ ix[ReverseIdx(ix)[x]] = x
  <2>1. ReverseIdx(ix)[x] = CHOOSE i \in 1..n : ix[i] = x
    BY <1>1, <1>2 DEF ReverseIdx
  <2>. QED BY <1>1, <2>1
<1>4. \A x \in 1..n : out[ReverseIdx(ix)[x]] = P[x]
  BY <1>3
<1>5. DOMAIN out = 1..n
  OBVIOUS
<1>. QED BY <1>4, <1>5

-------------------------------------------------------------------------------
(* Types, and what the ranks have before them, behind them and done. *)

\* The driver's phases, and the turns of the ranks in them.
Stages ==
  /\ \A r, s \in RankIds : turn[r] = turn[s]
  /\ phase = "balance" => /\ old = << >> /\ \A r \in RankIds : pc[r] = "idle"
                          /\ \A i \in Rows : credit[i] = 0
  /\ phase = "log_prob" => \A r \in RankIds : turn[r] = 1 /\ pc[r] # "step"
  /\ phase = "update" => \A r \in RankIds : /\ turn[r] # 0
                                            /\ pc[r] = "idle" <=> turn[r] = Turns + 1
  /\ phase = "done" => \A r \in RankIds : pc[r] = "idle" /\ turn[r] = Turns + 1

\* A piece is not split into more micro-batches than it has rows.
CountsFit == \A r \in RankIds : pc[r] = "reduce" => count[r] \in 1..Size(turn[r])

\* What a rank has before it and behind it are the rows of its piece.
Working(r) == pc[r] \in {"forward", "step"} \/ (phase = "log_prob" /\ pc[r] = "idle")
WorkAddsUp ==
  \A r \in RankIds : Working(r) =>
    /\ Splits(micro[r], index[r], Size(turn[r]))
    /\ output[r] = RowsOf(r, index[r])
    /\ pc[r] # "forward" => micro[r] = << >>

\* A row has been in the optimizer steps of the turns with its mini-batch.
TurnsAreCredited ==
  phase # "balance" => \A r \in RankIds, j \in 1..RowsPerRank :
    credit[RowAt(r, j)] = Trained(turn[r] - 1, (j - 1) \div MiniBatch)

Inv ==
  /\ TypeOK /\ Stages /\ CountsFit /\ WorkAddsUp /\ TurnsAreCredited
  /\ ForwardsMatch /\ LogProbsComeBack

LEMMA SamePieces ==
  ASSUME UNCHANGED <<phase, order, turn>>
  PROVE  /\ \A t : First(t)' = First(t) /\ Size(t)' = Size(t)
         /\ \A r : Piece(r)' = Piece(r)
         /\ \A r, j : RowAt(r, j)' = RowAt(r, j)
         /\ \A r, s : RowsOf(r, s)' = RowsOf(r, s)
<1>1. \A r : Piece(r)' = Piece(r)
  BY DEF Piece, MiniBatchOf, Chunk
<1>. QED BY <1>1 DEF First, Size, RowAt, RowsOf

\* From the dispatch on, every rank has a piece of the batch.
LEMMA PiecesAre ==
  ASSUME TypeOK, NEW r \in RankIds, turn[r] # 0
  PROVE  /\ turn[r] \in Nat \ {0}
         /\ First(turn[r]) \in 0..(RowsPerRank - 1)
         /\ Size(turn[r]) \in 1..(RowsPerRank - First(turn[r]))
         /\ Size(turn[r]) \in 1..RowsPerRank
         /\ Piece(r) \in [1..Size(turn[r]) -> Rows]
         /\ \A j \in 1..Size(turn[r]) : /\ First(turn[r]) + j \in 1..RowsPerRank
                                        /\ Piece(r)[j] = RowAt(r, First(turn[r]) + j)
<1>1. turn[r] \in Nat \ {0}
  BY TrainedFacts DEF TypeOK
<1>2. order \in [Rows -> Rows] /\ \A x, y \in Rows : order[x] = order[y] => x = y
  BY DEF TypeOK, IsInjective
<1>3. /\ First(turn[r]) \in 0..(RowsPerRank - 1)
      /\ Size(turn[r]) \in 1..(RowsPerRank - First(turn[r]))
      /\ Piece(r) \in [1..Size(turn[r]) -> Rows]
      /\ \A j \in 1..Size(turn[r]) : /\ First(turn[r]) + j \in 1..RowsPerRank
                                     /\ Piece(r)[j] = RowAt(r, First(turn[r]) + j)
  BY <1>1, <1>2, PieceFacts
<1>4. Size(turn[r]) \in 1..RowsPerRank
  <2>. DEFINE f == First(turn[r])
              n == Size(turn[r])
  <2>1. f \in 0..(RowsPerRank - 1) /\ n \in 1..(RowsPerRank - f) /\ RowsPerRank \in Nat
    BY <1>3, Constants
  <2>. HIDE DEF f, n
  <2>2. n \in 1..RowsPerRank
    BY ONLY <2>1
  <2>. QED BY <2>2 DEF n
<1>. QED BY <1>1, <1>3, <1>4

LEMMA PieceLensAre ==
  ASSUME TypeOK, NEW r \in RankIds, turn[r] # 0
  PROVE  PieceLens(r) \in [1..Size(turn[r]) -> Nat \ {0}]
<1>1. Piece(r) \in [1..Size(turn[r]) -> Rows]
  BY PiecesAre
<1>2. \A i \in Rows : lens[i] \in Nat \ {0}
  BY Constants DEF TypeOK
<1>. QED BY <1>1, <1>2 DEF PieceLens

\* The work of the longest row of a piece.
Heaviest(r) == Max({Workloads(lens)[i] : i \in Range(Piece(r))})

LEMMA HeaviestIs ==
  ASSUME TypeOK, NEW r \in RankIds, turn[r] # 0
  PROVE  /\ Heaviest(r) \in Nat
         /\ \A i \in 1..Size(turn[r]) :
              /\ Workloads(PieceLens(r))[i] = Workloads(lens)[Piece(r)[i]]
              /\ Workloads(PieceLens(r))[i] \in Nat
              /\ Workloads(PieceLens(r))[i] <= Heaviest(r)
<1>. DEFINE n == Size(turn[r])
            P == Piece(r)
            w == Workloads(lens)
            v == Workloads(PieceLens(r))
            S == {w[i] : i \in Range(P)}
<1>1. n \in 1..RowsPerRank /\ P \in [1..n -> Rows]
  BY PiecesAre
<1>2. w \in [Rows -> Nat \ {0}]
  BY GapIs DEF TypeOK
<1>3. \A i \in 1..n : v[i] = w[P[i]]
  <2>1. lens \in [Rows -> Lengths]
    BY DEF TypeOK
  <2>2. \A i \in 1..n : P[i] \in Rows
    BY <1>1
  <2>. HIDE DEF n
  <2>. QED BY <1>1, <2>1, <2>2 DEF Workloads, PieceLens, P
<1>. HIDE DEF n, P, w, v
<1>4. n \in Nat /\ 1 \in 1..n
  BY <1>1, Constants
<1>5. S \in SUBSET Nat /\ S # {} /\ IsFiniteSet(S) /\ \A i \in 1..n : w[P[i]] \in S
  <2>. DEFINE g == [i \in 1..n |-> w[P[i]]]
  <2>1. g \in Surjection(1..n, S)
    BY <1>1 DEF Surjection, Range
  <2>2. IsFiniteSet(1..n)
    BY <1>4, Interval
  <2>3. IsFiniteSet(S)
    <3>. HIDE DEF g, S
    <3>. QED BY <2>1, <2>2, FS_Surjection
  <2>. QED BY <1>1, <1>2, <1>4, <2>3 DEF Range
<1>. HIDE DEF S
<1>6. Max(S) \in Nat /\ \A x \in S : x \in Nat /\ x <= Max(S)
  BY <1>5, MaxAndMin
<1>7. Heaviest(r) = Max(S)
  BY DEF Heaviest, S, w, P
<1>. QED BY <1>3, <1>5, <1>6, <1>7 DEF n, P, w, v

\* As many micro-batches as the tokens need, but one at least and no more than rows.
LEMMA CountIs ==
  ASSUME TypeOK, NEW r \in RankIds, turn[r] # 0
  PROVE  LET total == SumOver(PieceLens(r), DOMAIN PieceLens(r)) IN
         Min({Len(Piece(r)), CeilDiv(total, MaxTokenLen)}) \in 1..Size(turn[r])
<1>. DEFINE n == Size(turn[r])
            p == PieceLens(r)
            total == SumOver(p, DOMAIN p)
            c == CeilDiv(total, MaxTokenLen)
<1>1. n \in Nat \ {0} /\ p \in [1..n -> Nat \ {0}] /\ Len(Piece(r)) = n
  <2>1. n \in 1..RowsPerRank /\ Piece(r) \in [1..n -> Rows]
    BY PiecesAre
  <2>2. p \in [1..n -> Nat \ {0}]
    BY PieceLensAre
  <2>. HIDE DEF n, p
  <2>. QED BY <2>1, <2>2, Constants
<1>. HIDE DEF n, p
<1>2. total \in Nat /\ total > 0
  <2>. DEFINE S == 1..n
  <2>1. IsFiniteSet(S) /\ S # {}
    <3>1. n \in Nat /\ 1 \in S
      BY <1>1
    <3>. QED BY <3>1, Interval
  <2>2. \A x \in S : p[x] \in Nat /\ p[x] > 0
    BY <1>1
  <2>3. DOMAIN p = S
    BY <1>1
  <2>. HIDE DEF S
  <2>4. SumOver(p, S) \in Nat /\ SumOver(p, S) > 0
    BY <2>1, <2>2, SumIsPositive
  <2>. QED BY <2>3, <2>4
<1>3. MaxTokenLen \in Nat \ {0}
  <2>1. PICK l \in Lengths : TRUE
    BY BatchAssumption
  <2>2. l \in Nat \ {0} /\ l <= MaxTokenLen /\ MaxTokenLen \in Nat
    BY Constants
  <2>. QED BY ONLY <2>2
<1>. HIDE DEF total
<1>4. c \in Nat \ {0}
  <2>. DEFINE M == MaxTokenLen
              x == total + M - 1
  <2>1. c = x \div M
    BY DEF CeilDiv
  <2>2. x \in Nat /\ x >= M /\ M \in Nat \ {0}
    BY <1>2, <1>3
  <2>. HIDE DEF c, x, M
  <2>3. x \div M \in Nat /\ x < (x \div M) * M + M
    BY <2>2
  <2>4. x \div M # 0
    <3>1. x \div M = 0 => (x \div M) * M = 0
      BY <2>2
    <3>. QED BY <2>2, <2>3, <3>1
  <2>. QED BY <2>1, <2>3, <2>4
<1>. HIDE DEF c
<1>5. Min({n, c}) \in 1..n
  <2>. DEFINE m == IF n <= c THEN n ELSE c
  <2>1. m \in {n, c} /\ \A y \in {n, c} : m <= y
    BY <1>1, <1>4
  <2>2. Min({n, c}) \in {n, c} /\ \A y \in {n, c} : Min({n, c}) <= y
    BY <2>1 DEF Min
  <2>. QED BY <1>1, <1>4, <2>2
<1>. QED BY <1>1, <1>5 DEF n, p, c, total

\* The largest of the numbers is one of them.
LEMMA AgreedIs ==
  ASSUME TypeOK, NEW n, \A r \in RankIds : count[r] \in 1..n
  PROVE  \A r \in RankIds : AgreedCount(r) \in 1..n
<1>1. IsFiniteSet(RankIds) /\ RankIds # {}
  <2>1. Ranks \in Nat \ {0}
    BY Constants
  <2>2. 1 \in RankIds
    BY <2>1 DEF RankIds
  <2>. QED BY <2>1, <2>2, Interval DEF RankIds
<1>2. count \in [RankIds -> Nat]
  BY DEF TypeOK
<1>3. PICK r \in RankIds : \A s \in RankIds : count[s] <= count[r]
  BY <1>1, <1>2, LargestBy
<1>4. count[r] \in Range(count) /\ \A x \in Range(count) : count[r] >= x
  BY <1>2, <1>3 DEF Range
<1>5. Max(Range(count)) \in Range(count)
  BY <1>4 DEF Max
<1>6. Max(Range(count)) \in 1..n
  BY <1>2, <1>5 DEF Range
<1>. QED BY <1>6 DEF AgreedCount

-------------------------------------------------------------------------------
(* The invariant: the first state, and the driver's steps. *)

LEMMA RanksExist == 1 \in RankIds
BY Constants DEF RankIds

LEMMA InitInv == Init => Inv
<1>. SUFFICES ASSUME Init PROVE Inv
  OBVIOUS
<1>. USE DEF Init
<1>1. Turns \in Nat \ {0} /\ Epochs \in Nat /\ RowsPerRank \in Nat
  BY TrainedFacts, Constants
<1>2. TypeOK
  <2>1. 0 \in 0..(Turns + 1) /\ 0 \in 0..RowsPerRank /\ 0 \in 0..Epochs
    BY <1>1
  <2>2. IsInjective(order)
    BY DEF IsInjective
  <2>3. /\ << >> \in Seq(Seq(1..RowsPerRank)) /\ << >> \in Seq(1..RowsPerRank)
        /\ << >> \in Seq(Rows)
    OBVIOUS
  <2>. QED BY <2>1, <2>2, <2>3 DEF TypeOK
<1>3. Stages
  BY DEF Stages
<1>4. CountsFit
  BY DEF CountsFit
<1>5. WorkAddsUp
  BY DEF WorkAddsUp, Working
<1>6. TurnsAreCredited
  BY DEF TurnsAreCredited
<1>7. ForwardsMatch
  BY DEF ForwardsMatch
<1>8. LogProbsComeBack
  BY DEF LogProbsComeBack
<1>. QED BY <1>2, <1>3, <1>4, <1>5, <1>6, <1>7, <1>8 DEF Inv

LEMMA BalanceStep == Inv /\ BalanceBatch => Inv'
<1>. SUFFICES ASSUME Inv, BalanceBatch PROVE Inv'
  OBVIOUS
<1>. USE DEF BalanceBatch, Dispatch
<1>0. TypeOK /\ Stages /\ ForwardsMatch
  BY DEF Inv
<1>1. Turns \in Nat \ {0}
  BY TrainedFacts
<1>2. order' \in [Rows -> Rows] /\ \A x, y \in Rows : order'[x] = order'[y] => x = y
  BY <1>0, GapIs, BalancedOrderFacts DEF TypeOK
<1>3. TypeOK'
  <2>1. 1 \in 0..(Turns + 1)
    BY <1>1
  <2>2. IsInjective(order')
    BY <1>2 DEF IsInjective
  <2>. QED BY <1>0, <1>2, <2>1, <2>2 DEF TypeOK
<1>4. Stages'
  BY DEF Stages
<1>5. CountsFit'
  BY DEF CountsFit
<1>6. WorkAddsUp'
  BY DEF WorkAddsUp, Working
<1>7. TurnsAreCredited'
  <2>. SUFFICES ASSUME NEW r \in RankIds, NEW j \in 1..RowsPerRank
                PROVE  credit'[RowAt(r, j)'] = Trained(turn'[r] - 1, (j - 1) \div MiniBatch)
    BY DEF TurnsAreCredited
  <2>1. RowAt(r, j)' \in Rows
    <3>1. (r - 1) * RowsPerRank + j \in Rows
      BY RowPlaces
    <3>. QED BY <1>2, <3>1 DEF RowAt
  <2>2. credit'[RowAt(r, j)'] = 0
    BY <1>0, <2>1 DEF Stages
  <2>3. turn'[r] - 1 = 0
    OBVIOUS
  <2>4. Trained(0, (j - 1) \div MiniBatch) = 0
    BY PartsFacts, TrainedFacts
  <2>. QED BY <2>2, <2>3, <2>4
<1>8. ForwardsMatch'
  BY <1>0 DEF ForwardsMatch
<1>9. LogProbsComeBack'
  BY <1>0 DEF LogProbsComeBack, Stages
<1>. QED BY <1>3, <1>4, <1>5, <1>6, <1>7, <1>8, <1>9 DEF Inv

\* The chunk of a rank, restored: the order in which it was computed is undone.
LEMMA RestoredIs ==
  ASSUME Inv, phase = "log_prob", NEW r \in RankIds, pc[r] = "idle"
  PROVE  RestoredOutput(r) = [j \in 1..RowsPerRank |-> RowAt(r, j)]
<1>0. TypeOK /\ Stages /\ WorkAddsUp
  BY DEF Inv
<1>1. turn[r] = 1 /\ Size(turn[r]) = RowsPerRank /\ First(turn[r]) = 0
  BY <1>0 DEF Stages, Size, First
<1>2. /\ Splits(micro[r], index[r], RowsPerRank) /\ micro[r] = << >>
      /\ output[r] = RowsOf(r, index[r])
  BY <1>0, <1>1 DEF WorkAddsUp, Working
<1>3. RowsPerRank \in Nat
  BY Constants
<1>4. Permutes(index[r], RowsPerRank)
  BY <1>2, <1>3, SplitsDone
<1>5. output[r] = [i \in 1..RowsPerRank |-> Piece(r)[index[r][i]]]
  <2>1. DOMAIN index[r] = 1..RowsPerRank
    BY <1>4 DEF Permutes
  <2>. QED BY <1>2, <2>1 DEF RowsOf
<1>6. RestoredOutput(r) = [j \in 1..RowsPerRank |-> Piece(r)[j]]
  <2>. DEFINE ix == index[r]
              out == output[r]
              P == Piece(r)
              n == RowsPerRank
  <2>1. Permutes(ix, n) /\ out = [i \in 1..n |-> P[ix[i]]] /\ n \in Nat
    BY <1>3, <1>4, <1>5
  <2>2. RestoredOutput(r) = [i \in DOMAIN out |-> out[ReverseIdx(ix)[i]]]
    BY DEF RestoredOutput
  <2>. HIDE DEF ix, out, P, n
  <2>3. [i \in DOMAIN out |-> out[ReverseIdx(ix)[i]]] = [i \in 1..n |-> P[i]]
    BY ONLY <2>1, RestoredFacts
  <2>. QED BY <2>2, <2>3 DEF n, P
<1>7. \A j \in 1..RowsPerRank : Piece(r)[j] = RowAt(r, 0 + j)
  BY <1>0, <1>1, PiecesAre
<1>8. \A j \in 1..RowsPerRank : 0 + j = j
  OBVIOUS
<1>. QED BY <1>6, <1>7, <1>8

LEMMA GatherStep == Inv /\ GatherLogProbs => Inv'
<1>. SUFFICES ASSUME Inv, GatherLogProbs PROVE Inv'
  OBVIOUS
<1>. USE DEF GatherLogProbs, Dispatch
<1>0. TypeOK /\ Stages /\ ForwardsMatch /\ TurnsAreCredited
  BY DEF Inv
<1>1. Turns \in Nat \ {0}
  BY TrainedFacts
<1>2. order \in [Rows -> Rows] /\ \A x, y \in Rows : order[x] = order[y] => x = y
  BY <1>0 DEF TypeOK, IsInjective
<1>3. old' = order
  <2>. DEFINE c == [r \in RankIds |-> RestoredOutput(r)]
              J == Joined(c, Ranks, RowsPerRank)
  <2>1. \A r \in RankIds : c[r] = [j \in 1..RowsPerRank |-> RowAt(r, j)]
    BY RestoredIs DEF AllIdle
  <2>2. /\ Ranks \in Nat \ {0} /\ RowsPerRank \in Nat \ {0} /\ RankIds = 1..Ranks
        /\ Rows = 1..(Ranks * RowsPerRank)
    BY Constants DEF RankIds, Rows
  <2>3. c \in [1..Ranks -> [1..RowsPerRank -> Rows]]
    <3>1. \A r \in RankIds : c[r] \in [1..RowsPerRank -> Rows]
      BY <1>2, <2>1, RowAtFacts
    <3>2. c = [r \in 1..Ranks |-> c[r]]
      BY <2>2
    <3>. HIDE DEF c
    <3>. QED BY <2>2, <3>1, <3>2
  <2>4. old' = FlattenSeq(c)
    OBVIOUS
  <2>. HIDE DEF c
  <2>5. old' = J
    BY <2>2, <2>3, <2>4, FlattenFacts
  <2>6. J \in [Rows -> Rows]
    <3>1. J \in [1..(Ranks * RowsPerRank) -> Rows]
      BY ONLY <2>2, <2>3, JoinedFacts
    <3>. QED BY <2>2, <3>1
  <2>7. ASSUME NEW x \in Rows PROVE J[x] = order[x]
    <3>1. PICK r \in RankIds : \E j \in 1..RowsPerRank : x = (r - 1) * RowsPerRank + j
      BY RowPlaces
    <3>2. PICK j \in 1..RowsPerRank : x = (r - 1) * RowsPerRank + j
      BY <3>1
    <3>. DEFINE o == r - 1
    <3>3. o \in 0..(Ranks - 1) /\ o + 1 = r
      BY <2>2
    <3>4. x = o * RowsPerRank + j
      BY <3>2
    <3>. HIDE DEF o, J
    <3>5. J[o * RowsPerRank + j] = c[o + 1][j]
      BY ONLY <2>2, <3>3, j \in 1..RowsPerRank, JoinedAt DEF J
    <3>6. J[x] = RowAt(r, j)
      BY <2>1, <3>3, <3>4, <3>5
    <3>. QED BY <3>2, <3>6 DEF RowAt
  <2>. HIDE DEF J
  <2>. QED BY <1>2, <2>5, <2>6, <2>7
<1>4. TypeOK'
  <2>1. 1 \in 0..(Turns + 1)
    BY <1>1
  <2>2. IsInjective(order)
    BY <1>0 DEF TypeOK
  <2>. QED BY <1>0, <1>3, <2>1, <2>2 DEF TypeOK
<1>5. Stages'
  <2>1. 1 # Turns + 1
    BY <1>1
  <2>. QED BY <2>1 DEF Stages
<1>6. CountsFit'
  BY DEF CountsFit
<1>7. WorkAddsUp'
  BY DEF WorkAddsUp, Working
<1>8. TurnsAreCredited'
  <2>1. turn' = turn
    BY <1>0 DEF Stages, TypeOK
  <2>. QED BY <1>0, <2>1 DEF TurnsAreCredited, RowAt
<1>9. ForwardsMatch'
  BY <1>0 DEF ForwardsMatch
<1>10. LogProbsComeBack'
  BY <1>3 DEF LogProbsComeBack
<1>. QED BY <1>4, <1>5, <1>6, <1>7, <1>8, <1>9, <1>10 DEF Inv

LEMMA UpdateEndsStep == Inv /\ UpdateEnds => Inv'
<1>. SUFFICES ASSUME Inv, UpdateEnds PROVE Inv'
  OBVIOUS
<1>. USE DEF UpdateEnds
<1>0. /\ TypeOK /\ Stages /\ ForwardsMatch /\ TurnsAreCredited /\ LogProbsComeBack
  BY DEF Inv
<1>1. TypeOK'
  BY <1>0 DEF TypeOK
<1>2. Stages'
  BY <1>0 DEF Stages, AllIdle
<1>3. CountsFit'
  BY DEF CountsFit, AllIdle
<1>4. WorkAddsUp'
  BY DEF WorkAddsUp, Working, AllIdle
<1>5. TurnsAreCredited'
  BY <1>0 DEF TurnsAreCredited, RowAt
<1>6. ForwardsMatch'
  BY <1>0 DEF ForwardsMatch
<1>7. LogProbsComeBack'
  BY <1>0 DEF LogProbsComeBack
<1>. QED BY <1>1, <1>2, <1>3, <1>4, <1>5, <1>6, <1>7 DEF Inv

-------------------------------------------------------------------------------
(* The steps of the ranks. *)

\* A rank that is at work has a piece.
LEMMA AtWork ==
  ASSUME TypeOK, Stages, NEW r \in RankIds, pc[r] # "idle"
  PROVE  /\ phase \in {"log_prob", "update"} /\ \A s \in RankIds : turn[s] # 0
         /\ phase = "update" => \A s \in RankIds : turn[s] # Turns + 1 /\ pc[s] # "idle"
<1>1. phase \in {"log_prob", "update"}
  BY DEF Stages, TypeOK
<1>2. turn[r] # 0
  BY <1>1 DEF Stages
<1>. QED BY <1>1, <1>2 DEF Stages

LEMMA PrepareStep ==
  ASSUME Inv, NEW r \in RankIds, PrepareMicroBatches(r)
  PROVE  Inv'
<1>. USE DEF PrepareMicroBatches
<1>0. /\ TypeOK /\ Stages /\ CountsFit /\ WorkAddsUp /\ ForwardsMatch
      /\ TurnsAreCredited /\ LogProbsComeBack
  BY DEF Inv
<1>. DEFINE c == Min({Len(Piece(r)),
                      CeilDiv(SumOver(PieceLens(r), DOMAIN PieceLens(r)), MaxTokenLen)})
<1>1. /\ turn[r] # 0
      /\ phase \in {"log_prob", "update"}
      /\ phase = "update" => turn[r] # Turns + 1
  BY <1>0, AtWork
<1>2. c \in 1..Size(turn[r]) /\ Size(turn[r]) \in 1..RowsPerRank
  <2>1. c \in 1..Size(turn[r])
    BY <1>0, <1>1, CountIs
  <2>. QED BY <1>0, <1>1, <2>1, PiecesAre
<1>3. count' = [count EXCEPT ![r] = c] /\ pc' = [pc EXCEPT ![r] = "reduce"] /\ pc[r] = "prepare"
  OBVIOUS
<1>4. c \in 0..RowsPerRank
  <2>. HIDE DEF c
  <2>. QED BY <1>2, Constants
<1>5. /\ \A t : Size(t)' = Size(t)
      /\ \A q, s : RowsOf(q, s)' = RowsOf(q, s)
      /\ \A q, j : RowAt(q, j)' = RowAt(q, j)
  BY SamePieces
<1>. HIDE DEF c
<1>6. TypeOK'
  BY <1>0, <1>3, <1>4 DEF TypeOK
<1>7. Stages'
  BY <1>0, <1>1, <1>3 DEF Stages, TypeOK
<1>8. CountsFit'
  <2>. SUFFICES ASSUME NEW s \in RankIds, pc'[s] = "reduce"
                PROVE  count'[s] \in 1..Size(turn[s])
    BY <1>5 DEF CountsFit
  <2>1. CASE s = r
    BY <1>0, <1>2, <1>3, <2>1 DEF TypeOK
  <2>2. CASE s # r
    BY <1>0, <1>3, <2>2 DEF TypeOK, CountsFit
  <2>. QED BY <2>1, <2>2
<1>9. WorkAddsUp'
  <2>1. \A s \in RankIds : Working(s)' => s # r /\ pc'[s] = pc[s] /\ Working(s)
    BY <1>0, <1>3 DEF Working, TypeOK
  <2>. QED BY <1>0, <1>5, <2>1 DEF WorkAddsUp
<1>10. TurnsAreCredited'
  BY <1>0, <1>5 DEF TurnsAreCredited
<1>11. ForwardsMatch'
  BY <1>0 DEF ForwardsMatch
<1>12. LogProbsComeBack'
  BY <1>0 DEF LogProbsComeBack
<1>. QED BY <1>6, <1>7, <1>8, <1>9, <1>10, <1>11, <1>12 DEF Inv

LEMMA AllReduceStep == Inv /\ AllReduceCount => Inv'
<1>. SUFFICES ASSUME Inv, AllReduceCount PROVE Inv'
  OBVIOUS
<1>. USE DEF AllReduceCount
<1>0. /\ TypeOK /\ Stages /\ CountsFit /\ TurnsAreCredited /\ LogProbsComeBack
  BY DEF Inv
<1>1. /\ \A r \in RankIds : turn[r] # 0
      /\ phase \in {"log_prob", "update"}
      /\ phase = "update" => \A r \in RankIds : turn[r] # Turns + 1
  BY <1>0, RanksExist, AtWork
<1>2. \A r, s \in RankIds : AgreedCount(r) \in 1..Size(turn[s])
  <2>. DEFINE n == Size(turn[1])
  <2>1. \A r \in RankIds : Size(turn[r]) = n /\ count[r] \in 1..n
    BY <1>0, RanksExist DEF CountsFit, Stages
  <2>. HIDE DEF n
  <2>2. \A r \in RankIds : AgreedCount(r) \in 1..n
    BY <1>0, <2>1, AgreedIs
  <2>. QED BY <2>1, <2>2
<1>3. ASSUME NEW r \in RankIds
      PROVE  /\ Splits(micro'[r], << >>, Size(turn[r]))
             /\ Len(micro'[r]) = AgreedCount(r)
             /\ micro'[r] \in Seq(Seq(1..RowsPerRank))
  <2>. DEFINE n == Size(turn[r])
              k == AgreedCount(r)
              ls == PieceLens(r)
              ms == MicroBatches(ls, k)
              b == Heaviest(r)
  <2>1. /\ n \in 1..RowsPerRank /\ k \in 1..n /\ ls \in [1..n -> Nat \ {0}]
        /\ b \in Nat /\ \A i \in 1..n : Workloads(ls)[i] <= b
    BY <1>0, <1>1, <1>2, PiecesAre, PieceLensAre, HeaviestIs
  <2>2. micro'[r] = ms
    OBVIOUS
  <2>. HIDE DEF n, k, ls, b
  <2>3. n \in Nat \ {0} /\ n \in Nat /\ k \in Nat
    BY <2>1, Constants
  <2>4. Shared(ms, n, k)
    BY <2>1, <2>3, MicroBatchesFacts
  <2>. HIDE DEF ms
  <2>5. Splits(ms, << >>, n) /\ Len(ms) = k
    BY <2>3, <2>4, SharedSplits
  <2>6. ms \in Seq(Seq(1..RowsPerRank))
    <3>1. ms \in Seq(Seq(1..n))
      BY <2>5 DEF Splits
    <3>2. (1..n) \in SUBSET (1..RowsPerRank)
      BY <2>1, <2>3, Constants
    <3>3. Seq(1..n) \in SUBSET Seq(1..RowsPerRank)
      BY ONLY <3>2, SequenceOver
    <3>. QED BY ONLY <3>1, <3>3, SequenceOver
  <2>. QED BY <2>2, <2>5, <2>6 DEF n, k
<1>4. /\ \A t : Size(t)' = Size(t)
      /\ \A q, s : RowsOf(q, s)' = RowsOf(q, s)
      /\ \A q, j : RowAt(q, j)' = RowAt(q, j)
  BY SamePieces
<1>5. TypeOK'
  <2>1. micro' \in [RankIds -> Seq(Seq(1..RowsPerRank))]
    BY <1>3
  <2>2. << >> \in Seq(1..RowsPerRank) /\ << >> \in Seq(Rows)
    OBVIOUS
  <2>. QED BY <1>0, <2>1, <2>2 DEF TypeOK
<1>6. Stages'
  BY <1>0, <1>1 DEF Stages
<1>7. CountsFit'
  BY DEF CountsFit
<1>8. WorkAddsUp'
  <2>. SUFFICES ASSUME NEW r \in RankIds
                PROVE  /\ Splits(micro'[r], index'[r], Size(turn[r]))
                       /\ output'[r] = RowsOf(r, index'[r]) /\ pc'[r] = "forward"
    BY <1>4 DEF WorkAddsUp
  <2>1. index'[r] = << >> /\ output'[r] = << >>
    OBVIOUS
  <2>2. RowsOf(r, << >>) = << >>
    BY DEF RowsOf
  <2>. QED BY <1>3, <2>1, <2>2
<1>9. TurnsAreCredited'
  BY <1>0, <1>4 DEF TurnsAreCredited
<1>10. ForwardsMatch'
  BY <1>3 DEF ForwardsMatch, AgreedCount
<1>11. LogProbsComeBack'
  BY <1>0 DEF LogProbsComeBack
<1>. QED BY <1>5, <1>6, <1>7, <1>8, <1>9, <1>10, <1>11 DEF Inv

LEMMA ElementsOf ==
  ASSUME NEW V, NEW s \in Seq(V)
  PROVE  \A i \in 1..Len(s) : s[i] \in V
OBVIOUS

LEMMA TupleIsSeq ==
  ASSUME NEW V, NEW m \in Nat, NEW s \in [1..m -> V]
  PROVE  s \in Seq(V) /\ Len(s) = m
OBVIOUS

LEMMA ForwardStep == Inv /\ Forward => Inv'
<1>. SUFFICES ASSUME Inv, Forward PROVE Inv'
  OBVIOUS
<1>. USE DEF Forward
<1>0. /\ TypeOK /\ Stages /\ WorkAddsUp /\ ForwardsMatch
      /\ TurnsAreCredited /\ LogProbsComeBack
  BY DEF Inv
<1>1. \A r \in RankIds : turn[r] # 0
  BY <1>0, RanksExist, AtWork
<1>2. /\ \A t : Size(t)' = Size(t)
      /\ \A q, s : RowsOf(q, s)' = RowsOf(q, s)
      /\ \A q, j : RowAt(q, j)' = RowAt(q, j)
  BY SamePieces
<1>3. ASSUME NEW r \in RankIds
      PROVE  /\ Splits(micro'[r], index'[r], Size(turn[r]))
             /\ output'[r] = RowsOf(r, index'[r])
             /\ Len(micro'[r]) = Len(micro[r]) - 1
             /\ micro'[r] \in Seq(Seq(1..RowsPerRank))
             /\ index'[r] \in Seq(1..RowsPerRank)
             /\ output'[r] \in Seq(Rows)
  <2>. DEFINE n == Size(turn[r])
              ms == micro[r]
              ix == index[r]
              P == Piece(r)
              h == Head(ms)
              rows(s) == [i \in DOMAIN s |-> P[s[i]]]
              a == Len(ix)
              b == Len(h)
  <2>1. Splits(ms, ix, n) /\ output[r] = rows(ix) /\ ms # << >>
    BY <1>0 DEF WorkAddsUp, Working, RowsOf
  <2>2. /\ micro'[r] = Tail(ms) /\ index'[r] = ix \o h
        /\ output'[r] = rows(ix) \o rows(h)
    BY <2>1 DEF RowsOf
  <2>3. P \in [1..n -> Rows] /\ n \in 1..RowsPerRank
    BY <1>0, <1>1, PiecesAre
  <2>4. n \in Nat /\ (1..n) \in SUBSET (1..RowsPerRank)
    <3>. HIDE DEF n
    <3>. QED BY <2>3, Constants
  <2>5. \A s : RowsOf(r, s) = rows(s)
    BY DEF RowsOf
  <2>. HIDE DEF n, ms, ix, P
  <2>6. Splits(Tail(ms), ix \o h, n) /\ Len(Tail(ms)) = Len(ms) - 1
    BY <2>1, <2>4, SplitsStep
  <2>7. ix \in Seq(1..n) /\ h \in Seq(1..n)
    BY <2>1 DEF Splits
  <2>8. a \in Nat /\ b \in Nat /\ DOMAIN ix = 1..a /\ DOMAIN h = 1..b
    BY <2>7
  <2>. HIDE DEF h
  <2>9. /\ rows(ix) \in [1..a -> Rows] /\ rows(h) \in [1..b -> Rows]
    <3>1. \A i \in 1..a : ix[i] \in 1..n
      BY ONLY <2>7, ElementsOf
    <3>2. \A i \in 1..b : h[i] \in 1..n
      BY ONLY <2>7, ElementsOf
    <3>. QED BY <2>3, <2>8, <3>1, <3>2
  <2>10. rows(ix) \o rows(h) = rows(ix \o h)
    <3>. DEFINE x == rows(ix)
                y == rows(h)
                z == ix \o h
                V == 1..n
    <3>1. /\ \A i \in 1..a : x[i] = P[ix[i]]
          /\ \A i \in 1..b : y[i] = P[h[i]]
      BY <2>8
    <3>2. x \in Seq(Rows) /\ Len(x) = a /\ y \in Seq(Rows) /\ Len(y) = b
      <4>1. x \in [1..a -> Rows] /\ y \in [1..b -> Rows]
        BY <2>9
      <4>. HIDE DEF x, y, a, b
      <4>. QED BY ONLY <2>8, <4>1, TupleIsSeq
    <3>3. ix \in Seq(V) /\ h \in Seq(V) /\ Len(ix) = a /\ Len(h) = b
      BY <2>7
    <3>4. rows(z) = [i \in DOMAIN z |-> P[z[i]]]
      OBVIOUS
    <3>. HIDE DEF x, y, z, a, b, rows, V
    <3>5. x \o y = [p \in 1..(a + b) |-> IF p <= a THEN x[p] ELSE y[p - a]]
      BY ONLY <2>8, <3>2, Concatenation
    <3>6. z = [p \in 1..(a + b) |-> IF p <= a THEN ix[p] ELSE h[p - a]]
      BY ONLY <2>8, <3>3, Concatenation DEF z
    <3>7. \A p \in 1..(a + b) : (p <= a => p \in 1..a) /\ (~(p <= a) => p - a \in 1..b)
      BY <2>8
    <3>8. \A p \in 1..(a + b) : P[z[p]] = IF p <= a THEN x[p] ELSE y[p - a]
      BY <3>1, <3>6, <3>7
    <3>9. rows(z) = [p \in 1..(a + b) |-> P[z[p]]]
      BY <3>4, <3>6
    <3>. QED BY <3>5, <3>8, <3>9 DEF x, y, z
  <2>11. rows(ix) \o rows(h) \in Seq(Rows)
    <3>. DEFINE x == rows(ix)
                y == rows(h)
    <3>1. x \in Seq(Rows) /\ y \in Seq(Rows)
      <4>1. x \in [1..a -> Rows] /\ y \in [1..b -> Rows]
        BY <2>9
      <4>. HIDE DEF x, y, a, b
      <4>. QED BY ONLY <2>8, <4>1, TupleIsSeq
    <3>. HIDE DEF x, y
    <3>2. x \o y \in Seq(Rows)
      BY <3>1
    <3>. QED BY <3>2 DEF x, y
  <2>12. Tail(ms) \in Seq(Seq(1..RowsPerRank)) /\ ix \o h \in Seq(1..RowsPerRank)
    <3>1. Tail(ms) \in Seq(Seq(1..n)) /\ ix \o h \in Seq(1..n)
      BY <2>6 DEF Splits
    <3>2. Seq(1..n) \in SUBSET Seq(1..RowsPerRank)
      BY ONLY <2>4, SequenceOver
    <3>3. Tail(ms) \in Seq(Seq(1..RowsPerRank))
      BY ONLY <3>1, <3>2, SequenceOver
    <3>4. ix \o h \in Seq(1..RowsPerRank)
      BY ONLY <3>1, <3>2
    <3>. QED BY <3>3, <3>4
  <2>. HIDE DEF rows
  <2>13. output'[r] = RowsOf(r, index'[r])
    BY <2>2, <2>5, <2>10
  <2>. QED BY <2>2, <2>6, <2>11, <2>12, <2>13 DEF n, ms
<1>4. TypeOK'
  <2>1. micro' = [r \in RankIds |-> micro'[r]] /\ index' = [r \in RankIds |-> index'[r]]
        /\ output' = [r \in RankIds |-> output'[r]]
    OBVIOUS
  <2>2. /\ micro' \in [RankIds -> Seq(Seq(1..RowsPerRank))]
        /\ index' \in [RankIds -> Seq(1..RowsPerRank)]
        /\ output' \in [RankIds -> Seq(Rows)]
    BY <1>3, <2>1
  <2>. QED BY <1>0, <2>2 DEF TypeOK
<1>5. Stages'
  BY <1>0 DEF Stages
<1>6. CountsFit'
  BY DEF CountsFit
<1>7. WorkAddsUp'
  BY <1>2, <1>3 DEF WorkAddsUp
<1>8. TurnsAreCredited'
  BY <1>0, <1>2 DEF TurnsAreCredited
<1>9. ForwardsMatch'
  BY <1>0, <1>3 DEF ForwardsMatch
<1>10. LogProbsComeBack'
  BY <1>0 DEF LogProbsComeBack
<1>. QED BY <1>4, <1>5, <1>6, <1>7, <1>8, <1>9, <1>10 DEF Inv

LEMMA ForwardsEndStep ==
  ASSUME Inv, NEW r \in RankIds, ForwardsEnd(r)
  PROVE  Inv'
<1>. USE DEF ForwardsEnd
<1>0. /\ TypeOK /\ Stages /\ CountsFit /\ WorkAddsUp /\ ForwardsMatch
      /\ TurnsAreCredited /\ LogProbsComeBack
  BY DEF Inv
<1>1. /\ phase \in {"log_prob", "update"} /\ pc[r] = "forward"
      /\ phase = "update" => turn[r] # Turns + 1
  BY <1>0, AtWork
<1>2. /\ pc' = [pc EXCEPT ![r] = IF phase = "log_prob" THEN "idle" ELSE "step"]
      /\ \A s \in RankIds : s # r => pc'[s] = pc[s]
      /\ pc'[r] = IF phase = "log_prob" THEN "idle" ELSE "step"
  BY <1>0 DEF TypeOK
<1>3. /\ \A t : Size(t)' = Size(t)
      /\ \A q, s : RowsOf(q, s)' = RowsOf(q, s)
      /\ \A q, j : RowAt(q, j)' = RowAt(q, j)
  BY SamePieces
<1>4. TypeOK'
  BY <1>0, <1>2 DEF TypeOK
<1>5. Stages'
  BY <1>0, <1>1, <1>2 DEF Stages
<1>6. CountsFit'
  BY <1>0, <1>2, <1>3 DEF CountsFit
<1>7. WorkAddsUp'
  <2>. SUFFICES ASSUME NEW s \in RankIds, Working(s)'
                PROVE  /\ Splits(micro[s], index[s], Size(turn[s]))
                       /\ output[s] = RowsOf(s, index[s])
                       /\ pc'[s] # "forward" => micro[s] = << >>
    BY <1>3 DEF WorkAddsUp
  <2>1. CASE s = r
    BY <1>0, <1>1, <2>1 DEF WorkAddsUp, Working
  <2>2. CASE s # r
    BY <1>0, <1>2, <2>2 DEF WorkAddsUp, Working
  <2>. QED BY <2>1, <2>2
<1>8. TurnsAreCredited'
  BY <1>0, <1>3 DEF TurnsAreCredited
<1>9. ForwardsMatch'
  BY <1>0 DEF ForwardsMatch
<1>10. LogProbsComeBack'
  BY <1>0 DEF LogProbsComeBack
<1>. QED BY <1>4, <1>5, <1>6, <1>7, <1>8, <1>9, <1>10 DEF Inv

\* What a rank has computed when it comes to the optimizer step: its mini-batch.
LEMMA StepOutput ==
  ASSUME Inv, NEW r \in RankIds, pc[r] = "step"
  PROVE  /\ phase = "update" /\ turn[r] \in 1..Turns /\ micro[r] = << >>
         /\ Permutes(index[r], Size(turn[r]))
         /\ DOMAIN output[r] = 1..Size(turn[r])
         /\ \A q \in 1..Size(turn[r]) : /\ index[r][q] \in 1..Size(turn[r])
                                        /\ First(turn[r]) + index[r][q] \in 1..RowsPerRank
                                        /\ output[r][q] = RowAt(r, First(turn[r]) + index[r][q])
<1>0. TypeOK /\ Stages /\ WorkAddsUp
  BY DEF Inv
<1>1. phase = "update" /\ turn[r] # 0 /\ turn[r] # Turns + 1
  BY <1>0, AtWork DEF Stages
<1>2. turn[r] \in 1..Turns
  <2>1. turn[r] \in 0..(Turns + 1) /\ Turns \in Nat
    BY <1>0, TrainedFacts DEF TypeOK
  <2>. QED BY <1>1, <2>1
<1>. DEFINE n == Size(turn[r])
            ix == index[r]
            P == Piece(r)
            f == First(turn[r])
<1>3. Splits(micro[r], ix, n) /\ micro[r] = << >> /\ output[r] = RowsOf(r, ix)
  BY <1>0 DEF WorkAddsUp, Working
<1>4. /\ n \in 1..RowsPerRank
      /\ \A j \in 1..n : f + j \in 1..RowsPerRank /\ P[j] = RowAt(r, f + j)
  BY <1>0, <1>1, PiecesAre
<1>5. output[r] = [i \in DOMAIN ix |-> P[ix[i]]]
  BY <1>3 DEF RowsOf
<1>. HIDE DEF n, ix, P, f
<1>6. n \in Nat
  BY <1>4, Constants
<1>7. Permutes(ix, n)
  BY <1>3, <1>6, SplitsDone
<1>8. DOMAIN ix = 1..n /\ \A q \in 1..n : ix[q] \in 1..n
  BY <1>7 DEF Permutes
<1>9. \A q \in 1..n : f + ix[q] \in 1..RowsPerRank /\ output[r][q] = RowAt(r, f + ix[q])
  BY <1>4, <1>5, <1>8
<1>. QED BY <1>1, <1>2, <1>3, <1>5, <1>7, <1>8, <1>9 DEF n, ix, f

\* The places of the ranks' outputs with the row i.
PlacesOf(i) == {x \in RankIds \X (1..RowsPerRank) :
                  x[2] \in DOMAIN output[x[1]] /\ output[x[1]][x[2]] = i}

\* A row is in one place if its mini-batch is the one of this turn, otherwise in none.
LEMMA PlacesAre ==
  ASSUME Inv, \A s \in RankIds : pc[s] = "step",
         NEW r \in RankIds, NEW j \in 1..RowsPerRank
  PROVE  Cardinality(PlacesOf(RowAt(r, j))) =
           IF (j - 1) \div MiniBatch = (turn[r] - 1) % Parts THEN 1 ELSE 0
<1>0. TypeOK /\ Stages
  BY DEF Inv
<1>. DEFINE n == Size(turn[r])
            f == First(turn[r])
            ix == index[r]
            X == PlacesOf(RowAt(r, j))
            b == (turn[r] - 1) % Parts
            own == (j - 1) \div MiniBatch = b
<1>1. /\ \A x \in Rows, y \in Rows : order[x] = order[y] => x = y
      /\ order \in [Rows -> Rows]
  BY <1>0 DEF TypeOK, IsInjective
<1>2. \A s \in RankIds : turn[s] = turn[r]
  BY <1>0 DEF Stages
<1>3. /\ phase = "update" /\ turn[r] \in 1..Turns /\ Permutes(ix, n)
      /\ DOMAIN output[r] = 1..n
      /\ \A q \in 1..n : /\ ix[q] \in 1..n /\ f + ix[q] \in 1..RowsPerRank
                         /\ output[r][q] = RowAt(r, f + ix[q])
  BY StepOutput
<1>4. \A s \in RankIds : /\ DOMAIN output[s] = 1..n
                         /\ \A q \in 1..n : \E k \in 1..RowsPerRank :
                              output[s][q] = RowAt(s, k)
  BY <1>2, StepOutput
<1>5. n \in 1..RowsPerRank /\ f \in 0..(RowsPerRank - 1) /\ RowsPerRank \in Nat
  <2>1. turn[r] # 0
    <3>. DEFINE t == turn[r]
    <3>1. t \in 1..Turns /\ Turns \in Nat
      BY <1>3, TrainedFacts
    <3>. HIDE DEF t
    <3>2. t # 0
      BY <3>1
    <3>. QED BY <3>2 DEF t
  <2>. HIDE DEF n, f
  <2>2. n \in 1..RowsPerRank /\ f \in 0..(RowsPerRank - 1)
    BY ONLY <1>0, <2>1, r \in RankIds, PiecesAre DEF n, f
  <2>. QED BY <2>2, Constants
<1>6. own <=> j - f \in 1..n
  <2>1. b \in 0..(Parts - 1)
    <3>1. turn[r] - 1 \in Nat
      <4>. DEFINE t == turn[r]
      <4>1. t \in 1..Turns /\ Turns \in Nat
        BY <1>3, TrainedFacts
      <4>. HIDE DEF t
      <4>2. t - 1 \in Nat
        BY <4>1
      <4>. QED BY <4>2 DEF t
    <3>. QED BY <3>1, TrainedFacts
  <2>2. f = FirstOf(b) /\ n = SizeOf(b)
    BY <1>3 DEF First, Size
  <2>. HIDE DEF b, f, n
  <2>3. j - FirstOf(b) \in 1..SizeOf(b) <=> (j - 1) \div MiniBatch = b
    BY <2>1, PartsFacts
  <2>. QED BY <2>2, <2>3
<1>. HIDE DEF n, f, ix, b, own
<1>7. \A s, t \in RankIds, k, l \in 1..RowsPerRank :
         RowAt(s, k) = RowAt(t, l) => s = t /\ k = l
  BY ONLY <1>1, RowAtFacts
<1>8. ASSUME NEW x \in X
      PROVE  x[1] = r /\ x[2] \in 1..n /\ f + ix[x[2]] = j /\ x = <<x[1], x[2]>>
  <2>1. /\ x \in RankIds \X (1..RowsPerRank)
        /\ x[2] \in DOMAIN output[x[1]] /\ output[x[1]][x[2]] = RowAt(r, j)
    BY DEF PlacesOf
  <2>2. PICK s \in RankIds, q \in 1..RowsPerRank : x = <<s, q>>
    BY <2>1
  <2>3. q \in 1..n /\ output[s][q] = RowAt(r, j)
    BY <1>4, <2>1, <2>2
  <2>4. PICK k \in 1..RowsPerRank : output[s][q] = RowAt(s, k)
    BY <1>4, <2>3
  <2>5. s = r
    <3>. DEFINE C == 1..RowsPerRank
    <3>1. j \in C /\ k \in C /\ RowAt(s, k) = RowAt(r, j)
      BY <2>3, <2>4
    <3>. HIDE DEF C
    <3>. QED BY ONLY <1>7, <3>1, r \in RankIds, s \in RankIds DEF C
  <2>6. f + ix[q] \in 1..RowsPerRank /\ RowAt(r, f + ix[q]) = RowAt(r, j)
    BY <1>3, <2>3, <2>5
  <2>7. f + ix[q] = j
    <3>. DEFINE C == 1..RowsPerRank
                h == f + ix[q]
    <3>1. h \in C /\ j \in C /\ RowAt(r, h) = RowAt(r, j)
      BY <2>6
    <3>. HIDE DEF C, h
    <3>2. h = j
      BY ONLY <1>7, <3>1, r \in RankIds DEF C
    <3>. QED BY <3>2 DEF h
  <2>. QED BY <2>2, <2>3, <2>5, <2>7
<1>9. CASE own
  <2>1. PICK p \in 1..n : ix[p] = j - f
    BY <1>3, <1>6, <1>9 DEF Permutes
  <2>2. f + ix[p] = j
    BY <1>5, <2>1
  <2>3. <<r, p>> \in X
    <3>1. p \in 1..RowsPerRank
      BY <1>5
    <3>2. p \in DOMAIN output[r] /\ output[r][p] = RowAt(r, j)
      BY <1>3, <2>2
    <3>. QED BY <3>1, <3>2 DEF PlacesOf
  <2>. HIDE DEF X
  <2>4. ASSUME NEW x \in X PROVE x = <<r, p>>
    <3>1. x[1] = r /\ x[2] \in 1..n /\ f + ix[x[2]] = j /\ x = <<x[1], x[2]>>
      BY <1>8
    <3>. DEFINE q == x[2]
    <3>2. q \in 1..n /\ f + ix[q] = j
      BY <3>1
    <3>. HIDE DEF q
    <3>3. ix[q] \in Int /\ ix[p] \in Int
      BY <1>3, <3>2
    <3>4. ix[q] = ix[p]
      BY <1>5, <2>2, <3>2, <3>3
    <3>5. q = p
      BY <1>3, <3>2, <3>4 DEF Permutes
    <3>. QED BY <3>1, <3>5 DEF q
  <2>5. X = {<<r, p>>}
    BY <2>3, <2>4
  <2>6. Cardinality(X) = 1
    BY <2>5, FS_Singleton
  <2>. QED BY <1>9, <2>6 DEF X, own, b
<1>10. CASE ~own
  <2>1. ASSUME NEW x \in X PROVE FALSE
    <3>. DEFINE q == x[2]
    <3>1. q \in 1..n /\ f + ix[q] = j
      BY <1>8
    <3>. HIDE DEF q
    <3>2. ix[q] \in 1..n
      BY <1>3, <3>1
    <3>3. j - f = ix[q]
      BY <1>5, <3>1, <3>2
    <3>. QED BY <1>6, <1>10, <3>2, <3>3
  <2>. HIDE DEF X
  <2>2. X = {}
    BY <2>1
  <2>3. Cardinality(X) = 0
    BY <2>2, FS_EmptySet
  <2>. QED BY <1>10, <2>3 DEF X, own, b
<1>. QED BY <1>9, <1>10

LEMMA OptimizerStepKeeps == Inv /\ OptimizerStep => Inv'
<1>. SUFFICES ASSUME Inv, OptimizerStep PROVE Inv'
  OBVIOUS
<1>0. /\ TypeOK /\ Stages /\ WorkAddsUp /\ ForwardsMatch
      /\ TurnsAreCredited /\ LogProbsComeBack
  BY DEF Inv
<1>1. /\ \A r \in RankIds : pc[r] = "step"
      /\ credit' = [i \in Rows |-> credit[i] + Cardinality(PlacesOf(i))]
      /\ turn' = [r \in RankIds |-> turn[r] + 1]
      /\ pc' = [r \in RankIds |-> IF turn[r] < Turns THEN "prepare" ELSE "idle"]
      /\ UNCHANGED <<phase, lens, order, old, count, micro, index, output>>
  BY DEF OptimizerStep, PlacesOf
<1>2. Turns \in Nat \ {0} /\ phase = "update"
  BY <1>1, RanksExist, StepOutput, TrainedFacts
<1>3. /\ order \in [Rows -> Rows]
      /\ \A x \in Rows, y \in Rows : order[x] = order[y] => x = y
  BY <1>0 DEF TypeOK, IsInjective
<1>4. ASSUME NEW r \in RankIds
      PROVE  /\ turn'[r] = turn[r] + 1 /\ turn[r] \in 1..Turns
             /\ turn'[r] \in 0..(Turns + 1) /\ turn'[r] # 0
             /\ pc'[r] = IF turn[r] < Turns THEN "prepare" ELSE "idle"
             /\ pc'[r] = "idle" <=> turn'[r] = Turns + 1
  <2>. DEFINE t == turn[r]
  <2>1. t \in 1..Turns /\ turn'[r] = t + 1
    BY <1>1, StepOutput
  <2>2. pc'[r] = IF t < Turns THEN "prepare" ELSE "idle"
    BY <1>1
  <2>. HIDE DEF t
  <2>3. t + 1 \in 0..(Turns + 1) /\ t + 1 # 0 /\ (t + 1 = Turns + 1 <=> ~(t < Turns))
    BY <1>2, <2>1
  <2>4. pc'[r] = "idle" <=> ~(t < Turns)
    BY <2>2
  <2>. QED BY <2>1, <2>2, <2>3, <2>4 DEF t
<1>5. ASSUME NEW r \in RankIds, NEW j \in 1..RowsPerRank
      PROVE  /\ credit'[RowAt(r, j)] = Trained(turn[r], (j - 1) \div MiniBatch)
             /\ credit'[RowAt(r, j)] \in 0..Epochs
  <2>. DEFINE b == (j - 1) \div MiniBatch
              t == turn[r]
              s == t - 1
              i == RowAt(r, j)
              k == Cardinality(PlacesOf(i))
  <2>1. b \in 0..(Parts - 1)
    BY PartsFacts
  <2>2. t \in 1..Turns /\ i \in Rows
    BY <1>3, <1>4, RowAtFacts
  <2>3. k = IF b = s % Parts THEN 1 ELSE 0
    BY <1>1, PlacesAre
  <2>4. credit[i] = Trained(s, b)
    BY <1>0, <1>2 DEF TurnsAreCredited
  <2>. HIDE DEF b, t, i, k
  <2>5. credit'[i] = credit[i] + k
    BY <1>1, <2>2 DEF k
  <2>6. s \in Nat /\ s + 1 = t /\ t \in 0..Turns
    BY <1>2, <2>2
  <2>. HIDE DEF s
  <2>7. Trained(s + 1, b) = Trained(s, b) + (IF b = s % Parts THEN 1 ELSE 0)
    BY <2>1, <2>6, TrainedFacts
  <2>8. credit'[i] = Trained(t, b)
    BY ONLY <2>3, <2>4, <2>5, <2>6, <2>7
  <2>9. Trained(t, b) \in 0..Epochs
    BY <2>1, <2>6, TrainedFacts
  <2>. QED BY <2>8, <2>9 DEF i, t, b
<1>6. TypeOK'
  <2>1. \A i \in Rows : credit'[i] \in 0..Epochs
    <3>. SUFFICES ASSUME NEW i \in Rows PROVE credit'[i] \in 0..Epochs
      OBVIOUS
    <3>1. PICK r \in RankIds : \E j \in 1..RowsPerRank : i = RowAt(r, j)
      BY <1>3, RowAtFacts
    <3>. QED BY <1>5, <3>1
  <2>2. credit' \in [Rows -> 0..Epochs]
    BY <1>1, <2>1
  <2>3. turn' \in [RankIds -> 0..(Turns + 1)]
    <3>1. turn' = [r \in RankIds |-> turn'[r]]
      BY <1>1
    <3>. QED BY <1>4, <3>1
  <2>4. pc' \in [RankIds -> {"idle", "prepare", "reduce", "forward", "step"}]
    BY <1>1
  <2>. QED BY <1>0, <1>1, <2>2, <2>3, <2>4 DEF TypeOK
<1>7. Stages'
  <2>1. \A r, s \in RankIds : turn'[r] = turn'[s]
    BY <1>0, <1>1 DEF Stages
  <2>. QED BY <1>1, <1>2, <1>4, <2>1 DEF Stages
<1>8. CountsFit'
  BY <1>4 DEF CountsFit
<1>9. WorkAddsUp'
  BY <1>1, <1>2, <1>4 DEF WorkAddsUp, Working
<1>10. TurnsAreCredited'
  <2>. SUFFICES ASSUME NEW r \in RankIds, NEW j \in 1..RowsPerRank
                PROVE  credit'[RowAt(r, j)'] = Trained(turn'[r] - 1, (j - 1) \div MiniBatch)
    BY DEF TurnsAreCredited
  <2>1. RowAt(r, j)' = RowAt(r, j)
    BY <1>1 DEF RowAt
  <2>2. turn'[r] - 1 = turn[r]
    <3>1. turn[r] \in Int
      BY <1>0, <1>2 DEF TypeOK
    <3>. QED BY <1>4, <3>1
  <2>. QED BY <1>5, <2>1, <2>2
<1>11. ForwardsMatch'
  BY <1>0, <1>1 DEF ForwardsMatch
<1>12. LogProbsComeBack'
  BY <1>0, <1>1 DEF LogProbsComeBack
<1>. QED BY <1>6, <1>7, <1>8, <1>9, <1>10, <1>11, <1>12 DEF Inv

-------------------------------------------------------------------------------
(* How even the work is. *)

LoadOf(s) == SumOver(Workloads(lens), Range(s))

RanksEven ==
  phase # "balance" => \A r, s \in RankIds : LoadOf(Chunk(r)) - LoadOf(Chunk(s)) <= Gap

\* The micro-batches a rank has before it, which it only has while it is computing.
LoadsEven(r, ms, b) ==
  \A i, j \in DOMAIN ms : LoadOf(RowsOf(r, ms[i])) - LoadOf(RowsOf(r, ms[j])) <= b

MicrosEven ==
  \A r \in RankIds : micro[r] # << >> =>
    pc[r] = "forward" /\ LoadsEven(r, micro[r], Heaviest(r))

Even == RanksEven /\ MicrosEven

LEMMA SameLoads ==
  ASSUME UNCHANGED <<phase, lens, order, turn>>
  PROVE  /\ \A r : Heaviest(r)' = Heaviest(r) /\ Chunk(r)' = Chunk(r)
         /\ \A s : LoadOf(s)' = LoadOf(s)
         /\ \A r, ms, b : LoadsEven(r, ms, b)' <=> LoadsEven(r, ms, b)
         /\ Gap' = Gap
<1>1. /\ \A r : Piece(r)' = Piece(r)
      /\ \A r, s : RowsOf(r, s)' = RowsOf(r, s)
  BY SamePieces
<1>2. \A s : LoadOf(s)' = LoadOf(s)
  BY DEF LoadOf
<1>3. \A r : Heaviest(r)' = Heaviest(r) /\ Chunk(r)' = Chunk(r)
  BY <1>1 DEF Heaviest, Chunk
<1>4. \A r, ms, b : LoadsEven(r, ms, b)' <=> LoadsEven(r, ms, b)
  BY <1>1, <1>2 DEF LoadsEven
<1>. QED BY <1>2, <1>3, <1>4 DEF Gap

\* The chunks are the parts of the balancing.
LEMMA BalanceEven == Inv /\ Even /\ BalanceBatch => Even'
<1>. SUFFICES ASSUME Inv, Even, BalanceBatch PROVE Even'
  OBVIOUS
<1>. USE DEF BalanceBatch, Dispatch
<1>0. TypeOK /\ Stages /\ MicrosEven /\ lens \in [Rows -> Lengths]
  BY DEF Inv, Even, TypeOK
<1>1. \A r \in RankIds : micro[r] = << >>
  BY <1>0 DEF Stages, MicrosEven
<1>2. MicrosEven'
  BY <1>1 DEF MicrosEven
<1>. DEFINE w == Workloads(lens)
<1>3. PICK parts :
        /\ Balanced(parts, Ranks, w, Gap)
        /\ \A r \in RankIds : parts[r] =
             {BalancedOrder[(r - 1) * RowsPerRank + j] : j \in 1..RowsPerRank}
  BY <1>0, GapIs, BalancedOrderFacts
<1>4. order' = BalancedOrder /\ order' \in [Rows -> Rows]
  BY <1>0, GapIs, BalancedOrderFacts
<1>5. ASSUME NEW r \in RankIds PROVE Range(Chunk(r)') = parts[r]
  <2>. DEFINE f == (r - 1) * RowsPerRank
              l == r * RowsPerRank
              c == SubSeq(order', f + 1, l)
  <2>1. f \in Int /\ RowsPerRank \in Nat /\ l = f + RowsPerRank
    BY Constants DEF RankIds
  <2>2. \A j \in 1..RowsPerRank : order'[f + j] \in Rows
    <3>1. \A j \in 1..RowsPerRank : f + j \in Rows
      BY RowPlaces
    <3>. HIDE DEF f
    <3>. QED BY <1>4, <3>1
  <2>3. Chunk(r)' = c
    BY DEF Chunk
  <2>. HIDE DEF f, l
  <2>4. c \in [1..RowsPerRank -> Rows] /\ \A j \in 1..RowsPerRank : c[j] = order'[f + j]
    BY ONLY <2>1, <2>2, Subsequence
  <2>. HIDE DEF c
  <2>5. Range(c) = {order'[f + j] : j \in 1..RowsPerRank}
    BY ONLY <2>4 DEF Range
  <2>6. parts[r] = {order'[f + j] : j \in 1..RowsPerRank}
    BY <1>3, <1>4 DEF f
  <2>. QED BY <2>3, <2>5, <2>6
<1>6. RanksEven'
  <2>1. Gap' = Gap /\ \A s : LoadOf(s)' = SumOver(w, Range(s))
    BY DEF Gap, LoadOf
  <2>2. ASSUME NEW r \in RankIds, NEW s \in RankIds
        PROVE  LoadOf(Chunk(r))' - LoadOf(Chunk(s))' <= Gap
    <3>1. LoadOf(Chunk(r))' = SumOver(w, parts[r]) /\ LoadOf(Chunk(s))' = SumOver(w, parts[s])
      BY <1>5 DEF LoadOf
    <3>. QED BY <1>3, <3>1 DEF Balanced, RankIds
  <2>. QED BY <2>1, <2>2 DEF RanksEven
<1>. QED BY <1>2, <1>6 DEF Even

\* The micro-batches are the parts of the balancing of the piece's positions.
LEMMA AllReduceEven == Inv /\ Even /\ AllReduceCount => Even'
<1>. SUFFICES ASSUME Inv, Even, AllReduceCount PROVE Even'
  OBVIOUS
<1>. USE DEF AllReduceCount
<1>0. /\ TypeOK /\ Stages /\ CountsFit /\ RanksEven
      /\ order \in [Rows -> Rows] /\ \A x, y \in Rows : order[x] = order[y] => x = y
  BY DEF Inv, Even, TypeOK, IsInjective
<1>1. \A r \in RankIds : turn[r] # 0
  BY <1>0, RanksExist, AtWork
<1>2. /\ \A r : Heaviest(r)' = Heaviest(r) /\ Chunk(r)' = Chunk(r)
      /\ \A s : LoadOf(s)' = LoadOf(s)
      /\ \A r, ms, b : LoadsEven(r, ms, b)' <=> LoadsEven(r, ms, b)
      /\ Gap' = Gap
  BY SameLoads
<1>3. RanksEven'
  <2>1. \A r : LoadOf(Chunk(r))' = LoadOf(Chunk(r))
    BY DEF LoadOf, Chunk
  <2>. QED BY <1>0, <1>2, <2>1 DEF RanksEven
<1>4. \A r, s \in RankIds : AgreedCount(r) \in 1..Size(turn[s])
  <2>. DEFINE n == Size(turn[1])
  <2>1. \A r \in RankIds : Size(turn[r]) = n /\ count[r] \in 1..n
    BY <1>0, RanksExist DEF CountsFit, Stages
  <2>. HIDE DEF n
  <2>2. \A r \in RankIds : AgreedCount(r) \in 1..n
    BY <1>0, <2>1, AgreedIs
  <2>. QED BY <2>1, <2>2
<1>5. ASSUME NEW r \in RankIds PROVE LoadsEven(r, micro'[r], Heaviest(r))
  <2>. DEFINE n == Size(turn[r])
              k == AgreedCount(r)
              ls == PieceLens(r)
              ms == MicroBatches(ls, k)
              b == Heaviest(r)
              P == Piece(r)
              w == Workloads(lens)
              v == Workloads(ls)
  <2>1. /\ n \in 1..RowsPerRank /\ k \in 1..n /\ ls \in [1..n -> Nat \ {0}]
        /\ b \in Nat
        /\ \A i \in 1..n : v[i] = w[P[i]] /\ v[i] \in Nat /\ v[i] <= b
    BY <1>0, <1>1, <1>4, PiecesAre, PieceLensAre, HeaviestIs
  <2>2. micro'[r] = ms /\ \A s : RowsOf(r, s) = [p \in DOMAIN s |-> P[s[p]]]
    BY DEF RowsOf
  <2>3. \A i, j \in 1..n : P[i] = P[j] => i = j
    <3>1. \A i, j \in 1..RowsPerRank : RowAt(r, i) = RowAt(r, j) => i = j
      BY <1>0, RowAtFacts
    <3>2. /\ First(turn[r]) \in 0..(RowsPerRank - 1)
          /\ \A j \in 1..n : /\ First(turn[r]) + j \in 1..RowsPerRank
                             /\ P[j] = RowAt(r, First(turn[r]) + j)
      BY <1>0, <1>1, PiecesAre
    <3>. DEFINE f == First(turn[r])
    <3>. HIDE DEF n, P, f
    <3>3. \A i, j \in 1..n : P[i] = P[j] => f + i = f + j
      BY <3>1, <3>2 DEF f
    <3>4. f \in Int
      BY <3>2 DEF f
    <3>. QED BY ONLY <3>3, <3>4
  <2>. HIDE DEF n, k, ls, b, P, w
  <2>4. n \in Nat \ {0} /\ n \in Nat /\ k \in Nat
    BY <2>1, Constants
  <2>5. Shared(ms, n, k) /\ Alike(ms, k, v, b)
    BY <2>1, <2>4, MicroBatchesFacts
  <2>. HIDE DEF ms, v
  <2>6. DOMAIN ms = 1..k
    BY <2>5 DEF Shared
  <2>7. ASSUME NEW i \in 1..k
        PROVE  LoadOf(RowsOf(r, ms[i])) = SumOver(v, Range(ms[i]))
    <3>. DEFINE s == ms[i]
                A == Range(s)
    <3>1. s \in Seq(1..n)
      BY <2>5 DEF Shared
    <3>. HIDE DEF s
    <3>2. A \in SUBSET (1..n) /\ Range([p \in DOMAIN s |-> P[s[p]]]) = {P[x] : x \in A}
      <4>1. \A p \in DOMAIN s : s[p] \in 1..n
        <5>1. DOMAIN s = 1..Len(s)
          BY <3>1
        <5>. QED BY ONLY <3>1, <5>1, ElementsOf
      <4>. QED BY <4>1 DEF Range
    <3>3. IsFiniteSet(A)
      BY <2>4, <3>2, Interval, FS_Subset
    <3>. HIDE DEF A
    <3>4. SumOver(w, {P[x] : x \in A}) = SumOver(v, A)
      <4>1. \A x \in A : v[x] = w[P[x]] /\ v[x] \in Nat
        BY <2>1, <3>2
      <4>2. \A x, y \in A : P[x] = P[y] => x = y
        BY <2>3, <3>2
      <4>. QED BY ONLY <3>3, <4>1, <4>2, SumRenamed
    <3>5. LoadOf(RowsOf(r, s)) = SumOver(w, {P[x] : x \in A})
      BY <2>2, <3>2 DEF LoadOf, w
    <3>. QED BY <3>4, <3>5 DEF s, A
  <2>8. ASSUME NEW i \in 1..k, NEW j \in 1..k
        PROVE  LoadOf(RowsOf(r, ms[i])) - LoadOf(RowsOf(r, ms[j])) <= b
    BY <2>5, <2>7 DEF Alike
  <2>. QED BY <2>2, <2>6, <2>8 DEF LoadsEven, b
<1>6. MicrosEven'
  BY <1>2, <1>5 DEF MicrosEven
<1>. QED BY <1>3, <1>6 DEF Even

\* One less of them is before a rank.
LEMMA ForwardEven == Inv /\ Even /\ Forward => Even'
<1>. SUFFICES ASSUME Inv, Even, Forward PROVE Even'
  OBVIOUS
<1>. USE DEF Forward
<1>1. /\ \A r : Heaviest(r)' = Heaviest(r) /\ Chunk(r)' = Chunk(r)
      /\ \A s : LoadOf(s)' = LoadOf(s)
      /\ \A r, ms, b : LoadsEven(r, ms, b)' <=> LoadsEven(r, ms, b)
      /\ Gap' = Gap
  BY SameLoads
<1>2. RanksEven'
  <2>1. \A r : LoadOf(Chunk(r))' = LoadOf(Chunk(r))
    BY DEF LoadOf, Chunk
  <2>. QED BY <1>1, <2>1 DEF RanksEven, Even
<1>3. ASSUME NEW r \in RankIds PROVE LoadsEven(r, micro'[r], Heaviest(r))
  <2>. DEFINE ms == micro[r]
  <2>1. ms \in Seq(Seq(1..RowsPerRank)) /\ ms # << >>
    BY DEF Inv, TypeOK
  <2>2. micro'[r] = Tail(ms) /\ LoadsEven(r, ms, Heaviest(r))
    BY <2>1 DEF Even, MicrosEven
  <2>. HIDE DEF ms
  <2>3. \A i \in DOMAIN Tail(ms) : i + 1 \in DOMAIN ms /\ Tail(ms)[i] = ms[i + 1]
    BY <2>1
  <2>. DEFINE load(s) == LoadOf(RowsOf(r, s))
              b == Heaviest(r)
  <2>4. \A i, j \in DOMAIN ms : load(ms[i]) - load(ms[j]) <= b
    BY <2>2 DEF LoadsEven
  <2>. HIDE DEF load, b
  <2>5. \A i, j \in DOMAIN Tail(ms) : load(Tail(ms)[i]) - load(Tail(ms)[j]) <= b
    BY ONLY <2>3, <2>4
  <2>. QED BY <2>2, <2>5 DEF LoadsEven, load, b
<1>4. MicrosEven'
  BY <1>1, <1>3 DEF MicrosEven
<1>. QED BY <1>2, <1>4 DEF Even

\* The other steps move neither rows nor micro-batches.
LEMMA OthersEven ==
  ASSUME Inv, Even, UNCHANGED <<lens, order, micro>>, phase # "balance",
         \A r \in RankIds : micro[r] # << >> =>
           pc'[r] = "forward" /\ UNCHANGED <<phase, turn>>
  PROVE  Even'
<1>1. RanksEven'
  <2>1. \A r : LoadOf(Chunk(r))' = LoadOf(Chunk(r))
    BY DEF LoadOf, Chunk
  <2>2. Gap' = Gap
    BY DEF Gap
  <2>. QED BY <2>1, <2>2 DEF RanksEven, Even
<1>2. ASSUME NEW r \in RankIds, micro[r] # << >>
      PROVE  pc'[r] = "forward" /\ LoadsEven(r, micro[r], Heaviest(r))'
  <2>1. UNCHANGED <<phase, lens, order, turn>> /\ pc'[r] = "forward"
    BY <1>2
  <2>2. LoadsEven(r, micro[r], Heaviest(r))
    BY <1>2 DEF Even, MicrosEven
  <2>3. /\ Heaviest(r)' = Heaviest(r)
        /\ \A ms, b : LoadsEven(r, ms, b)' <=> LoadsEven(r, ms, b)
    BY <2>1, SameLoads
  <2>. QED BY <2>1, <2>2, <2>3
<1>3. MicrosEven'
  BY <1>2 DEF MicrosEven
<1>. QED BY <1>1, <1>3 DEF Even

LEMMA NextKeepsEven == Inv /\ Even /\ [Next]_vars => Even'
<1>. SUFFICES ASSUME Inv, Even, [Next]_vars PROVE Even'
  OBVIOUS
<1>0. TypeOK /\ Stages /\ MicrosEven
  BY DEF Inv, Even
<1>1. CASE BalanceBatch
  BY <1>1, BalanceEven
<1>2. CASE AllReduceCount
  BY <1>2, AllReduceEven
<1>3. CASE Forward
  BY <1>3, ForwardEven
<1>4. CASE GatherLogProbs
  <2>1. \A r \in RankIds : micro[r] = << >>
    BY <1>0, <1>4 DEF GatherLogProbs, AllIdle, MicrosEven
  <2>. QED BY <1>4, <2>1, OthersEven DEF GatherLogProbs, Dispatch
<1>5. CASE UpdateEnds
  <2>1. \A r \in RankIds : micro[r] = << >>
    BY <1>0, <1>5 DEF UpdateEnds, AllIdle, MicrosEven
  <2>. QED BY <1>5, <2>1, OthersEven DEF UpdateEnds
<1>6. CASE OptimizerStep
  <2>1. \A r \in RankIds : micro[r] = << >>
    BY <1>0, <1>6 DEF OptimizerStep, MicrosEven
  <2>2. phase # "balance"
    BY <1>0, <1>6, RanksExist DEF OptimizerStep, Stages
  <2>. QED BY <1>6, <2>1, <2>2, OthersEven DEF OptimizerStep
<1>7. CASE \E r \in RankIds : PrepareMicroBatches(r)
  <2>1. PICK r \in RankIds : PrepareMicroBatches(r)
    BY <1>7
  <2>2. \A s \in RankIds : micro[s] # << >> => pc[s] = "forward" /\ pc'[s] = "forward"
    BY <1>0, <2>1 DEF PrepareMicroBatches, MicrosEven, TypeOK
  <2>3. phase # "balance"
    BY <1>0, <2>1 DEF PrepareMicroBatches, Stages
  <2>. QED BY <2>1, <2>2, <2>3, OthersEven DEF PrepareMicroBatches
<1>8. CASE \E r \in RankIds : ForwardsEnd(r)
  <2>1. PICK r \in RankIds : ForwardsEnd(r)
    BY <1>8
  <2>2. \A s \in RankIds : micro[s] # << >> => pc[s] = "forward" /\ pc'[s] = "forward"
    BY <1>0, <2>1 DEF ForwardsEnd, MicrosEven, TypeOK
  <2>3. phase # "balance"
    BY <1>0, <2>1 DEF ForwardsEnd, Stages
  <2>. QED BY <2>1, <2>2, <2>3, OthersEven DEF ForwardsEnd
<1>9. CASE UNCHANGED vars
  <2>1. CASE phase = "balance"
    <3>1. \A r \in RankIds : micro'[r] = << >>
      BY <1>0, <1>9, <2>1 DEF Stages, MicrosEven, vars
    <3>2. phase' = "balance"
      BY <1>9, <2>1 DEF vars
    <3>. QED BY <3>1, <3>2 DEF Even, RanksEven, MicrosEven
  <2>2. CASE phase # "balance"
    BY <1>0, <1>9, <2>2, OthersEven DEF vars, MicrosEven
  <2>. QED BY <2>1, <2>2
<1>. QED
  BY <1>1, <1>2, <1>3, <1>4, <1>5, <1>6, <1>7, <1>8, <1>9 DEF Next, Work, Over

\* What is within b pairwise has its largest and its least within b.
LEMMA EvenIsBalanced ==
  ASSUME Inv, Even
  PROVE  WorkIsBalanced
<1>. DEFINE w == Workloads(lens)
<1>0. TypeOK /\ Stages /\ lens \in [Rows -> Lengths] /\ w \in [Rows -> Nat \ {0}]
  BY GapIs DEF Inv, TypeOK
<1>1. \A s : LoadOf(s) = SumOver(w, Range(s))
  BY DEF LoadOf
<1>2. ASSUME NEW n \in Nat, NEW s \in [1..n -> Rows] PROVE LoadOf(s) \in Nat
  <2>1. IsFiniteSet(Range(s))
    <3>1. s \in Surjection(1..n, Range(s)) /\ IsFiniteSet(1..n)
      BY Interval DEF Surjection, Range
    <3>. QED BY <3>1, FS_Surjection
  <2>2. \A x \in Range(s) : w[x] \in Nat
    BY <1>0 DEF Range
  <2>. HIDE DEF w
  <2>. QED BY <1>1, <2>1, <2>2, SumIsNatural
<1>3. ASSUME phase # "balance"
      PROVE  LET ranks == {LoadOf(Chunk(r)) : r \in RankIds} IN Max(ranks) - Min(ranks) <= Gap
  <2>. DEFINE f == [r \in RankIds |-> LoadOf(Chunk(r))]
  <2>1. IsFiniteSet(RankIds) /\ RankIds # {}
    BY RanksExist, Constants, Interval DEF RankIds
  <2>2. ASSUME NEW r \in RankIds PROVE Chunk(r) \in [1..RowsPerRank -> Rows]
    <3>. DEFINE p == (r - 1) * RowsPerRank
                l == r * RowsPerRank
    <3>1. /\ p \in Int /\ RowsPerRank \in Nat
          /\ l \in Int /\ l = p + RowsPerRank
      BY Constants DEF RankIds
    <3>2. \A j \in 1..RowsPerRank : order[p + j] \in Rows
      <4>1. \A j \in 1..RowsPerRank : p + j \in Rows
        BY RowPlaces
      <4>. HIDE DEF p
      <4>. QED BY <1>0, <4>1 DEF TypeOK
    <3>. DEFINE c == SubSeq(order, p + 1, l)
    <3>3. Chunk(r) = c
      BY DEF Chunk
    <3>. HIDE DEF p, l
    <3>4. /\ SubSeq(order, p + 1, l) \in [1..RowsPerRank -> Rows]
          /\ \A j \in 1..RowsPerRank : SubSeq(order, p + 1, l)[j] = order[p + j]
      <4>1. ASSUME NEW s, NEW g \in Int, NEW n \in Nat, NEW u \in Int, u = g + n,
                   \A i \in 1..n : s[g + i] \in Rows
            PROVE  /\ SubSeq(s, g + 1, u) \in [1..n -> Rows]
                   /\ \A i \in 1..n : SubSeq(s, g + 1, u)[i] = s[g + i]
        BY ONLY <4>1, Subsequence
      <4>. QED BY ONLY <3>1, <3>2, <4>1
    <3>. QED BY <3>3, <3>4
  <2>3. f \in [RankIds -> Nat]
    BY <1>2, <2>2, Constants
  <2>4. \A r, s \in RankIds : f[r] - f[s] <= Gap
    BY <1>3 DEF Even, RanksEven
  <2>5. {LoadOf(Chunk(r)) : r \in RankIds} = Range(f)
    BY DEF Range
  <2>. HIDE DEF f
  <2>6. Max(Range(f)) - Min(Range(f)) <= Gap
    BY <2>1, <2>3, <2>4, WithinOf
  <2>. QED BY <2>5, <2>6
<1>4. ASSUME NEW r \in RankIds, micro[r] # << >>
      PROVE  LET parts == {LoadOf(RowsOf(r, micro[r][i])) : i \in DOMAIN micro[r]} IN
             Max(parts) - Min(parts) <= Heaviest(r)
  <2>. DEFINE ms == micro[r]
              f == [i \in DOMAIN ms |-> LoadOf(RowsOf(r, ms[i]))]
              n == Size(turn[r])
              P == Piece(r)
              b == Heaviest(r)
  <2>1. pc[r] = "forward" /\ LoadsEven(r, ms, b)
    BY <1>4 DEF Even, MicrosEven
  <2>2. n \in Nat /\ P \in [1..n -> Rows]
    <3>1. turn[r] # 0
      BY <1>0, <2>1, AtWork
    <3>. QED BY <1>0, <3>1, PiecesAre, Constants
  <2>3. Splits(ms, index[r], n)
    BY <2>1 DEF Inv, WorkAddsUp, Working
  <2>4. \A s : RowsOf(r, s) = [p \in DOMAIN s |-> P[s[p]]]
    BY DEF RowsOf
  <2>. HIDE DEF ms, n, P, b
  <2>5. ms \in Seq(Seq(1..n)) /\ ms # << >> /\ DOMAIN ms = 1..Len(ms)
    BY <1>4, <2>3 DEF Splits, ms
  <2>6. IsFiniteSet(DOMAIN ms) /\ DOMAIN ms # {}
    <3>1. Len(ms) \in Nat /\ 1 \in DOMAIN ms
      BY <2>5
    <3>. QED BY <2>5, <3>1, Interval
  <2>7. ASSUME NEW i \in DOMAIN ms PROVE LoadOf(RowsOf(r, ms[i])) \in Nat
    <3>. DEFINE s == ms[i]
    <3>1. s \in Seq(1..n)
      BY <2>5
    <3>. HIDE DEF s
    <3>2. Len(s) \in Nat /\ DOMAIN s = 1..Len(s) /\ \A p \in 1..Len(s) : s[p] \in 1..n
      <4>1. \A p \in 1..Len(s) : s[p] \in 1..n
        BY ONLY <3>1, ElementsOf
      <4>. QED BY <3>1, <4>1
    <3>3. RowsOf(r, s) \in [1..Len(s) -> Rows]
      BY <2>2, <2>4, <3>2
    <3>. QED BY <1>2, <3>2, <3>3 DEF s
  <2>8. f \in [DOMAIN ms -> Nat]
    BY <2>7
  <2>9. \A i, j \in DOMAIN ms : f[i] - f[j] <= b
    BY <2>1 DEF LoadsEven
  <2>10. {LoadOf(RowsOf(r, ms[i])) : i \in DOMAIN ms} = Range(f)
    BY DEF Range
  <2>. HIDE DEF f
  <2>11. Max(Range(f)) - Min(Range(f)) <= b
    BY <2>6, <2>8, <2>9, WithinOf
  <2>. QED BY <2>10, <2>11 DEF ms, b
<1>. HIDE DEF w
<1>. QED BY <1>1, <1>3, <1>4 DEF WorkIsBalanced, Gap, Heaviest, LoadOf, w

-------------------------------------------------------------------------------
(* The theorems. *)

\* Every step, of the driver or of the ranks, keeps the invariant.
LEMMA NextKeepsInv == Inv /\ [Next]_vars => Inv'
<1>. SUFFICES ASSUME Inv, [Next]_vars PROVE Inv'
  OBVIOUS
<1>1. CASE BalanceBatch
  BY <1>1, BalanceStep
<1>2. CASE GatherLogProbs
  BY <1>2, GatherStep
<1>3. CASE UpdateEnds
  BY <1>3, UpdateEndsStep
<1>4. CASE AllReduceCount
  BY <1>4, AllReduceStep
<1>5. CASE Forward
  BY <1>5, ForwardStep
<1>6. CASE OptimizerStep
  BY <1>6, OptimizerStepKeeps
<1>7. CASE \E r \in RankIds : PrepareMicroBatches(r)
  BY <1>7, PrepareStep
<1>8. CASE \E r \in RankIds : ForwardsEnd(r)
  BY <1>8, ForwardsEndStep
<1>9. CASE UNCHANGED vars
  <2>1. /\ TypeOK /\ Stages /\ CountsFit /\ WorkAddsUp /\ TurnsAreCredited
        /\ ForwardsMatch /\ LogProbsComeBack
    BY DEF Inv
  <2>2. /\ \A t : Size(t)' = Size(t)
        /\ \A q, s : RowsOf(q, s)' = RowsOf(q, s)
        /\ \A q, j : RowAt(q, j)' = RowAt(q, j)
    BY <1>9, SamePieces DEF vars
  <2>3. TypeOK' /\ Stages' /\ ForwardsMatch' /\ LogProbsComeBack'
    BY <1>9, <2>1 DEF vars, TypeOK, Stages, ForwardsMatch, LogProbsComeBack
  <2>4. CountsFit' /\ WorkAddsUp' /\ TurnsAreCredited'
    BY <1>9, <2>1, <2>2 DEF vars, CountsFit, WorkAddsUp, Working, TurnsAreCredited
  <2>. QED BY <2>3, <2>4 DEF Inv
<1>. QED
  BY <1>1, <1>2, <1>3, <1>4, <1>5, <1>6, <1>7, <1>8, <1>9 DEF Next, Work, Over

LEMMA Invariance == Spec => []Inv
<1>1. Init => Inv
  BY InitInv
<1>2. Inv /\ [Next]_vars => Inv'
  BY NextKeepsInv
<1>. QED BY <1>1, <1>2, PTL DEF Spec

\* The driver's order has every row once, the positions before and behind a rank are
\* those of its piece, a turn is one of the epochs' mini-batches, and no row is
\* trained more often than there are epochs (seqlen_balancing.py, dp_actor.py).
THEOREM BatchTypes == Spec => []TypeOK
<1>1. Inv => TypeOK
  BY DEF Inv
<1>. QED BY <1>1, Invariance, PTL

\* Whatever the lengths of the rows, all ranks have the same number of micro-batches
\* before them at every forward: rearrange_micro_batches makes as many as it is told,
\* and none of them is empty (seqlen_balancing.py, get_seqlen_balanced_partitions).
THEOREM RanksForwardTogether == Spec => []ForwardsMatch
<1>1. Inv => ForwardsMatch
  BY DEF Inv
<1>. QED BY <1>1, Invariance, PTL

\* For every partition the balancing may come to, the rows' log-probabilities are back
\* in the driver's order when the chunks are joined (restore_dynamic_batch, collect).
THEOREM LogProbsAreRestored == Spec => []LogProbsComeBack
<1>1. Inv => LogProbsComeBack
  BY DEF Inv
<1>. QED BY <1>1, Invariance, PTL

\* When the update is over, every row of the batch has been in exactly one optimizer
\* step of each epoch, also where the last mini-batch is short (update_policy).
THEOREM RowsTrainOncePerEpoch == Spec => []EveryRowTrains
<1>1. Inv => EveryRowTrains
  <2>. SUFFICES ASSUME Inv, phase = "done", NEW i \in Rows PROVE credit[i] = Epochs
    BY DEF EveryRowTrains
  <2>1. TypeOK /\ Stages /\ TurnsAreCredited
    BY DEF Inv
  <2>2. PICK r \in RankIds : \E j \in 1..RowsPerRank : i = RowAt(r, j)
    <3>1. /\ order \in [Rows -> Rows]
          /\ \A x \in Rows, y \in Rows : order[x] = order[y] => x = y
      BY <2>1 DEF TypeOK, IsInjective
    <3>. QED BY <3>1, RowAtFacts
  <2>3. PICK j \in 1..RowsPerRank : i = RowAt(r, j)
    BY <2>2
  <2>. DEFINE b == (j - 1) \div MiniBatch
  <2>4. turn[r] - 1 = Turns
    <3>1. turn[r] = Turns + 1 /\ Turns \in Nat
      BY <2>1, TrainedFacts DEF Stages
    <3>. QED BY <3>1
  <2>5. credit[i] = Trained(Turns, b)
    BY <2>1, <2>3, <2>4 DEF TurnsAreCredited
  <2>6. b \in 0..(Parts - 1)
    BY PartsFacts
  <2>. HIDE DEF b
  <2>. QED BY <2>5, <2>6, TrainedFacts
<1>. QED BY <1>1, Invariance, PTL

\* The ranks' work is as even as the largest differencing method promises: no rank's
\* exceeds another's by more than the longest row's exceeds the shortest's, nor a
\* micro-batch's that of another before the same rank by more than that of the
\* longest row of the piece (seqlen_balancing.py, karmarkar_karp).
THEOREM WorkStaysBalanced == Spec => []WorkIsBalanced
<1>1. Init => Even
  BY DEF Init, Even, RanksEven, MicrosEven
<1>2. Inv /\ Even /\ [Next]_vars => Even'
  BY NextKeepsEven
<1>3. Inv /\ Even => WorkIsBalanced
  BY EvenIsBalanced
<1>. QED BY <1>1, <1>2, <1>3, Invariance, PTL DEF Spec
===============================================================================
