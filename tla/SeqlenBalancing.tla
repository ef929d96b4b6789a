--------------------------- MODULE SeqlenBalancing ---------------------------
(***************************************************************************)
(* The partitions of verl/utils/seqlen_balancing.py: rows of a batch are   *)
(* distributed over k parts so that their workloads are close, by the      *)
(* largest differencing method of Karmarkar and Karp.                      *)
(*                                                                         *)
(* Rows are 1..Len(w) for a sequence w of workloads.  A part is            *)
(* [sum, items, first]: the code compares the lists of items where sums    *)
(* and sizes are equal, which their first items decide, as no two parts    *)
(* have an item in common.  A tuple is a sequence of k parts in decreasing *)
(* order, the heap a set of tuples.                                        *)
(***************************************************************************)
EXTENDS Integers, Sequences, FiniteSets, SequencesExt

\* FLOPs of a row: 24576 * seqlen + seqlen^2, as calibrated in the code.
Workload(seqlen) == 24576 * seqlen + seqlen * seqlen
Workloads(lens) == [i \in DOMAIN lens |-> Workload(lens[i])]

CeilDiv(a, b) == (a + b - 1) \div b

SumOver(w, rows) == FoldFunctionOnSet(+, 0, w, rows)

\* The sequence itself.  TLC would compute each of its elements anew wherever it is used;
\* those of a concatenation it computes once.
Once(s) == s \o << >>

\* A set in the order of a strict total order on it.
SortedBy(S, before) ==
  Once([p \in 1..Cardinality(S) |->
          CHOOSE x \in S : Cardinality({y \in S : <<y, x>> \in before}) = p - 1])

Ascending(S) == SortedBy(S, {x \in S \X S : x[1] < x[2]})

\* The rows in increasing order of their workloads.
ByWorkload(w, rows) ==
  SortedBy(rows, {x \in rows \X rows : \/ w[x[1]] < w[x[2]]
                                       \/ w[x[1]] = w[x[2]] /\ x[1] < x[2]})

\* A sequence by a relation on its places; equals stay in their order.
StableSort(s, before) ==
  LET places == DOMAIN s
      sorted == SortedBy(places, {x \in places \X places :
                  x \in before \/ (<<x[2], x[1]>> \notin before /\ x[1] < x[2])}) IN
  Once([p \in places |-> s[sorted[p]]])

-----------------------------------------------------------------------------
NoItems == [sum |-> 0, items |-> {}, first |-> 0]
Single(i, w) == [sum |-> w[i], items |-> {i}, first |-> i]
Union(a, b) == [sum |-> a.sum + b.sum, items |-> a.items \cup b.items,
                first |-> IF a.items = {} THEN b.first ELSE a.first]

Bigger(a, b) ==
  \/ a.sum > b.sum
  \/ a.sum = b.sum /\ Cardinality(a.items) > Cardinality(b.items)
  \/ /\ a.sum = b.sum /\ Cardinality(a.items) = Cardinality(b.items)
     /\ a.first > b.first

Decreasing(parts) ==
  LET places == DOMAIN parts IN
  StableSort(parts, {x \in places \X places : Bigger(parts[x[1]], parts[x[2]])})
Spread(tuple) == tuple[1].sum - tuple[Len(tuple)].sum

\* Mutant: the largest part of one tuple gets the largest of the other.
MergeAlike(s, t) == Decreasing([i \in DOMAIN s |-> Union(s[i], t[i])])

\* The largest part of one gets the smallest of the other.
MergeTuples(s, t) ==
  Decreasing([i \in DOMAIN s |-> Union(s[i], t[Len(s) + 1 - i])])

\* The heap gives the tuple with the largest spread, then the largest part.
Top(heap) ==
  CHOOSE s \in heap : \A t \in heap \ {s} :
    Spread(s) > Spread(t) \/ (Spread(s) = Spread(t) /\ Bigger(s[1], t[1]))

CombineTop(heap) ==
  LET s == Top(heap)
      t == Top(heap \ {s}) IN
  (heap \ {s, t}) \cup {MergeTuples(s, t)}

\* One tuple per k rows of similar workload: every part gets one of them.
EqualTuples(w, k) ==
  LET sorted == ByWorkload(w, DOMAIN w) IN
  {Decreasing([j \in 1..k |-> Single(sorted[o * k + j], w)]) :
     o \in 0..(Len(w) \div k) - 1}

\* One tuple per row.
SingleTuples(w, k) ==
  {[j \in 1..k |-> IF j = 1 THEN Single(i, w) ELSE NoItems] : i \in DOMAIN w}

KarmarkarKarp(heap) ==
  LET merges == Cardinality(heap) - 1
      after[n \in 0..merges] == IF n = 0 THEN heap ELSE CombineTop(after[n - 1]) IN
  Top(after[merges])

\* get_seqlen_balanced_partitions: the sets of rows of the k parts.
Partitions(w, k, equalSize) ==
  LET tuple == KarmarkarKarp(IF equalSize THEN EqualTuples(w, k)
                             ELSE SingleTuples(w, k)) IN
  [j \in 1..k |-> tuple[j].items]

-----------------------------------------------------------------------------
EverySecond(s, from) == [i \in 1..((Len(s) - from) \div 2) + 1 |-> s[from + 2 * (i - 1)]]
Odds(s) == EverySecond(s, 1)
Evens(s) == EverySecond(s, 2)

\* rearrange_micro_batches: the parts by decreasing workload, small ones at both
\* ends; the rows of each in increasing order.
MicroBatches(lens, k) ==
  LET w == Workloads(lens)
      parts == Partitions(w, k, FALSE)
      work(i) == SumOver(w, parts[i])
      first(i) == IF parts[i] = {} THEN 0 ELSE Min(parts[i])
      heavier == {x \in (1..k) \X (1..k) :
                    \/ work(x[1]) > work(x[2])
                    \/ work(x[1]) = work(x[2]) /\ first(x[1]) > first(x[2])}
      sorted == StableSort(parts, heavier)
      zigzag == Reverse(Odds(sorted)) \o Evens(sorted) IN
  [i \in DOMAIN zigzag |-> Ascending(zigzag[i])]

\* get_reverse_idx: where each row has gone.
ReverseIdx(idx) == [row \in Range(idx) |-> CHOOSE i \in DOMAIN idx : idx[i] = row]
=============================================================================
