---------------------------- MODULE BatchPipeline ----------------------------
(***************************************************************************)
(* The way of a training batch through the actor's data parallel ranks:    *)
(* the driver reorders it so that the ranks get similar work, every rank   *)
(* computes the log-probabilities of its chunk and then updates the        *)
(* policy, mini-batch by mini-batch.  Within each, rows are regrouped into *)
(* micro-batches by their lengths (use_dynamic_bsz).                       *)
(*                                                                         *)
(* A forward is a collective of all ranks, since parameters are sharded    *)
(* over them, and so is an optimizer step; a rank with fewer micro-batches *)
(* than the others would leave these waiting.  The log-probability of a    *)
(* row is modelled by the row.                                             *)
(***************************************************************************)
EXTENDS SeqlenBalancing

CONSTANTS
  Ranks,        \* the number of data parallel ranks
  RowsPerRank,  \* rows of the batch per rank
  Lengths,      \* the lengths a row may have, prompt and response
  MaxTokenLen,  \* log_prob_max_token_len_per_gpu and ppo_max_token_len_per_gpu
  MiniBatch,    \* ppo_mini_batch_size per rank
  Epochs        \* ppo_epochs

\* A row fits a micro-batch: rearrange_micro_batches asserts it.
ASSUME BatchAssumption ==
  /\ Ranks \in Nat \ {0} /\ RowsPerRank \in Nat \ {0}
  /\ Lengths \subseteq 1..MaxTokenLen /\ Lengths # {}
  /\ MaxTokenLen \in Nat /\ MiniBatch \in Nat \ {0} /\ Epochs \in Nat \ {0}

VARIABLES
  phase,    \* of the driver: "balance", "log_prob", "update", "done"
  lens,     \* the lengths of the rows
  order,    \* the rows in the order the driver has put them into
  old,      \* old_log_probs, at the places of the rows
  pc,       \* where each rank stands
  turn,     \* the mini-batch each rank is at
  count,    \* num_micro_batches of each rank
  micro,    \* the micro-batches before each rank, positions in its mini-batch
  index,    \* the positions of those it has computed, in their order
  output,   \* the rows it has computed, in their order
  credit    \* how often a row was part of an optimizer step

vars == <<phase, lens, order, old, pc, turn, count, micro, index, output, credit>>

Rows == 1..Ranks * RowsPerRank
RankIds == 1..Ranks
Turns == Epochs * CeilDiv(RowsPerRank, MiniBatch)

Init ==
  /\ phase = "balance"
  /\ lens \in [Rows -> Lengths]
  /\ order = [i \in Rows |-> i]
  /\ old = << >>
  /\ pc = [r \in RankIds |-> "idle"]
  /\ turn = [r \in RankIds |-> 0] /\ count = [r \in RankIds |-> 0]
  /\ micro = [r \in RankIds |-> << >>] /\ index = [r \in RankIds |-> << >>]
  /\ output = [r \in RankIds |-> << >>]
  /\ credit = [i \in Rows |-> 0]

-----------------------------------------------------------------------------
(* The driver.                                                              *)

\* The parts one after the other, in each the small rows at both ends.
BalancedOrder ==
  LET w == Workloads(lens)
      parts == Partitions(w, Ranks, TRUE)
      ends(p) == Odds(ByWorkload(w, p)) \o Reverse(Evens(ByWorkload(w, p))) IN
  FlattenSeq([r \in RankIds |-> ends(parts[r])])

\* Every rank gets its chunk and starts.
Dispatch ==
  /\ pc' = [r \in RankIds |-> "prepare"]
  /\ turn' = [r \in RankIds |-> 1]
  /\ UNCHANGED <<lens, count, micro, index, output, credit>>

BalanceBatch ==
  /\ phase = "balance" /\ phase' = "log_prob"
  /\ order' = BalancedOrder
  /\ Dispatch
  /\ UNCHANGED old

AllIdle == \A r \in RankIds : pc[r] = "idle"

\* Mutant: applied as an index, not inverted.
OutputIndexed(r) == [i \in DOMAIN output[r] |-> output[r][index[r][i]]]

\* restore_dynamic_batch: the inverse of the order the rows were computed in.
RestoredOutput(r) == [i \in DOMAIN output[r] |-> output[r][ReverseIdx(index[r])[i]]]

\* collect: the chunks of the ranks one after the other, joined to the batch.
GatherLogProbs ==
  /\ phase = "log_prob" /\ AllIdle /\ phase' = "update"
  /\ old' = FlattenSeq([r \in RankIds |-> RestoredOutput(r)])
  /\ Dispatch
  /\ UNCHANGED order

UpdateEnds ==
  /\ phase = "update" /\ AllIdle /\ phase' = "done"
  /\ UNCHANGED <<lens, order, old, pc, turn, count, micro, index, output, credit>>

-----------------------------------------------------------------------------
(* A rank.                                                                  *)

\* Its chunk, and the piece of it that it works on: all of it, or a mini-batch.
Chunk(r) == SubSeq(order, (r - 1) * RowsPerRank + 1, r * RowsPerRank)

\* Mutant: the last mini-batch is filled up with rows of the one before.
FullMiniBatchOf(r) ==
  LET from == ((turn[r] - 1) % CeilDiv(RowsPerRank, MiniBatch)) * MiniBatch
      full == Min({from, RowsPerRank - MiniBatch}) IN
  SubSeq(Chunk(r), full + 1, full + MiniBatch)

MiniBatchOf(r) ==
  LET from == ((turn[r] - 1) % CeilDiv(RowsPerRank, MiniBatch)) * MiniBatch IN
  SubSeq(Chunk(r), from + 1, IF from + MiniBatch < RowsPerRank
                             THEN from + MiniBatch ELSE RowsPerRank)

Piece(r) == IF phase = "log_prob" THEN Chunk(r) ELSE MiniBatchOf(r)
PieceLens(r) == [i \in DOMAIN Piece(r) |-> lens[Piece(r)[i]]]

\* How many micro-batches its tokens need; no more than it has rows.
PrepareMicroBatches(r) ==
  LET total == SumOver(PieceLens(r), DOMAIN PieceLens(r)) IN
  /\ pc[r] = "prepare" /\ pc' = [pc EXCEPT ![r] = "reduce"]
  /\ count' = [count EXCEPT ![r] = Min({Len(Piece(r)), CeilDiv(total, MaxTokenLen)})]
  /\ UNCHANGED <<phase, lens, order, old, turn, micro, index, output, credit>>

\* Mutant: every rank goes on with its own number.
AgreedCountIsOwn(r) == count[r]

\* all_reduce with MAX.
AgreedCount(r) == Max(Range(count))

\* A collective; then every rank makes its micro-batches.
AllReduceCount ==
  /\ \A r \in RankIds : pc[r] = "reduce"
  /\ pc' = [r \in RankIds |-> "forward"]
  /\ micro' = [r \in RankIds |-> MicroBatches(PieceLens(r), AgreedCount(r))]
  /\ index' = [r \in RankIds |-> << >>] /\ output' = [r \in RankIds |-> << >>]
  /\ UNCHANGED <<phase, lens, order, old, turn, count, credit>>

RowsOf(r, positions) == [i \in DOMAIN positions |-> Piece(r)[positions[i]]]

\* A collective: all ranks compute their next micro-batch.
Forward ==
  /\ \A r \in RankIds : pc[r] = "forward" /\ micro[r] # << >>
  /\ index' = [r \in RankIds |-> index[r] \o Head(micro[r])]
  /\ output' = [r \in RankIds |-> output[r] \o RowsOf(r, Head(micro[r]))]
  /\ micro' = [r \in RankIds |-> Tail(micro[r])]
  /\ UNCHANGED <<phase, lens, order, old, pc, turn, count, credit>>

\* No micro-batch is left: log-probabilities go back, or gradients are applied.
ForwardsEnd(r) ==
  /\ pc[r] = "forward" /\ micro[r] = << >>
  /\ pc' = [pc EXCEPT ![r] = IF phase = "log_prob" THEN "idle" ELSE "step"]
  /\ UNCHANGED <<phase, lens, order, old, turn, count, micro, index, output, credit>>

\* A collective, as gradients are clipped by their global norm.
OptimizerStep ==
  /\ \A r \in RankIds : pc[r] = "step"
  /\ credit' = [i \in Rows |-> credit[i] +
       Cardinality({x \in RankIds \X (1..RowsPerRank) :
                      x[2] \in DOMAIN output[x[1]] /\ output[x[1]][x[2]] = i})]
  /\ turn' = [r \in RankIds |-> turn[r] + 1]
  /\ pc' = [r \in RankIds |-> IF turn[r] < Turns THEN "prepare" ELSE "idle"]
  /\ UNCHANGED <<phase, lens, order, old, count, micro, index, output>>

Over == phase = "done" /\ UNCHANGED vars

Work ==
  \/ BalanceBatch \/ GatherLogProbs \/ UpdateEnds
  \/ AllReduceCount \/ Forward \/ OptimizerStep
  \/ \E r \in RankIds : PrepareMicroBatches(r) \/ ForwardsEnd(r)

Next == Work \/ Over

Spec == Init /\ [][Next]_vars

-----------------------------------------------------------------------------
\* Types; what a rank has before it and behind it are positions of its piece.
TypeOK ==
  /\ phase \in {"balance", "log_prob", "update", "done"}
  /\ lens \in [Rows -> Lengths]
  /\ order \in [Rows -> Rows] /\ IsInjective(order)
  /\ old = << >> \/ old \in [Rows -> Rows]
  /\ pc \in [RankIds -> {"idle", "prepare", "reduce", "forward", "step"}]
  /\ turn \in [RankIds -> 0..Turns + 1]
  /\ count \in [RankIds -> 0..RowsPerRank]
  /\ micro \in [RankIds -> Seq(Seq(1..RowsPerRank))]
  /\ index \in [RankIds -> Seq(1..RowsPerRank)]
  /\ output \in [RankIds -> Seq(Rows)]
  /\ credit \in [Rows -> 0..Epochs]

\* Balanced over ranks, regrouped by length, computed, restored and gathered, a
\* row's old log-probability stands where the row stands.
LogProbsComeBack == old # << >> => old = order

\* The work of a part never exceeds that of another by more than one row: of the
\* ranks by no more than the longest differs from the shortest row, of the
\* micro-batches of a rank by no more than its longest row.
WorkIsBalanced ==
  LET w == Workloads(lens)
      work(rows) == SumOver(w, rows)
      ranks == {work(Range(Chunk(r))) : r \in RankIds}
      parts(r) == {work(Range(RowsOf(r, micro[r][i]))) : i \in DOMAIN micro[r]} IN
  /\ phase # "balance" => Max(ranks) - Min(ranks) <= Max(Range(w)) - Min(Range(w))
  /\ \A r \in RankIds : micro[r] # << >> =>
       Max(parts(r)) - Min(parts(r)) <= Max({w[i] : i \in Range(Piece(r))})

\* Every row has taken part once per epoch in an optimizer step.
EveryRowTrains == phase = "done" => \A i \in Rows : credit[i] = Epochs

\* No rank is left waiting in a forward: whatever the lengths of their rows, all
\* ranks have the same number of micro-batches before them.
ForwardsMatch == \A r, s \in RankIds : Len(micro[r]) = Len(micro[s])

\* "max_token_len (int): max sum of attention_mask per micro-batch".  Violated: the
\* number of micro-batches follows from the sum of all rows, and two rows that do not
\* fit together may have to share one.
TokensFit ==
  \A r \in RankIds : \A i \in DOMAIN micro[r] :
    SumOver(lens, Range(RowsOf(r, micro[r][i]))) <= MaxTokenLen
=============================================================================
