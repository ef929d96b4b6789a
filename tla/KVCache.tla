-------------------------------- MODULE KVCache --------------------------------
(***************************************************************************)
(* KVScheduler with the worker that does what it schedules: the rows of    *)
(* the persistent batch, their block tables, and what is in the KV cache.  *)
(*                                                                         *)
(* The keys and values of a token depend on all tokens up to it and on the *)
(* weights, so that a slot's content is modelled by these two.  What the   *)
(* target computes for drafts that are rejected, and all that the drafter  *)
(* computes, is Scratch: it must have been overwritten before it is read.  *)
(***************************************************************************)
EXTENDS KVScheduler

VARIABLES
  rows,   \* the requests of the persistent batch, by row
  table,  \* the block table: what a request left in a row stays there
  kv      \* the content of a slot

workerVars == <<rows, table, kv>>
vars == <<schedulerVars, workerVars>>

Rows == 1..MaxNumSeqs
Columns == 1..BlocksFor(MaxModelLen)

Scratch == [prefix |-> <<>>, weights |-> 0]
Content(prefix) == [prefix |-> prefix, weights |-> rollout]

KVInit ==
  /\ Init
  /\ rows = <<>>
  /\ table = [row \in Rows |-> [column \in Columns |-> NullBlock]]
  /\ kv = [b \in Blocks |-> [offset \in 0..(BlockSize - 1) |-> Scratch]]

-------------------------------------------------------------------------------
(* The persistent batch. *)

NthSmallest(S, n) == CHOOSE x \in S : Cardinality({y \in S : y < x}) = n - 1
NthLargest(S, n) == CHOOSE x \in S : Cardinality({y \in S : y > x}) = n - 1

RowIn(batchRows, r) == CHOOSE row \in DOMAIN batchRows : batchRows[row] = r

\* _update_states: what is not scheduled leaves the batch, the rest of the step's batch
\* joins it in the smallest empty rows, and condense moves the last rows into those
\* still empty.
UpdatedRows ==
  LET batch == ToSet(step'.batch)
      stay == {row \in DOMAIN rows : rows[row] \in batch /\ rows[row] \notin finishedIds}
      joining == Only(step'.batch, Requests \ {rows[row] : row \in stay})
      joined == {NthSmallest(Rows \ stay, n) : n \in DOMAIN joining}
      n == Cardinality(batch)
      occupied == stay \cup joined
      at(row) == IF row \in stay THEN rows[row]
                 ELSE joining[Cardinality({j \in joined : j <= row})]
      hole(row) == Cardinality({h \in (1..n) \ occupied : h <= row})
  IN  [row \in 1..n |-> IF row \in occupied THEN at(row)
                        ELSE at(NthLargest(occupied, hole(row)))]

\* Mutant: a request that is moved leaves its block table behind.
UpdatedTableNotMoved ==
  [row \in Rows |-> [column \in Columns |->
     IF row \in DOMAIN rows' /\ column <= Len(blocks[rows'[row]])
          /\ \A other \in DOMAIN rows \ {row} : rows[other] # rows'[row]
       THEN blocks[rows'[row]][column]
       ELSE table[row][column]]]

\* A row that gets a request, or a request that gets blocks, has its first columns
\* written; a row that is moved is copied as far as it has blocks.
UpdatedTable ==
  LET entry(r, column, default) ==
        IF r \in ToSet(step'.batch) /\ column <= Len(blocks[r]) THEN blocks[r][column]
        ELSE default
  IN  [row \in Rows |-> [column \in Columns |->
        IF row \in DOMAIN rows' THEN entry(rows'[row], column, table[row][column])
        ELSE IF row \in DOMAIN rows THEN entry(rows[row], column, table[row][column])
        ELSE table[row][column]]]

WorkerForward ==
  /\ Forward
  /\ rows' = UpdatedRows
  /\ table' = UpdatedTable
  /\ UNCHANGED kv

-------------------------------------------------------------------------------
(* What is written. *)

BlockAt(r, position) == table[RowIn(rows, r)][position \div BlockSize + 1]

\* The cache after writing(p) has been written for the positions of request r.
WriteKV(r, positions, writing(_)) ==
  [b \in Blocks |-> [offset \in 0..(BlockSize - 1) |->
     IF \E p \in positions : BlockAt(r, p) = b /\ p % BlockSize = offset
       THEN writing(CHOOSE p \in positions : BlockAt(r, p) = b /\ p % BlockSize = offset)
       ELSE kv[b][offset]]]

\* The positions of r that the step computes; the scheduler has counted them.
StepPositions(r) == (computed[r] - step.scheduled[r])..(computed[r] - 1)

TargetWrites(r, ts, correct) ==
  kv' = WriteKV(r, StepPositions(r),
                LAMBDA p : IF p < correct THEN Content(SubSeq(ts, 1, p + 1)) ELSE Scratch)

WorkerPrefill(r) ==
  /\ PrefillContinues(r)
  /\ TargetWrites(r, tokens[r], computed[r])
  /\ UNCHANGED <<rows, table>>

WorkerGenerates(r, accepted, new) ==
  /\ RequestContinues(r, accepted, new) \/ RequestStops(r, accepted, new)
  /\ TargetWrites(r, tokens[r] \o new, ComputedAfter(r, accepted))
  /\ UNCHANGED <<rows, table>>

\* propose: the drafter starts at the token just sampled, the rejected ones having been
\* taken back, and computes a position for each draft.
DrafterWritesKV == Method # "ngram"

DraftPositions(r) ==
  {p \in computed[r]..(computed[r] + Gamma - 1) : p < MaxModelLen}

WorkerProposes ==
  /\ PostStep
  /\ kv' = IF specEnabled /\ step.fits /\ DrafterWritesKV
             THEN [b \in Blocks |-> [offset \in 0..(BlockSize - 1) |->
                    IF \E r \in ToSet(step.batch) : \E p \in DraftPositions(r) :
                         BlockAt(r, p) = b /\ p % BlockSize = offset
                      THEN Scratch ELSE kv[b][offset]]]
             ELSE kv
  /\ UNCHANGED <<rows, table>>

Schedule ==
  \/ StartStep
  \/ \E r \in Requests : ScheduleRunning(r) \/ PreemptLast(r)
  \/ RunningScheduled
  \/ waiting # <<>> /\ \E found \in FindLongestCacheHit(pool, tokens[Head(waiting)]) :
                         AdmitWaiting(Head(waiting), found)
  \/ WaitingScheduled

KVNext ==
  \/ Schedule /\ UNCHANGED workerVars
  \/ WorkerForward
  \/ \E r \in Requests : WorkerPrefill(r)
  \/ \E r \in Requests, accepted \in 0..Gamma :
       \E new \in [1..(accepted + 1) -> SampledTokens \cup {EOS}] :
         WorkerGenerates(r, accepted, new)
  \/ WorkerProposes
  \/ \E r \in Requests : (AddRequest(r) \/ FinishRequest(r)) /\ UNCHANGED workerVars
  \/ SleepAndWakeUp /\ UNCHANGED workerVars

\* The worker does its part in the scheduler's steps, and holds none of them up.
KVSpec == KVInit /\ [][KVNext]_vars /\ Fairness

-------------------------------------------------------------------------------
(* Properties. *)

KVTypeOK ==
  /\ TypeOK
  /\ rows \in Seq(Requests) /\ Len(rows) <= MaxNumSeqs
  /\ table \in [Rows -> [Columns -> Blocks \cup {NullBlock}]]

\* What a running request has computed is in its blocks: for each position, the keys and
\* values the present weights give for the request's own tokens.  No other request has
\* written there, through its block table, through a block it found in the prefix cache
\* or through one that was freed too early; nothing there is of rejected drafts, of the
\* drafter, or of the weights of an earlier rollout.
ComputedKVIsOwn ==
  phase = "idle" =>
    \A r \in ToSet(running) : \A p \in 0..(computed[r] - 1) :
      kv[blocks[r][p \div BlockSize + 1]][p % BlockSize]
        = Content(SubSeq(tokens[r], 1, p + 1))

\* Nor is anything else found in the prefix cache.
CachedKVIsCurrent ==
  phase = "idle" =>
    \A b \in Blocks : \A offset \in 0..(BlockSize - 1) :
      pool.hash[b] # NoHash =>
        kv[b][offset] = Content(SubSeq(pool.hash[b], 1,
                                       Len(pool.hash[b]) - BlockSize + offset + 1))
==============================================================================
