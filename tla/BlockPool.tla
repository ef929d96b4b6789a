------------------------------- MODULE BlockPool -------------------------------
(***************************************************************************)
(* The pool of KV cache blocks: the queue of free blocks in eviction       *)
(* order, the reference counts, and the prefix cache.                      *)
(*                                                                         *)
(* A block that is full of committed tokens gets a hash by which other     *)
(* requests find it; freed, it keeps the hash and can still be found until *)
(* it is handed out again.  Hashes are chained: the hash of a request's    *)
(* i-th block is modelled by the tokens of its first i blocks.  Block 0 is *)
(* the null block, it belongs to nobody and is never freed.                *)
(***************************************************************************)
EXTENDS SequencesExt, Integers

CONSTANTS
  NumBlocks,  \* blocks that can be used, the null block not counted
  BlockSize

ASSUME BlocksAssumption == {NumBlocks, BlockSize} \subseteq Nat \ {0}

Blocks == 1..NumBlocks
NullBlock == 0

\* A block without a hash.
NoHash == <<>>

\* The elements of a sequence that are in S, in their order.
Only(seq, S) ==
  LET places == {i \in DOMAIN seq : seq[i] \in S}
      rank(i) == Cardinality({j \in places : j <= i})
  IN  [n \in 1..Cardinality(places) |-> seq[CHOOSE i \in places : rank(i) = n]]

FullPool ==
  [free |-> [b \in Blocks |-> b],
   ref  |-> [b \in Blocks |-> 0],
   hash |-> [b \in Blocks |-> NoHash]]

\* get_new_blocks takes the next n blocks of the free queue.  Whatever could be
\* found in them no longer can.
NextFree(pool, n) == SubSeq(pool.free, 1, n)

GetNewBlocks(pool, n) ==
  LET new == ToSet(NextFree(pool, n)) IN
  [free |-> SubSeq(pool.free, n + 1, Len(pool.free)),
   ref  |-> [b \in Blocks |-> IF b \in new THEN pool.ref[b] + 1 ELSE pool.ref[b]],
   hash |-> [b \in Blocks |-> IF b \in new THEN NoHash ELSE pool.hash[b]]]

\* Blocks found in the prefix cache get one more holder, and leave the free queue if
\* they were in it.
Touch(pool, found) ==
  [pool EXCEPT
     !.free = Only(@, Blocks \ {b \in ToSet(found) : pool.ref[b] = 0}),
     !.ref = [b \in Blocks |-> IF b \in ToSet(found) THEN @[b] + 1 ELSE @[b]]]

\* Blocks of one request are released; those without another holder are appended to
\* the free queue in the order given.
FreeBlocks(pool, ordered) ==
  LET ref == [b \in Blocks |->
                IF b \in ToSet(ordered) THEN pool.ref[b] - 1 ELSE pool.ref[b]]
  IN  [pool EXCEPT !.ref = ref,
                   !.free = @ \o Only(ordered, {b \in Blocks : ref[b] = 0})]

\* Blocks number from + 1 to number to of a request with these tokens are full.
CacheFullBlocks(pool, blocks, from, to, tokens) ==
  [pool EXCEPT !.hash = [b \in Blocks |->
     IF \E i \in (from + 1)..to : blocks[i] = b
       THEN SubSeq(tokens, 1,
              BlockSize * CHOOSE i \in (from + 1)..to : blocks[i] = b)
       ELSE @[b]]]

\* Nothing happens while a block is in use; the callers do not look at the result.
ResetPrefixCache(pool) ==
  IF Len(pool.free) < NumBlocks
    THEN pool
    ELSE [pool EXCEPT !.hash = [b \in Blocks |-> NoHash]]

\* The longest sequences of cached blocks that hold a prefix of these tokens.  The
\* last token is never taken from the cache, its logits are needed.  When several
\* blocks have a hash get_one_block gives any.
Found(pool, tokens, i) == {b \in Blocks : pool.hash[b] = SubSeq(tokens, 1, i * BlockSize)}

FindLongestCacheHit(pool, tokens) ==
  LET most == (Len(tokens) - 1) \div BlockSize
      length == Max({n \in 0..most : \A i \in 1..n : Found(pool, tokens, i) # {}})
  IN  {hit \in [1..length -> Blocks] : \A i \in 1..length : hit[i] \in Found(pool, tokens, i)}
==============================================================================
