---------------------------- MODULE RewardLimiter ----------------------------
(***************************************************************************)
(* RateLimitedRewardManager: the requests of one reward worker pass the    *)
(* token buckets of the request rate and of the token rate, then a         *)
(* semaphore, and compute their score under a timeout.                     *)
(*                                                                         *)
(* All requests are coroutines of one event loop: a step runs from one     *)
(* await to the next.  The decoding of a response and a score function     *)
(* that is not a coroutine run on the threads of the loop's default        *)
(* executor.  A timeout abandons a call that has started, and its thread   *)
(* stays taken until the call returns.                                     *)
(*                                                                         *)
(* Time is counted in ticks.  A bucket is refilled on every tick: acquire  *)
(* does it lazily, from the time elapsed, to the same effect, since        *)
(* nothing reads a bucket in between.                                      *)
(***************************************************************************)
EXTENDS Integers, Sequences, FiniteSets, SequencesExt

CONSTANTS
  Requests,       \* the samples whose reward is asked for
  Limiters,       \* the limiters that are set, in order: rpm, then tpm
  MaxConcurrent,  \* reward_model.max_concurrent
  Threads         \* the threads of the event loop's default executor

\* rate: tokens per tick; max: the bucket's capacity; cost: tokens a request
\* takes (1 of rpm, estimated_tokens_per_request of tpm).
ASSUME LimiterAssumption ==
  /\ IsFiniteSet(Requests)
  /\ Limiters \in Seq([rate : Nat \ {0}, max : Nat \ {0}, cost : Nat \ {0}])
  /\ MaxConcurrent \in Nat \ {0} /\ Threads \in Nat \ {0}

VARIABLES
  tokens,     \* of each limiter; below zero after a request larger than max
  stage,      \* where run_single of each request stands
  level,      \* the limiter a request is at
  timer,      \* ticks a sleeping request still sleeps
  permits,    \* the semaphore
  queue,      \* requests whose job waits for a thread of the executor
  running,    \* requests whose job has a thread
  abandoned   \* jobs that have a thread and nobody waiting for them

limiterVars ==
  <<tokens, stage, level, timer, permits, queue, running, abandoned>>

Stages == {"idle", "decoding", "acquiring", "paid", "waiting", "computing",
           "answered"}
Levels == DOMAIN Limiters

LimiterTypeOK ==
  /\ tokens \in [Levels -> Int]
  /\ stage \in [Requests -> Stages]
  /\ level \in [Requests -> 1..(Len(Limiters) + 1)]
  /\ timer \in [Requests -> Nat]
  /\ permits \in 0..MaxConcurrent
  /\ queue \in Seq(Requests) /\ IsInjective(queue)
  /\ running \subseteq Requests /\ running \cap Range(queue) = {}
  /\ abandoned \in 0..Threads

LimiterInit ==
  /\ tokens = [i \in Levels |-> Limiters[i].max]
  /\ stage = [r \in Requests |-> "idle"]
  /\ level = [r \in Requests |-> 1]
  /\ timer = [r \in Requests |-> 0]
  /\ permits = MaxConcurrent
  /\ queue = << >> /\ running = {} /\ abandoned = 0

-----------------------------------------------------------------------------
\* The default executor: jobs wait in order for a thread.

ThreadTakes ==
  /\ queue # << >>
  /\ Cardinality(running) + abandoned < Threads
  /\ running' = running \cup {Head(queue)}
  /\ queue' = Tail(queue)
  /\ UNCHANGED <<tokens, stage, level, timer, permits, abandoned>>

\* A score function that was given up returns at last, to nobody.
AbandonedEnds ==
  /\ abandoned > 0
  /\ abandoned' = abandoned - 1
  /\ UNCHANGED
       <<tokens, stage, level, timer, permits, queue, running>>

-----------------------------------------------------------------------------
\* run_single, up to its first await: the decoding is a job.
Ask(r) ==
  /\ stage[r] = "idle"
  /\ stage' = [stage EXCEPT ![r] = "decoding"]
  /\ level' = [level EXCEPT ![r] = 1]
  /\ queue' = Append(queue, r)
  /\ UNCHANGED <<tokens, timer, permits, running, abandoned>>

\* The stage of a request that has reached limiter i.
StageAt(i) == IF i \in Levels THEN "acquiring" ELSE "waiting"

Decoded(r) ==
  /\ stage[r] = "decoding" /\ r \in running
  /\ running' = running \ {r}
  /\ stage' = [stage EXCEPT ![r] = StageAt(1)]
  /\ UNCHANGED <<tokens, level, timer, permits, queue, abandoned>>

\* wait_time, in whole ticks.
WaitTime(i, needed) == (needed + Limiters[i].rate - 1) \div Limiters[i].rate

Passes(r) ==
  /\ level' = [level EXCEPT ![r] = @ + 1]
  /\ stage' = [stage EXCEPT ![r] = StageAt(level[r] + 1)]

\* Mutant: the wait of a large request is for what the bucket cannot hold,
\* whatever it holds now.
NeededBeyondMax(i, cost) == cost - Limiters[i].max

\* tokens_needed.
Needed(i, cost) == cost - tokens[i]

\* acquire of a request that the bucket can hold: it takes its tokens, or
\* sleeps for what is missing and tries again.
AcquireOrSleep(r) ==
  LET i == level[r]
      cost == Limiters[i].cost
  IN  /\ cost <= Limiters[i].max
      /\ IF tokens[i] >= cost
           THEN /\ tokens' = [tokens EXCEPT ![i] = @ - cost]
                /\ Passes(r)
                /\ UNCHANGED timer
           ELSE /\ timer' =
                     [timer EXCEPT ![r] = WaitTime(i, Needed(i, cost))]
                /\ UNCHANGED <<tokens, stage, level>>

\* acquire of a request larger than the bucket: it takes its tokens at once,
\* below zero, and sleeps until the bucket has made up for them.
AcquireLarge(r) ==
  LET i == level[r]
      cost == Limiters[i].cost
  IN  /\ cost > Limiters[i].max
      /\ tokens' = [tokens EXCEPT ![i] = @ - cost]
      /\ timer' = [timer EXCEPT ![r] = WaitTime(i, Needed(i, cost))]
      /\ stage' = [stage EXCEPT ![r] = "paid"]
      /\ UNCHANGED level

Acquire(r) ==
  /\ stage[r] = "acquiring" /\ timer[r] = 0
  /\ AcquireOrSleep(r) \/ AcquireLarge(r)
  /\ UNCHANGED <<permits, queue, running, abandoned>>

PaidWakes(r) ==
  /\ stage[r] = "paid" /\ timer[r] = 0
  /\ Passes(r)
  /\ UNCHANGED <<tokens, timer, permits, queue, running, abandoned>>

Smaller(a, b) == IF a <= b THEN a ELSE b

Tick ==
  /\ (\E r \in Requests : timer[r] > 0)
       \/ (\E i \in Levels : tokens[i] < Limiters[i].max)
  /\ timer' = [r \in Requests |-> IF timer[r] > 0 THEN timer[r] - 1 ELSE 0]
  /\ tokens' = [i \in Levels |->
                  Smaller(tokens[i] + Limiters[i].rate, Limiters[i].max)]
  /\ UNCHANGED <<stage, level, permits, queue, running, abandoned>>

\* Inside the semaphore _compute_reward hands the score function to the
\* executor, and wait_for starts the clock.
EnterSemaphore(r) ==
  /\ stage[r] = "waiting" /\ permits > 0
  /\ permits' = permits - 1
  /\ stage' = [stage EXCEPT ![r] = "computing"]
  /\ queue' = Append(queue, r)
  /\ UNCHANGED <<tokens, level, timer, running, abandoned>>

Answered(r) == stage' = [stage EXCEPT ![r] = "answered"]

\* The score function returns, or raises: an exception is an answer too, of
\* 0.0 like a timeout's.
Computed(r) ==
  /\ stage[r] = "computing" /\ r \in running
  /\ running' = running \ {r}
  /\ permits' = permits + 1
  /\ Answered(r)
  /\ UNCHANGED <<tokens, level, timer, queue, abandoned>>

\* Mutant: the permit is released on the path of a result only.
TimedOutKeepsPermit(r) ==
  /\ stage[r] = "computing"
  /\ queue' = SelectSeq(queue, LAMBDA q : q # r)
  /\ running' = running \ {r}
  /\ abandoned' = abandoned + (IF r \in running THEN 1 ELSE 0)
  /\ Answered(r)
  /\ UNCHANGED <<tokens, level, timer, permits>>

\* wait_for gives up.  A job still in the queue is cancelled; one that has
\* started cannot be.
TimedOut(r) ==
  /\ stage[r] = "computing"
  /\ queue' = SelectSeq(queue, LAMBDA q : q # r)
  /\ running' = running \ {r}
  /\ abandoned' = abandoned + (IF r \in running THEN 1 ELSE 0)
  /\ permits' = permits + 1
  /\ Answered(r)
  /\ UNCHANGED <<tokens, level, timer>>

\* Its caller takes the answer.
Collect(r) ==
  /\ stage[r] = "answered"
  /\ stage' = [stage EXCEPT ![r] = "idle"]
  /\ UNCHANGED
       <<tokens, level, timer, permits, queue, running, abandoned>>

LimiterNext ==
  \/ ThreadTakes \/ AbandonedEnds \/ Tick
  \/ \E r \in Requests :
       \/ Decoded(r) \/ Acquire(r) \/ PaidWakes(r)
       \/ EnterSemaphore(r) \/ Computed(r) \/ TimedOut(r)

-----------------------------------------------------------------------------
\* What a limiter has let through never exceeds what its bucket was filled
\* with: the debt of the bucket is at most what the requests still asleep
\* have taken in advance.  (AsyncTokenBucket.acquire, where requests that
\* wait, large requests that borrow and refills meet in any order.)
LetThroughIsPaid ==
  \A i \in Levels :
    LET asleep == {r \in Requests :
                     stage[r] = "paid" /\ level[r] = i /\ timer[r] > 0}
    IN  tokens[i] + Cardinality(asleep) * Limiters[i].cost >= 0
=============================================================================
