-------------------------- MODULE AgentRollout_proofs --------------------------
(***************************************************************************)
(* Proofs, for every number of samples and servers, every limit of turns   *)
(* and of lengths, whatever tools and users answer: that the policy is     *)
(* trained on exactly the tokens it has generated (ResponseIsAligned);     *)
(* that the server manager keeps its promises (SessionsAreSticky,          *)
(* LoadIsSpread, StatsAreOfThisBatch); and, for every list of limiters,    *)
(* that what passes one is paid for (LetThroughIsPaid).                    *)
(***************************************************************************)
EXTENDS AgentRollout, SequenceTheorems, FiniteSetTheorems, TLAPS

Tokens == {"prompt", "gen", "obs"}
Bits == {0, 1}
Marks == {"sampled", "zero"}

\* Mask m and log-probabilities p describe the end of the conversation t, which has
\* no token of the prompt.
Aligned(t, m, p) ==
  /\ t \in Seq(Tokens) /\ m \in Seq(Bits) /\ p \in Seq(Marks)
  /\ Len(m) <= Len(t) /\ Len(p) = Len(m)
  /\ \A i \in 1..Len(m) : LET x == t[Len(t) - Len(m) + i] IN
       /\ x # "prompt"
       /\ m[i] = 1 <=> x = "gen"
       /\ p[i] = "sampled" <=> x = "gen"

-------------------------------------------------------------------------------
(* Conversations.                                                          *)

LEMMA ConfigFacts ==
  /\ PromptLength \in Nat \ {0} /\ ResponseLength \in Nat \ {0}
  /\ MaxModelLen \in Nat /\ ObsLengths \subseteq Nat \ {0}
  BY AgentAssumption

LEMMA RepeatFacts ==
  ASSUME NEW X, NEW x \in X, NEW n \in Nat
  PROVE  /\ Repeat(x, n) \in Seq(X) /\ Len(Repeat(x, n)) = n
         /\ \A i \in 1..n : Repeat(x, n)[i] = x
  BY DEF Repeat

LEMMA ExtendedFacts ==
  ASSUME NEW X, NEW x \in X, NEW n \in Nat, NEW seq \in Seq(X)
  PROVE  /\ Extended(seq, x, n) \in Seq(X)
         /\ Len(Extended(seq, x, n)) = Len(seq) + n
         /\ \A i \in 1..Len(seq) : Extended(seq, x, n)[i] = seq[i]
         /\ \A i \in Len(seq) + 1..Len(seq) + n : Extended(seq, x, n)[i] = x
<1>. DEFINE r == Repeat(x, n)
<1>1. r \in Seq(X) /\ Len(r) = n /\ \A i \in 1..n : r[i] = x
  BY RepeatFacts
<1>. HIDE DEF r
<1>2. /\ seq \o r \in Seq(X) /\ Len(seq \o r) = Len(seq) + n
      /\ \A i \in 1..Len(seq) + n :
           (seq \o r)[i] = IF i <= Len(seq) THEN seq[i] ELSE r[i - Len(seq)]
  BY <1>1, ConcatProperties
<1>3. Len(seq) \in Nat
  BY LenProperties
<1>4. ASSUME NEW i \in Len(seq) + 1..Len(seq) + n
      PROVE  (seq \o r)[i] = x
  <2>1. i \in 1..Len(seq) + n /\ ~(i <= Len(seq)) /\ i - Len(seq) \in 1..n
    BY <1>3
  <2>. QED
    BY <1>1, <1>2, <2>1
<1>5. ASSUME NEW i \in 1..Len(seq) PROVE (seq \o r)[i] = seq[i]
  BY <1>2, <1>3
<1>. QED
  BY <1>2, <1>4, <1>5 DEF Extended, r

\* Tokens of the policy or of an answer, with what is recorded of them, keep a
\* conversation aligned.
LEMMA ExtendedIsAligned ==
  ASSUME NEW t, NEW m, NEW p, Aligned(t, m, p), NEW n \in Nat,
         NEW x \in {"gen", "obs"}, NEW b \in Bits, NEW l \in Marks,
         b = 1 <=> x = "gen", l = "sampled" <=> x = "gen"
  PROVE  Aligned(Extended(t, x, n), Extended(m, b, n), Extended(p, l, n))
<1>. DEFINE tt == Extended(t, x, n)
            mm == Extended(m, b, n)
            pp == Extended(p, l, n)
<1>1. /\ t \in Seq(Tokens) /\ m \in Seq(Bits) /\ p \in Seq(Marks)
      /\ Len(m) <= Len(t) /\ Len(p) = Len(m) /\ Len(t) \in Nat /\ Len(m) \in Nat
  BY LenProperties DEF Aligned
<1>2. /\ tt \in Seq(Tokens) /\ Len(tt) = Len(t) + n
      /\ \A i \in 1..Len(t) : tt[i] = t[i]
      /\ \A i \in Len(t) + 1..Len(t) + n : tt[i] = x
  <2>1. x \in Tokens
    BY DEF Tokens
  <2>2. t \in Seq(Tokens)
    BY <1>1
  <2>3. tt \in Seq(Tokens)
    BY <2>1, <2>2, ExtendedFacts
  <2>4. Len(tt) = Len(t) + n
    BY <2>1, <2>2, <2>3, ExtendedFacts, Z3
  <2>5. \A i \in 1..Len(t) : tt[i] = t[i]
    BY <2>1, <2>2, ExtendedFacts
  <2>6. \A i \in Len(t) + 1..Len(t) + n : tt[i] = x
    BY <2>1, <2>2, ExtendedFacts
  <2>. QED
    BY <2>3, <2>4, <2>5, <2>6
<1>3. /\ mm \in Seq(Bits) /\ Len(mm) = Len(m) + n
      /\ \A i \in 1..Len(m) : mm[i] = m[i]
      /\ \A i \in Len(m) + 1..Len(m) + n : mm[i] = b
  <2>1. m \in Seq(Bits)
    BY <1>1
  <2>3. mm \in Seq(Bits)
    BY <2>1, ExtendedFacts
  <2>4. Len(mm) = Len(m) + n
    BY <2>1, <2>3, ExtendedFacts, Z3
  <2>5. \A i \in 1..Len(m) : mm[i] = m[i]
    BY <2>1, ExtendedFacts
  <2>6. \A i \in Len(m) + 1..Len(m) + n : mm[i] = b
    BY <2>1, ExtendedFacts
  <2>. QED
    BY <2>3, <2>4, <2>5, <2>6
<1>4. /\ pp \in Seq(Marks) /\ Len(pp) = Len(m) + n
      /\ \A i \in 1..Len(m) : pp[i] = p[i]
      /\ \A i \in Len(m) + 1..Len(m) + n : pp[i] = l
  <2>1. /\ pp \in Seq(Marks) /\ Len(pp) = Len(p) + n
        /\ \A i \in 1..Len(p) : pp[i] = p[i]
        /\ \A i \in Len(p) + 1..Len(p) + n : pp[i] = l
    <3>1. p \in Seq(Marks)
      BY <1>1
    <3>3. pp \in Seq(Marks)
      BY <3>1, ExtendedFacts
    <3>4. Len(pp) = Len(p) + n
      BY <3>1, <3>3, ExtendedFacts, Z3
    <3>5. \A i \in 1..Len(p) : pp[i] = p[i]
      BY <3>1, ExtendedFacts
    <3>6. \A i \in Len(p) + 1..Len(p) + n : pp[i] = l
      BY <3>1, ExtendedFacts
    <3>. QED
      BY <3>3, <3>4, <3>5, <3>6
  <2>. QED
    BY <1>1, <2>1
<1>. HIDE DEF tt, mm, pp
<1>5. Len(tt) - Len(mm) = Len(t) - Len(m) /\ Len(mm) <= Len(tt) /\ Len(pp) = Len(mm)
  BY <1>1, <1>2, <1>3, <1>4
<1>6. ASSUME NEW i \in 1..Len(mm)
      PROVE  LET y == tt[Len(tt) - Len(mm) + i] IN
               /\ y # "prompt"
               /\ mm[i] = 1 <=> y = "gen"
               /\ pp[i] = "sampled" <=> y = "gen"
  <2>. DEFINE j == Len(t) - Len(m) + i
  <2>1. Len(tt) - Len(mm) + i = j
    BY <1>5
  <2>2. CASE i <= Len(m)
    <3>1. i \in 1..Len(m) /\ j \in 1..Len(t)
      BY <1>1, <2>2
    <3>2. tt[j] = t[j] /\ mm[i] = m[i] /\ pp[i] = p[i]
      BY <1>2, <1>3, <1>4, <3>1
    <3>. QED
      BY <2>1, <3>1, <3>2 DEF Aligned
  <2>3. CASE ~(i <= Len(m))
    <3>1. i \in Len(m) + 1..Len(m) + n /\ j \in Len(t) + 1..Len(t) + n
      BY <1>1, <1>3, <2>3
    <3>2. tt[j] = x /\ mm[i] = b /\ pp[i] = l
      BY <1>2, <1>3, <1>4, <3>1
    <3>. QED
      BY <2>1, <3>2
  <2>. QED
    BY <2>2, <2>3
<1>7. Aligned(tt, mm, pp)
  BY <1>2, <1>3, <1>4, <1>5, <1>6 DEF Aligned
<1>. QED
  BY <1>7 DEF tt, mm, pp

LEMMA TruncatedFacts ==
  ASSUME NEW X, NEW q \in Seq(X), q # << >>
  PROVE  /\ Len(Truncated(q)) = AtMost(Len(q), ResponseLength)
         /\ Len(Truncated(q)) \in 1..ResponseLength /\ Len(Truncated(q)) <= Len(q)
         /\ DOMAIN Truncated(q) = 1..Len(Truncated(q))
         /\ \A i \in 1..Len(Truncated(q)) : Truncated(q)[i] = q[i]
<1>1. Len(q) \in Nat /\ Len(q) # 0
  BY EmptySeq, LenProperties
<1>. DEFINE n == AtMost(Len(q), ResponseLength)
<1>2. n \in 1..ResponseLength /\ n <= Len(q)
  BY <1>1, ConfigFacts DEF AtMost
<1>. HIDE DEF n
<1>3. /\ Len(SubSeq(q, 1, n)) = n /\ DOMAIN SubSeq(q, 1, n) = 1..n
      /\ \A i \in 1..n : SubSeq(q, 1, n)[i] = q[i]
  BY <1>1, <1>2, ConfigFacts
<1>. QED
  BY <1>2, <1>3 DEF Truncated, n

LEMMA ExtendedIsNotEmpty ==
  ASSUME NEW X, NEW x \in X, NEW n \in Nat \ {0}, NEW seq \in Seq(X)
  PROVE  Extended(seq, x, n) # << >>
<1>1. Len(Extended(seq, x, n)) = Len(seq) + n
  <2>1. n \in Nat /\ Extended(seq, x, n) \in Seq(X)
    BY ExtendedFacts
  <2>. QED
    BY <2>1, ExtendedFacts, Z3
<1>2. Len(seq) \in Nat /\ Len(<< >>) = 0
  BY LenProperties
<1>. QED
  BY <1>1, <1>2

\* What run returns of an aligned conversation.
LEMMA ResponseOfAligned ==
  ASSUME NEW s \in Samples, Aligned(ids[s], mask[s], logprobs[s]), mask[s] # << >>
  PROVE  LET r == ResponseIds(s)
             m == ResponseMask(s)
             p == ResponseLogprobs(s)
         IN  /\ Len(r) \in 1..ResponseLength
             /\ Len(m) = Len(r) /\ Len(p) = Len(r)
             /\ \A i \in DOMAIN r :
                  /\ r[i] # "prompt"
                  /\ m[i] = 1 <=> r[i] = "gen"
                  /\ p[i] = "sampled" <=> r[i] = "gen"
<1>. DEFINE t == ids[s]
            b == mask[s]
            l == logprobs[s]
            e == SubSeq(t, Len(t) - Len(b) + 1, Len(t))
<1>1. /\ t \in Seq(Tokens) /\ b \in Seq(Bits) /\ l \in Seq(Marks)
      /\ Len(b) <= Len(t) /\ Len(l) = Len(b) /\ Len(t) \in Nat /\ Len(b) \in Nat
      /\ Len(b) # 0 /\ b # << >> /\ l # << >>
  BY EmptySeq, LenProperties DEF Aligned
<1>2. \A i \in 1..Len(b) : LET x == t[Len(t) - Len(b) + i] IN
        /\ x # "prompt"
        /\ b[i] = 1 <=> x = "gen"
        /\ l[i] = "sampled" <=> x = "gen"
  BY DEF Aligned
<1>. HIDE DEF t, b, l
<1>3. /\ e \in Seq(Tokens) /\ Len(e) = Len(b)
      /\ \A i \in 1..Len(b) : e[i] = t[Len(t) - Len(b) + i]
  BY <1>1
<1>. HIDE DEF e
<1>4. e # << >>
  BY <1>1, <1>3, EmptySeq
<1>5. /\ Len(Truncated(e)) = AtMost(Len(b), ResponseLength)
      /\ Len(Truncated(e)) \in 1..ResponseLength /\ Len(Truncated(e)) <= Len(b)
      /\ DOMAIN Truncated(e) = 1..Len(Truncated(e))
      /\ \A i \in 1..Len(Truncated(e)) : Truncated(e)[i] = e[i]
  BY <1>3, <1>4, TruncatedFacts
<1>6. /\ Len(Truncated(b)) = AtMost(Len(b), ResponseLength)
      /\ \A i \in 1..Len(Truncated(b)) : Truncated(b)[i] = b[i]
  BY <1>1, TruncatedFacts
<1>7. /\ Len(Truncated(l)) = AtMost(Len(b), ResponseLength)
      /\ \A i \in 1..Len(Truncated(l)) : Truncated(l)[i] = l[i]
  BY <1>1, TruncatedFacts
<1>8. /\ ResponseIds(s) = Truncated(e) /\ ResponseMask(s) = Truncated(b)
      /\ ResponseLogprobs(s) = Truncated(l)
  BY DEF ResponseIds, ResponseMask, ResponseLogprobs, t, b, l, e
<1>9. ASSUME NEW i \in DOMAIN Truncated(e)
      PROVE  /\ Truncated(e)[i] # "prompt"
             /\ Truncated(b)[i] = 1 <=> Truncated(e)[i] = "gen"
             /\ Truncated(l)[i] = "sampled" <=> Truncated(e)[i] = "gen"
  <2>1. i \in 1..Len(Truncated(e)) /\ i \in 1..Len(b)
    BY <1>1, <1>5
  <2>2. /\ Truncated(e)[i] = t[Len(t) - Len(b) + i]
        /\ Truncated(b)[i] = b[i] /\ Truncated(l)[i] = l[i]
    BY <1>3, <1>5, <1>6, <1>7, <2>1
  <2>. QED
    BY <1>2, <2>1, <2>2
<1>. QED
  BY <1>5, <1>6, <1>7, <1>8, <1>9

-------------------------------------------------------------------------------
(* The inductive invariant.                                                *)

\* Every sample has its conversation, and the parameters they share are a number.
DomainInv ==
  /\ DOMAIN state = Samples /\ DOMAIN flight = Samples /\ DOMAIN ids = Samples
  /\ DOMAIN mask = Samples /\ DOMAIN logprobs = Samples
  /\ maxTokens \in {0, ResponseLength}

\* A sample's conversation is aligned at every await; the response is empty until
\* the first turn returns, and not thereafter.
SampleInv(s) ==
  /\ Aligned(ids[s], mask[s], logprobs[s])
  /\ state[s] = "PENDING" => mask[s] = << >>
  /\ state[s] \notin {"PENDING", "GENERATING"} => mask[s] # << >>
  /\ state[s] = "GENERATING" => flight[s].max \in Int

IInv == DomainInv /\ \A s \in Samples : SampleInv(s)

LEMMA EmptyIsAligned == Aligned(<< >>, << >>, << >>)
  BY EmptySeq DEF Aligned

LEMMA InitIsInv == Init => IInv
<1>. SUFFICES ASSUME Init PROVE IInv
  OBVIOUS
<1>1. DomainInv
  BY DEF Init, AgentInit, DomainInv
<1>2. ASSUME NEW s \in Samples PROVE SampleInv(s)
  BY EmptyIsAligned DEF Init, AgentInit, SampleInv
<1>. QED
  BY <1>1, <1>2 DEF IInv

\* What a step leaves to a sample it is not about.
LEMMA OthersKeep ==
  ASSUME NEW s, SampleInv(s), state'[s] = state[s], flight'[s] = flight[s],
         ids'[s] = ids[s], mask'[s] = mask[s], logprobs'[s] = logprobs[s]
  PROVE  SampleInv(s)'
  BY DEF SampleInv

\* A turn of a sample is sent.
LEMMA SendFacts ==
  ASSUME DomainInv, NEW s \in Samples, NEW t \in Seq(Tokens),
         NEW given \in {0, ResponseLength}, Send(s, t, given)
  PROVE  /\ DOMAIN state' = Samples /\ DOMAIN flight' = Samples
         /\ state'[s] = "GENERATING" /\ flight'[s].max \in Int
         /\ \A o \in Samples \ {s} : state'[o] = state[o] /\ flight'[o] = flight[o]
<1>1. Len(t) \in Nat
  BY LenProperties
<1>2. MaxNewTokens(Len(t), given) \in Int
  BY <1>1, ConfigFacts DEF MaxNewTokens, AtMost
<1>. QED
  BY <1>2 DEF Send, DomainInv

-------------------------------------------------------------------------------
(* The steps of a sample.                                                  *)

LEMMA BeginPreserves ==
  ASSUME IInv, NEW s \in Samples, Begin(s)
  PROVE  IInv'
<1>1. PICK n \in 1..PromptLength :
        /\ ids' = [ids EXCEPT ![s] = Repeat("prompt", n)]
        /\ Send(s, ids'[s], maxTokens')
  BY DEF Begin
<1>2. /\ state[s] = "PENDING" /\ mask' = mask /\ logprobs' = logprobs
      /\ maxTokens' \in {0, ResponseLength}
  BY DEF Begin, IInv, DomainInv
<1>3. n \in Nat /\ "prompt" \in Tokens
  BY ConfigFacts DEF Tokens
<1>4. ids'[s] = Repeat("prompt", n) /\ ids'[s] \in Seq(Tokens) /\ Len(ids'[s]) = n
  <2>1. ids'[s] = Repeat("prompt", n)
    BY <1>1 DEF IInv, DomainInv
  <2>2. Repeat("prompt", n) \in Seq(Tokens) /\ Len(Repeat("prompt", n)) = n
    BY <1>3, RepeatFacts
  <2>. QED
    BY <2>1, <2>2
<1>5. /\ DOMAIN state' = Samples /\ DOMAIN flight' = Samples
      /\ state'[s] = "GENERATING" /\ flight'[s].max \in Int
      /\ \A o \in Samples \ {s} : state'[o] = state[o] /\ flight'[o] = flight[o]
  BY <1>1, <1>2, <1>4, SendFacts DEF IInv
<1>6. DomainInv'
  BY <1>1, <1>2, <1>5 DEF IInv, DomainInv
<1>7. SampleInv(s)'
  <2>1. mask[s] = << >> /\ Aligned(ids[s], mask[s], logprobs[s])
    BY <1>2 DEF IInv, SampleInv
  <2>2. Aligned(ids'[s], mask[s], logprobs[s])
    BY <1>3, <1>4, <2>1, EmptySeq DEF Aligned
  <2>. QED
    BY <1>2, <1>5, <2>2 DEF SampleInv
<1>8. ASSUME NEW o \in Samples \ {s} PROVE SampleInv(o)'
  BY <1>1, <1>2, <1>5, OthersKeep DEF IInv, DomainInv
<1>. QED
  BY <1>6, <1>7, <1>8 DEF IInv

LEMMA GenerateReturnsPreserves ==
  ASSUME IInv, NEW s \in Samples, GenerateReturns(s)
  PROVE  IInv'
<1>1. PICK n \in 1..flight[s].max, c \in ToolCalls :
        /\ ids' = [ids EXCEPT ![s] = Extended(@, "gen", n)]
        /\ mask' = [mask EXCEPT ![s] = Extended(@, 1, n)]
        /\ logprobs' = [logprobs EXCEPT ![s] = Extended(@, "sampled", n)]
        /\ state' = [state EXCEPT ![s] = NextState(s, c)]
  BY Zenon DEF GenerateReturns
<1>2. /\ state[s] = "GENERATING" /\ flight' = [flight EXCEPT ![s] = None]
      /\ maxTokens' = maxTokens
  BY DEF GenerateReturns
<1>3. n \in Nat \ {0}
  BY <1>2 DEF IInv, SampleInv
<1>4. DomainInv'
  BY <1>1, <1>2 DEF IInv, DomainInv
<1>5. SampleInv(s)'
  <2>1. Aligned(ids[s], mask[s], logprobs[s])
    BY DEF IInv, SampleInv
  <2>2. /\ ids'[s] = Extended(ids[s], "gen", n) /\ mask'[s] = Extended(mask[s], 1, n)
        /\ logprobs'[s] = Extended(logprobs[s], "sampled", n)
        /\ state'[s] = NextState(s, c)
    BY <1>1 DEF IInv, DomainInv
  <2>3. 1 \in Bits /\ "sampled" \in Marks
    BY DEF Bits, Marks
  <2>4. Aligned(ids'[s], mask'[s], logprobs'[s])
    BY <1>3, <2>1, <2>2, <2>3, ExtendedIsAligned
  <2>5. mask'[s] # << >>
    BY <1>3, <2>1, <2>2, <2>3, ExtendedIsNotEmpty DEF Aligned
  <2>6. state'[s] \in {"TERMINATED", "PROCESSING_TOOLS", "INTERACTING"}
    BY <2>2 DEF NextState
  <2>. QED
    BY <2>4, <2>5, <2>6 DEF SampleInv
<1>6. ASSUME NEW o \in Samples \ {s} PROVE SampleInv(o)'
  BY <1>1, <1>2, OthersKeep DEF IInv, DomainInv
<1>. QED
  BY <1>4, <1>5, <1>6 DEF IInv

\* An answer joins the conversation of a sample that has had a turn.
LEMMA ObservePreserves ==
  ASSUME IInv, NEW s \in Samples, state[s] \in {"PROCESSING_TOOLS", "INTERACTING"},
         NEW n \in ObsLengths, Observe(s, n)
  PROVE  /\ Aligned(ids'[s], mask'[s], logprobs'[s]) /\ mask'[s] # << >>
         /\ DOMAIN ids' = Samples /\ DOMAIN mask' = Samples /\ DOMAIN logprobs' = Samples
         /\ \A o \in Samples \ {s} :
              ids'[o] = ids[o] /\ mask'[o] = mask[o] /\ logprobs'[o] = logprobs[o]
<1>1. n \in Nat \ {0}
  BY ConfigFacts
<1>2. /\ ids' = [ids EXCEPT ![s] = Extended(@, "obs", n)]
      /\ mask' = [mask EXCEPT ![s] = Extended(@, 0, n)]
      /\ logprobs' = [logprobs EXCEPT ![s] =
           IF @ = << >> THEN @ ELSE Extended(@, "zero", n)]
  BY DEF Observe
<1>3. Aligned(ids[s], mask[s], logprobs[s]) /\ mask[s] # << >>
  BY DEF IInv, SampleInv
<1>4. logprobs[s] # << >>
  BY <1>3, EmptySeq, LenProperties DEF Aligned
<1>5. /\ ids'[s] = Extended(ids[s], "obs", n) /\ mask'[s] = Extended(mask[s], 0, n)
      /\ logprobs'[s] = Extended(logprobs[s], "zero", n)
  BY <1>2, <1>4 DEF IInv, DomainInv
<1>6. 0 \in Bits /\ "zero" \in Marks
  BY DEF Bits, Marks
<1>7. Aligned(ids'[s], mask'[s], logprobs'[s])
  BY <1>1, <1>3, <1>5, <1>6, ExtendedIsAligned
<1>8. mask'[s] # << >>
  BY <1>1, <1>3, <1>5, <1>6, ExtendedIsNotEmpty DEF Aligned
<1>. QED
  BY <1>2, <1>7, <1>8 DEF IInv, DomainInv

\* The sample's loop is over.
LEMMA EndedKeeps ==
  ASSUME IInv, NEW s \in Samples, state[s] = "PROCESSING_TOOLS",
         state' = [state EXCEPT ![s] = "TERMINATED"],
         UNCHANGED <<ids, mask, logprobs, flight, maxTokens>>
  PROVE  IInv'
<1>1. DomainInv'
  BY DEF IInv, DomainInv
<1>2. SampleInv(s)'
  BY DEF IInv, DomainInv, SampleInv
<1>3. ASSUME NEW o \in Samples \ {s} PROVE SampleInv(o)'
  BY OthersKeep DEF IInv, DomainInv
<1>. QED
  BY <1>1, <1>2, <1>3 DEF IInv

\* An answer is followed by another turn.
LEMMA AnsweredGoesOn ==
  ASSUME IInv, NEW s \in Samples, state[s] \in {"PROCESSING_TOOLS", "INTERACTING"},
         NEW n \in ObsLengths, Observe(s, n), Send(s, ids'[s], maxTokens),
         UNCHANGED maxTokens
  PROVE  IInv'
<1>1. /\ Aligned(ids'[s], mask'[s], logprobs'[s]) /\ mask'[s] # << >>
      /\ DOMAIN ids' = Samples /\ DOMAIN mask' = Samples /\ DOMAIN logprobs' = Samples
      /\ \A o \in Samples \ {s} :
           ids'[o] = ids[o] /\ mask'[o] = mask[o] /\ logprobs'[o] = logprobs[o]
  BY ObservePreserves
<1>2. ids'[s] \in Seq(Tokens) /\ maxTokens \in {0, ResponseLength}
  BY <1>1 DEF Aligned, IInv, DomainInv
<1>3. /\ DOMAIN state' = Samples /\ DOMAIN flight' = Samples
      /\ state'[s] = "GENERATING" /\ flight'[s].max \in Int
      /\ \A o \in Samples \ {s} : state'[o] = state[o] /\ flight'[o] = flight[o]
  BY <1>2, SendFacts DEF IInv
<1>4. DomainInv'
  BY <1>1, <1>3 DEF IInv, DomainInv
<1>5. SampleInv(s)'
  BY <1>1, <1>3 DEF SampleInv
<1>6. ASSUME NEW o \in Samples \ {s} PROVE SampleInv(o)'
  BY <1>1, <1>3, OthersKeep DEF IInv
<1>. QED
  BY <1>4, <1>5, <1>6 DEF IInv

LEMMA ToolsReturnPreserves ==
  ASSUME IInv, NEW s \in Samples, ToolsReturn(s)
  PROVE  IInv'
<1>1. state[s] = "PROCESSING_TOOLS" /\ maxTokens' = maxTokens
  BY DEF ToolsReturn
<1>2. CASE /\ state' = [state EXCEPT ![s] = "TERMINATED"]
           /\ UNCHANGED <<ids, mask, logprobs, flight>>
  BY <1>1, <1>2, EndedKeeps
<1>3. ASSUME NEW n \in ObsLengths, Observe(s, n), Send(s, ids'[s], maxTokens)
      PROVE  IInv'
  BY <1>1, <1>3, AnsweredGoesOn
<1>. QED
  BY <1>2, <1>3 DEF ToolsReturn

LEMMA UserRepliesPreserves ==
  ASSUME IInv, NEW s \in Samples, UserReplies(s)
  PROVE  IInv'
<1>1. state[s] = "INTERACTING" /\ maxTokens' = maxTokens
  BY DEF UserReplies
<1>2. PICK n \in ObsLengths : Observe(s, n)
  BY DEF UserReplies
<1>3. CASE Send(s, ids'[s], maxTokens)
  BY <1>1, <1>2, <1>3, AnsweredGoesOn
<1>4. CASE state' = [state EXCEPT ![s] = "TERMINATED"] /\ UNCHANGED flight
  <2>1. /\ Aligned(ids'[s], mask'[s], logprobs'[s]) /\ mask'[s] # << >>
        /\ DOMAIN ids' = Samples /\ DOMAIN mask' = Samples /\ DOMAIN logprobs' = Samples
        /\ \A o \in Samples \ {s} :
             ids'[o] = ids[o] /\ mask'[o] = mask[o] /\ logprobs'[o] = logprobs[o]
    BY <1>1, <1>2, ObservePreserves
  <2>2. DomainInv'
    BY <1>1, <1>4, <2>1 DEF IInv, DomainInv
  <2>3. SampleInv(s)'
    BY <1>4, <2>1 DEF IInv, DomainInv, SampleInv
  <2>4. ASSUME NEW o \in Samples \ {s} PROVE SampleInv(o)'
    BY <1>4, <2>1, OthersKeep DEF IInv, DomainInv
  <2>. QED
    BY <2>2, <2>3, <2>4 DEF IInv
<1>. QED
  BY <1>3, <1>4 DEF UserReplies

-------------------------------------------------------------------------------
(* The theorem.                                                            *)

\* The steps that leave all conversations as they are.
LEMMA NoTurnPreserves ==
  ASSUME IInv, UNCHANGED <<state, flight, ids, mask, logprobs, maxTokens>>
  PROVE  IInv'
<1>1. DomainInv'
  BY DEF IInv, DomainInv
<1>2. ASSUME NEW s \in Samples PROVE SampleInv(s)'
  BY OthersKeep DEF IInv
<1>. QED
  BY <1>1, <1>2 DEF IInv

LEMMA NextBatchPreserves ==
  ASSUME IInv, NextBatch
  PROVE  IInv'
<1>1. DomainInv'
  BY DEF NextBatch, IInv, DomainInv
<1>2. ASSUME NEW s \in Samples PROVE SampleInv(s)'
  BY EmptyIsAligned DEF NextBatch, SampleInv
<1>. QED
  BY <1>1, <1>2 DEF IInv

LEMMA NextPreserves ==
  ASSUME IInv, [Next]_vars
  PROVE  IInv'
<1>1. CASE NextBatch
  BY <1>1, NextBatchPreserves
<1>2. ASSUME NEW s \in Samples, Begin(s) \/ GenerateReturns(s)
      PROVE  IInv'
  BY <1>2, BeginPreserves, GenerateReturnsPreserves
<1>3. ASSUME NEW s \in Samples, ToolsReturn(s) \/ UserReplies(s)
      PROVE  IInv'
  BY <1>3, ToolsReturnPreserves, UserRepliesPreserves
<1>4. ASSUME NEW s \in Samples, GenerateRaises(s) PROVE IInv'
  <2>1. UNCHANGED <<state, flight, ids, mask, logprobs, maxTokens>>
    BY <1>4 DEF GenerateRaises, sampleVars
  <2>. QED
    BY <2>1, NoTurnPreserves
<1>5. ASSUME NEW s \in Samples, NEW k \in DOMAIN calls[s],
             \/ CallRefused(s, k) \/ ToolCreated(s, k)
             \/ ToolExecuted(s, k) \/ ToolReleased(s, k)
      PROVE  IInv'
  <2>1. UNCHANGED <<state, flight, ids, mask, logprobs, maxTokens>>
    BY <1>5 DEF CallRefused, ToolCreated, ToolExecuted, ToolReleased, CallMoves
  <2>. QED
    BY <2>1, NoTurnPreserves
<1>6. ASSUME NEW s \in Samples, AskScore(s) \/ TakeScore(s) PROVE IInv'
  <2>1. /\ state[s] \in {"TERMINATED", "SCORING"}
        /\ \E to \in {"SCORING", "DONE"} : state' = [state EXCEPT ![s] = to]
        /\ UNCHANGED <<flight, ids, mask, logprobs, maxTokens>>
    BY <1>6 DEF AskScore, TakeScore, ScoreAsked, ScoreSet
  <2>2. DomainInv'
    BY <2>1 DEF IInv, DomainInv
  <2>3. SampleInv(s)'
    BY <2>1 DEF IInv, DomainInv, SampleInv
  <2>4. ASSUME NEW o \in Samples \ {s} PROVE SampleInv(o)'
    BY <2>1, OthersKeep DEF IInv, DomainInv
  <2>. QED
    BY <2>2, <2>3, <2>4 DEF IInv
<1>7. CASE LimiterNext /\ UNCHANGED agentVars
  BY <1>7, NoTurnPreserves DEF agentVars, sampleVars
<1>8. CASE UNCHANGED vars
  BY <1>8, NoTurnPreserves DEF vars, agentVars, sampleVars
<1>. QED
  BY <1>1, <1>2, <1>3, <1>4, <1>5, <1>6, <1>7, <1>8 DEF Next, AgentNext

\* The conversations of all samples are aligned at every await of their loops.
THEOREM Inductive == Spec => []IInv
  BY InitIsInv, NextPreserves, PTL DEF Spec

\* The policy is trained on exactly the tokens it has generated: whatever turns,
\* tools and users make of a conversation, and wherever it is cut, the response that
\* ToolAgentLoop.run and SingleTurnAgentLoop.run return has no token of the prompt,
\* and its mask and log-probabilities mark the policy's tokens and no others.
THEOREM TrainedOnItsOwnTokens == Spec => []ResponseIsAligned
<1>1. IInv => ResponseIsAligned
  <2>. SUFFICES ASSUME IInv, NEW s \in Samples,
                       state[s] \in {"TERMINATED", "SCORING", "DONE"}
                PROVE  /\ Aligned(ids[s], mask[s], logprobs[s])
                       /\ mask[s] # << >>
    BY ResponseOfAligned DEF ResponseIsAligned
  <2>. QED
    BY DEF IInv, SampleInv
<1>. QED
  BY <1>1, Inductive, PTL

-------------------------------------------------------------------------------
(* The rate limiters.                                                      *)

\* Requests still asleep after k more ticks, of those which have taken their tokens
\* from limiter i in advance.
Asleep(i, k) == {r \in Requests : stage[r] = "paid" /\ level[r] = i /\ timer[r] > k}

\* A request is at a limiter that is set, and no bucket is more than full.
LimiterInv ==
  /\ tokens \in [Levels -> Int] /\ timer \in [Requests -> Nat]
  /\ level \in [Requests -> Nat] /\ DOMAIN stage = Requests
  /\ \A i \in Levels : tokens[i] <= Limiters[i].max
  /\ \A r \in Requests :
       /\ stage[r] \in {"acquiring", "paid"} => level[r] \in Levels
       /\ stage[r] = "decoding" => level[r] = 1

\* k ticks from now what is refilled by then, and what sleepers have taken that will
\* still be asleep, make up for the debt of a bucket.
DebtInv ==
  \A i \in Levels, k \in Nat :
    tokens[i] + k * Limiters[i].rate + Cardinality(Asleep(i, k)) * Limiters[i].cost >= 0

LInv == LimiterInv /\ DebtInv

LEMMA LimiterFacts ==
  ASSUME NEW i \in Levels
  PROVE  /\ Limiters[i].rate \in Nat \ {0} /\ Limiters[i].max \in Nat \ {0}
         /\ Limiters[i].cost \in Nat \ {0}
<1>. DEFINE T == [rate : Nat \ {0}, max : Nat \ {0}, cost : Nat \ {0}]
<1>1. Limiters \in Seq(T) /\ i \in DOMAIN Limiters
  BY LimiterAssumption DEF Levels
<1>. HIDE DEF T
<1>2. Limiters[i] \in T
  BY <1>1, ElementOfSeq
<1>. QED BY <1>2 DEF T

\* Sleepers are finitely many, of which fewer are left after more ticks.
LEMMA AsleepFacts ==
  ASSUME NEW i, NEW k
  PROVE  /\ IsFiniteSet(Asleep(i, k)) /\ Cardinality(Asleep(i, k)) \in Nat
         /\ IsFiniteSet(Asleep(i, k)') /\ Cardinality(Asleep(i, k)') \in Nat
<1>1. Asleep(i, k) \subseteq Requests /\ Asleep(i, k)' \subseteq Requests
  BY DEF Asleep
<1>2. IsFiniteSet(Requests)
  BY LimiterAssumption
<1>. QED BY <1>1, <1>2, FS_Subset, FS_CardinalityType

\* Products of a count with what a limiter gives or takes.
LEMMA ProductFacts ==
  ASSUME NEW a \in Nat, NEW b \in Nat
  PROVE  /\ a * b \in Nat /\ (a + 1) * b = a * b + b /\ 0 * b = 0
         /\ \A c \in Nat : c <= a => c * b <= a * b
OBVIOUS

\* A bucket that is not in debt is safe at all times.
LEMMA NoDebt ==
  ASSUME LimiterInv', NEW i \in Levels, NEW k \in Nat, tokens'[i] >= 0
  PROVE  tokens'[i] + k * Limiters[i].rate
           + Cardinality(Asleep(i, k)') * Limiters[i].cost >= 0
<1>. DEFINE c == Cardinality(Asleep(i, k)')
            rate == Limiters[i].rate
            cost == Limiters[i].cost
<1>1. c \in Nat
  BY AsleepFacts
<1>2. rate \in Nat /\ cost \in Nat
  BY LimiterFacts
<1>3. tokens'[i] \in Int
  BY DEF LimiterInv
<1>. HIDE DEF c, rate, cost
<1>4. k * rate \in Nat /\ c * cost \in Nat
  BY <1>1, <1>2, ProductFacts
<1>5. tokens'[i] + k * rate + c * cost >= 0
  BY <1>3, <1>4
<1>. QED BY <1>5 DEF c, rate, cost

\* wait_time covers what is needed.
LEMMA WaitCovers ==
  ASSUME NEW i \in Levels, NEW n \in Nat
  PROVE  WaitTime(i, n) \in Nat /\ WaitTime(i, n) * Limiters[i].rate >= n
<1>. DEFINE rate == Limiters[i].rate
            a == n + rate - 1
            q == a \div rate
            m == a % rate
<1>1. rate \in Nat \ {0}
  BY LimiterFacts
<1>. HIDE DEF rate
<1>2. a \in Nat
  BY <1>1
<1>. HIDE DEF a
<1>3. m \in 0..rate - 1 /\ q \in Nat /\ a = rate * q + m
  BY <1>1, <1>2
<1>. HIDE DEF q, m
<1>4. rate * q = q * rate /\ q * rate \in Nat
  BY <1>1, <1>3
<1>5. q \in Nat /\ q * rate >= n
  <2>. DEFINE p == q * rate
  <2>1. a = p + m /\ p \in Nat
    BY <1>3, <1>4
  <2>. HIDE DEF p
  <2>2. p >= n
    BY <1>1, <1>3, <2>1 DEF a
  <2>. QED BY <1>3, <2>2 DEF p
<1>. QED BY <1>5 DEF WaitTime, q, a, rate

\* A request that does not sleep goes on, and the buckets stay as they are.
LEMMA GoesOn ==
  ASSUME LInv, NEW r \in Requests, NEW x, x # "paid",
         stage[r] # "paid" \/ timer[r] = 0, stage' = [stage EXCEPT ![r] = x],
         UNCHANGED <<tokens, timer>>, level' \in [Requests -> Nat],
         \A o \in Requests \ {r} : level'[o] = level[o],
         x = "acquiring" => level'[r] \in Levels, x = "decoding" => level'[r] = 1
  PROVE  LInv'
<1>1. LimiterInv'
  BY DEF LInv, LimiterInv
<1>2. ASSUME NEW i \in Levels, NEW k \in Nat PROVE Asleep(i, k)' = Asleep(i, k)
  <2>1. ASSUME NEW o \in Requests
        PROVE  (stage[o] = "paid" /\ level[o] = i /\ timer[o] > k)
                 <=> (stage'[o] = "paid" /\ level'[o] = i /\ timer'[o] > k)
    BY DEF LInv, LimiterInv
  <2>. QED BY <2>1 DEF Asleep
<1>3. DebtInv'
  BY <1>2 DEF LInv, DebtInv
<1>. QED BY <1>1, <1>3 DEF LInv

\* What leaves stages, levels, timers and buckets alone.
LEMMA LimiterUnchanged ==
  ASSUME LInv, UNCHANGED <<tokens, stage, level, timer>>
  PROVE  LInv'
BY DEF LInv, LimiterInv, DebtInv, Asleep

\* A request takes its tokens when the bucket has them, or sleeps and tries again.
LEMMA AcquireOrSleepKeeps ==
  ASSUME LInv, NEW r \in Requests, Acquire(r), AcquireOrSleep(r),
         NEW i, i = level[r]
  PROVE  LInv'
<1>. DEFINE cost == Limiters[i].cost
<1>1. stage[r] = "acquiring" /\ timer[r] = 0 /\ i \in Levels
  BY DEF Acquire, LInv, LimiterInv
<1>2. cost \in Nat \ {0} /\ tokens[i] \in Int /\ Limiters[i].max \in Nat
  BY <1>1, LimiterFacts DEF LInv, LimiterInv
<1>3. CASE tokens[i] >= cost
  <2>1. tokens' = [tokens EXCEPT ![i] = @ - cost] /\ Passes(r) /\ timer' = timer
    BY <1>3 DEF AcquireOrSleep
  <2>2. /\ level' = [level EXCEPT ![r] = @ + 1]
        /\ stage' = [stage EXCEPT ![r] = StageAt(level[r] + 1)]
    BY <2>1 DEF Passes
  <2>3. /\ level[r] \in Nat /\ level'[r] = level[r] + 1
        /\ stage'[r] = IF level'[r] \in Levels THEN "acquiring" ELSE "waiting"
    BY <2>2 DEF LInv, LimiterInv, StageAt
  <2>4. /\ tokens' \in [Levels -> Int] /\ level' \in [Requests -> Nat]
        /\ DOMAIN stage' = Requests /\ tokens'[i] = tokens[i] - cost
        /\ \A j \in Levels \ {i} : tokens'[j] = tokens[j]
        /\ \A o \in Requests \ {r} : stage'[o] = stage[o] /\ level'[o] = level[o]
    BY <1>1, <1>2, <2>1, <2>2, <2>3 DEF LInv, LimiterInv
  <2>5. \A j \in Levels : tokens'[j] <= Limiters[j].max
    BY <1>1, <1>2, <2>4 DEF LInv, LimiterInv
  <2>6. \A o \in Requests :
          /\ stage'[o] \in {"acquiring", "paid"} => level'[o] \in Levels
          /\ stage'[o] = "decoding" => level'[o] = 1
    BY <2>3, <2>4 DEF LInv, LimiterInv
  <2>7. LimiterInv'
    BY <2>1, <2>4, <2>5, <2>6 DEF LInv, LimiterInv
  <2>8. ASSUME NEW j \in Levels, NEW k \in Nat
        PROVE  tokens'[j] + k * Limiters[j].rate
                 + Cardinality(Asleep(j, k)') * Limiters[j].cost >= 0
    <3>1. Asleep(j, k)' = Asleep(j, k)
      <4>1. ASSUME NEW o \in Requests
            PROVE  (stage[o] = "paid" /\ level[o] = j /\ timer[o] > k)
                     <=> (stage'[o] = "paid" /\ level'[o] = j /\ timer'[o] > k)
        BY <1>1, <2>1, <2>3, <2>4 DEF LInv, LimiterInv
      <4>. QED BY <4>1 DEF Asleep
    <3>2. CASE j # i
      BY <2>4, <3>1, <3>2 DEF LInv, DebtInv
    <3>3. CASE j = i
      <4>1. tokens'[j] >= 0
        BY <1>2, <1>3, <2>4, <3>3
      <4>. QED BY <2>7, <4>1, NoDebt
    <3>. QED BY <3>2, <3>3
  <2>. QED BY <2>7, <2>8 DEF LInv, DebtInv
<1>4. CASE ~(tokens[i] >= cost)
  <2>1. /\ timer' = [timer EXCEPT ![r] = WaitTime(i, Needed(i, cost))]
        /\ UNCHANGED <<tokens, stage, level>>
    BY <1>4 DEF AcquireOrSleep
  <2>2. WaitTime(i, Needed(i, cost)) \in Nat
    <3>1. Needed(i, cost) \in Nat
      BY <1>2, <1>4 DEF Needed
    <3>. QED BY <1>1, <3>1, WaitCovers
  <2>3. LimiterInv'
    BY <2>1, <2>2 DEF LInv, LimiterInv
  <2>4. ASSUME NEW j \in Levels, NEW k \in Nat PROVE Asleep(j, k)' = Asleep(j, k)
    <3>1. ASSUME NEW o \in Requests
          PROVE  (stage[o] = "paid" /\ level[o] = j /\ timer[o] > k)
                   <=> (stage'[o] = "paid" /\ level'[o] = j /\ timer'[o] > k)
      BY <1>1, <2>1 DEF LInv, LimiterInv
    <3>. QED BY <3>1 DEF Asleep
  <2>. QED BY <2>1, <2>3, <2>4 DEF LInv, DebtInv
<1>. QED BY <1>3, <1>4

\* A request that takes more than the bucket holds sleeps until its debt is made up for.
LEMMA AcquireLargeKeeps ==
  ASSUME LInv, NEW r \in Requests, Acquire(r), AcquireLarge(r),
         NEW i, i = level[r]
  PROVE  LInv'
<1>. DEFINE cost == Limiters[i].cost
            wait == WaitTime(i, Needed(i, cost))
<1>1. stage[r] = "acquiring" /\ timer[r] = 0 /\ i \in Levels
  BY DEF Acquire, LInv, LimiterInv
<1>2. /\ cost \in Nat \ {0} /\ tokens[i] \in Int /\ Limiters[i].max \in Nat
      /\ Limiters[i].rate \in Nat /\ tokens[i] <= Limiters[i].max
  BY <1>1, LimiterFacts DEF LInv, LimiterInv
<1>3. /\ cost > Limiters[i].max
      /\ tokens' = [tokens EXCEPT ![i] = @ - cost]
      /\ timer' = [timer EXCEPT ![r] = wait]
      /\ stage' = [stage EXCEPT ![r] = "paid"] /\ level' = level
  BY DEF AcquireLarge
<1>4. cost - tokens[i] \in Nat /\ Needed(i, cost) = cost - tokens[i]
  BY <1>2, <1>3 DEF Needed
<1>5. wait \in Nat /\ wait * Limiters[i].rate >= cost - tokens[i]
  BY <1>1, <1>4, WaitCovers
<1>. HIDE DEF wait
<1>6. /\ tokens' \in [Levels -> Int] /\ timer' \in [Requests -> Nat]
      /\ DOMAIN stage' = Requests /\ tokens'[i] = tokens[i] - cost
      /\ stage'[r] = "paid" /\ timer'[r] = wait
      /\ \A j \in Levels \ {i} : tokens'[j] = tokens[j]
      /\ \A o \in Requests \ {r} : stage'[o] = stage[o] /\ timer'[o] = timer[o]
  BY <1>1, <1>2, <1>3, <1>5 DEF LInv, LimiterInv
<1>7. LimiterInv'
  <2>1. \A j \in Levels : tokens'[j] <= Limiters[j].max
    BY <1>1, <1>2, <1>6 DEF LInv, LimiterInv
  <2>2. \A o \in Requests :
          /\ stage'[o] \in {"acquiring", "paid"} => level'[o] \in Levels
          /\ stage'[o] = "decoding" => level'[o] = 1
    BY <1>1, <1>3, <1>6 DEF LInv, LimiterInv
  <2>. QED BY <1>3, <1>6, <2>1, <2>2 DEF LInv, LimiterInv
<1>8. ASSUME NEW j \in Levels, NEW k \in Nat
      PROVE  tokens'[j] + k * Limiters[j].rate
               + Cardinality(Asleep(j, k)') * Limiters[j].cost >= 0
  <2>1. CASE j # i
    <3>1. Asleep(j, k)' = Asleep(j, k)
      <4>1. ASSUME NEW o \in Requests
            PROVE  (stage[o] = "paid" /\ level[o] = j /\ timer[o] > k)
                     <=> (stage'[o] = "paid" /\ level'[o] = j /\ timer'[o] > k)
        BY <1>1, <1>3, <1>6, <2>1
      <4>. QED BY <4>1 DEF Asleep
    <3>. QED BY <1>6, <2>1, <3>1 DEF LInv, DebtInv
  <2>2. CASE j = i
    <3>. DEFINE c == Cardinality(Asleep(i, k))
                d == Cardinality(Asleep(i, k)')
                refill == k * Limiters[i].rate
    <3>1. c \in Nat /\ d \in Nat /\ refill \in Nat
      BY <1>2, AsleepFacts, ProductFacts
    <3>2. tokens[i] + refill + c * cost >= 0
      BY <1>1 DEF LInv, DebtInv
    <3>3. CASE k < wait
      <4>1. Asleep(i, k)' = Asleep(i, k) \cup {r} /\ r \notin Asleep(i, k)
        <5>1. r \notin Asleep(i, k)
          BY <1>1 DEF Asleep
        <5>2. ASSUME NEW o \in Requests
              PROVE  (stage'[o] = "paid" /\ level'[o] = i /\ timer'[o] > k)
                       <=> o = r \/ (stage[o] = "paid" /\ level[o] = i /\ timer[o] > k)
          BY <1>3, <1>5, <1>6, <3>3
        <5>. QED BY <5>1, <5>2 DEF Asleep
      <4>2. d = c + 1
        <5>. DEFINE A == Asleep(i, k)
                    B == Asleep(i, k)'
        <5>1. IsFiniteSet(A) /\ B = A \cup {r} /\ r \notin A
          BY <4>1, AsleepFacts
        <5>. HIDE DEF A, B
        <5>2. Cardinality(B) = Cardinality(A) + 1
          BY <5>1, FS_AddElement
        <5>. QED BY <5>2 DEF A, B
      <4>. HIDE DEF c, d, refill, cost
      <4>3. d * cost = c * cost + cost /\ c * cost \in Nat
        BY <1>2, <3>1, <4>2, ProductFacts
      <4>4. tokens'[i] + refill + d * cost >= 0
        BY <1>2, <1>6, <3>1, <3>2, <4>3
      <4>. QED BY <2>2, <4>4 DEF c, d, refill, cost
    <3>4. CASE ~(k < wait)
      <4>1. wait * Limiters[i].rate <= refill
        BY <1>2, <1>5, <3>4, ProductFacts
      <4>2. wait * Limiters[i].rate \in Nat
        BY <1>2, <1>5, ProductFacts
      <4>3. d * cost \in Nat
        BY <1>2, <3>1, ProductFacts
      <4>. HIDE DEF d, refill, cost
      <4>4. tokens'[i] + refill + d * cost >= 0
        BY <1>2, <1>5, <1>6, <3>1, <4>1, <4>2, <4>3
      <4>. QED BY <2>2, <4>4 DEF d, refill, cost
    <3>. QED BY <3>3, <3>4
  <2>. QED BY <2>1, <2>2
<1>. QED BY <1>7, <1>8 DEF LInv, DebtInv

\* Buckets are filled, and sleepers have a tick less to sleep.
LEMMA TickKeeps ==
  ASSUME LInv, Tick
  PROVE  LInv'
<1>1. /\ timer' = [r \in Requests |-> IF timer[r] > 0 THEN timer[r] - 1 ELSE 0]
      /\ tokens' = [i \in Levels |->
                      Smaller(tokens[i] + Limiters[i].rate, Limiters[i].max)]
      /\ stage' = stage /\ level' = level
  BY DEF Tick
<1>2. ASSUME NEW i \in Levels
      PROVE  /\ tokens[i] \in Int /\ Limiters[i].rate \in Nat /\ Limiters[i].max \in Nat
             /\ Limiters[i].cost \in Nat
             /\ tokens'[i] = Smaller(tokens[i] + Limiters[i].rate, Limiters[i].max)
             /\ tokens'[i] \in Int /\ tokens'[i] <= Limiters[i].max
  BY <1>1, LimiterFacts DEF LInv, LimiterInv, Smaller
<1>3. tokens' \in [Levels -> Int] /\ timer' \in [Requests -> Nat]
  BY <1>1, <1>2 DEF LInv, LimiterInv
<1>4. LimiterInv'
  BY <1>1, <1>2, <1>3 DEF LInv, LimiterInv
<1>5. ASSUME NEW i \in Levels, NEW k \in Nat
      PROVE  tokens'[i] + k * Limiters[i].rate
               + Cardinality(Asleep(i, k)') * Limiters[i].cost >= 0
  <2>1. Asleep(i, k)' = Asleep(i, k + 1)
    <3>1. ASSUME NEW o \in Requests PROVE timer'[o] > k <=> timer[o] > k + 1
      BY <1>1 DEF LInv, LimiterInv
    <3>. QED BY <1>1, <3>1 DEF Asleep
  <2>2. CASE tokens'[i] = tokens[i] + Limiters[i].rate
    <3>. DEFINE owed == Cardinality(Asleep(i, k + 1)) * Limiters[i].cost
                rate == Limiters[i].rate
    <3>1. k + 1 \in Nat
      OBVIOUS
    <3>2. tokens[i] + (k + 1) * rate + owed >= 0
      BY <3>1 DEF LInv, DebtInv
    <3>3. (k + 1) * rate = k * rate + rate /\ k * rate \in Nat /\ owed \in Nat
      BY <1>2, <3>1, AsleepFacts, ProductFacts
    <3>4. tokens[i] \in Int /\ rate \in Nat /\ tokens'[i] = tokens[i] + rate
      BY <1>2, <2>2
    <3>. HIDE DEF owed, rate
    <3>5. tokens'[i] + k * rate + owed >= 0
      BY <3>2, <3>3, <3>4
    <3>. QED BY <2>1, <3>5 DEF owed, rate
  <2>3. CASE tokens'[i] = Limiters[i].max
    <3>1. tokens'[i] >= 0
      BY <1>2, <2>3
    <3>. QED BY <1>4, <3>1, NoDebt
  <2>. QED BY <1>2, <2>2, <2>3 DEF Smaller
<1>. QED BY <1>4, <1>5 DEF LInv, DebtInv

LEMMA InitIsLInv == Init => LInv
<1>. SUFFICES ASSUME Init PROVE LInv
  OBVIOUS
<1>1. /\ tokens = [i \in Levels |-> Limiters[i].max]
      /\ stage = [r \in Requests |-> "idle"] /\ level = [r \in Requests |-> 1]
      /\ timer = [r \in Requests |-> 0]
  BY DEF Init, LimiterInit
<1>2. ASSUME NEW i \in Levels PROVE tokens[i] \in Nat
  BY <1>1, LimiterFacts
<1>3. LimiterInv
  BY <1>1, LimiterFacts DEF LimiterInv
<1>4. ASSUME NEW i \in Levels, NEW k \in Nat
      PROVE  tokens[i] + k * Limiters[i].rate
               + Cardinality(Asleep(i, k)) * Limiters[i].cost >= 0
  <2>1. Limiters[i].rate \in Nat /\ Limiters[i].cost \in Nat
    BY LimiterFacts
  <2>2. k * Limiters[i].rate \in Nat /\ Cardinality(Asleep(i, k)) * Limiters[i].cost \in Nat
    BY <2>1, AsleepFacts, ProductFacts
  <2>3. tokens[i] \in Nat
    BY <1>2
  <2>. DEFINE refill == k * Limiters[i].rate
              owed == Cardinality(Asleep(i, k)) * Limiters[i].cost
  <2>. HIDE DEF refill, owed
  <2>4. refill \in Nat /\ owed \in Nat
    BY <2>2 DEF refill, owed
  <2>5. tokens[i] + refill + owed >= 0
    BY <2>3, <2>4
  <2>. QED BY <2>5 DEF refill, owed
<1>. QED BY <1>3, <1>4 DEF LInv, DebtInv

LEMMA LimiterStep ==
  ASSUME LInv, [Next]_vars
  PROVE  LInv'
<1>1. \A r \in Requests : level[r] \in Nat /\ level \in [Requests -> Nat]
  BY DEF LInv, LimiterInv
<1>2. CASE ThreadTakes \/ AbandonedEnds
  BY <1>2, LimiterUnchanged DEF ThreadTakes, AbandonedEnds
<1>3. CASE Tick
  BY <1>3, TickKeeps
<1>4. ASSUME NEW r \in Requests, Decoded(r) PROVE LInv'
  <2>1. StageAt(1) # "paid" /\ StageAt(1) # "decoding" /\ level[r] = 1
        /\ (StageAt(1) = "acquiring" => 1 \in Levels)
    BY <1>4 DEF StageAt, Decoded, LInv, LimiterInv
  <2>. QED BY <1>1, <1>4, <2>1, GoesOn DEF Decoded
<1>5. ASSUME NEW r \in Requests, Acquire(r) PROVE LInv'
  BY <1>5, AcquireOrSleepKeeps, AcquireLargeKeeps DEF Acquire
<1>6. ASSUME NEW r \in Requests, PaidWakes(r) PROVE LInv'
  <2>. DEFINE l == level[r]
              x == StageAt(l + 1)
  <2>1. /\ level' = [level EXCEPT ![r] = @ + 1] /\ stage' = [stage EXCEPT ![r] = x]
        /\ stage[r] = "paid" /\ timer[r] = 0 /\ UNCHANGED <<tokens, timer>>
    BY <1>6 DEF PaidWakes, Passes
  <2>2. /\ level' \in [Requests -> Nat] /\ level'[r] = l + 1
        /\ \A o \in Requests \ {r} : level'[o] = level[o]
    BY <1>1, <2>1
  <2>3. x # "paid" /\ x # "decoding" /\ (x = "acquiring" => l + 1 \in Levels)
    BY DEF StageAt
  <2>. HIDE DEF x, l
  <2>. QED BY <2>1, <2>2, <2>3, GoesOn
<1>7. ASSUME NEW r \in Requests, EnterSemaphore(r) PROVE LInv'
  BY <1>1, <1>7, GoesOn DEF EnterSemaphore
<1>8. ASSUME NEW r \in Requests, Computed(r) \/ TimedOut(r) PROVE LInv'
  BY <1>1, <1>8, GoesOn DEF Computed, TimedOut, Answered
<1>9. ASSUME NEW r \in Samples, AskScore(r) PROVE LInv'
  <2>1. r \in Requests /\ Ask(r)
    BY <1>9, RolloutAssumption DEF AskScore
  <2>2. /\ stage[r] = "idle" /\ stage' = [stage EXCEPT ![r] = "decoding"]
        /\ level' = [level EXCEPT ![r] = 1] /\ UNCHANGED <<tokens, timer>>
    BY <2>1 DEF Ask
  <2>3. /\ level' \in [Requests -> Nat] /\ level'[r] = 1
        /\ \A o \in Requests \ {r} : level'[o] = level[o]
    BY <1>1, <2>1, <2>2
  <2>. QED BY <2>1, <2>2, <2>3, GoesOn
<1>10. ASSUME NEW r \in Samples, TakeScore(r) PROVE LInv'
  <2>1. r \in Requests /\ Collect(r)
    BY <1>10, RolloutAssumption DEF TakeScore
  <2>. QED BY <1>1, <2>1, GoesOn DEF Collect
<1>11. CASE UNCHANGED limiterVars
  BY <1>11, LimiterUnchanged DEF limiterVars
<1>12. CASE LimiterNext
  BY <1>2, <1>3, <1>4, <1>5, <1>6, <1>7, <1>8, <1>12 DEF LimiterNext
<1>. QED
  BY <1>9, <1>10, <1>11, <1>12 DEF Next, vars

\* No request passes a limiter unpaid: however sleepers, large requests that take their
\* tokens in advance and refills meet, the debt of a bucket is at most what requests
\* still asleep have taken (AsyncTokenBucket.acquire).
THEOREM LimitsAreKept == Spec => []LetThroughIsPaid
<1>1. Spec => []LInv
  BY InitIsLInv, LimiterStep, PTL DEF Spec
<1>2. LInv => LetThroughIsPaid
  <2>. SUFFICES ASSUME LInv, NEW i \in Levels
                PROVE  tokens[i] + Cardinality(Asleep(i, 0)) * Limiters[i].cost >= 0
    BY DEF LetThroughIsPaid, Asleep
  <2>. DEFINE owed == Cardinality(Asleep(i, 0)) * Limiters[i].cost
              refill == 0 * Limiters[i].rate
  <2>1. tokens[i] \in Int /\ Limiters[i].rate \in Nat /\ Limiters[i].cost \in Nat
    BY LimiterFacts DEF LInv, LimiterInv
  <2>2. tokens[i] + refill + owed >= 0
    BY DEF LInv, DebtInv
  <2>3. refill = 0 /\ owed \in Nat
    BY <2>1, AsleepFacts, ProductFacts
  <2>. HIDE DEF owed, refill
  <2>4. tokens[i] + owed >= 0
    BY <2>1, <2>2, <2>3
  <2>. QED BY <2>4 DEF owed
<1>. QED BY <1>1, <1>2, PTL

-------------------------------------------------------------------------------
(* Sticky sessions.                                                        *)

\* The cache of request ids has each at most once, those of this batch behind all older
\* ones, and among them every sample that has begun, with the server all its turns went
\* to.
HomesInv ==
  /\ batch \in Nat /\ served \in [Samples -> SUBSET Servers]
  /\ homes \in Seq([rid : Nat \X Samples, server : Servers])
  /\ Len(homes) <= CacheSize
  /\ \A i, j \in DOMAIN homes : homes[i].rid = homes[j].rid => i = j
  /\ \A i \in DOMAIN homes : homes[i].rid[1] <= batch
  /\ \A i, j \in DOMAIN homes :
       i < j /\ homes[i].rid[1] = batch => homes[j].rid[1] = batch
  /\ \A s \in Samples :
       /\ state[s] = "PENDING" => served[s] = {} /\ ~Homed(Rid(s))
       /\ state[s] # "PENDING" =>
            \E i \in DOMAIN homes : homes[i].rid = Rid(s) /\ served[s] = {homes[i].server}

Entries == [rid : Nat \X Samples, server : Servers]

\* A sample that has begun is in the cache.
LEMMA HomeFacts ==
  ASSUME HomesInv, NEW s \in Samples, state[s] # "PENDING"
  PROVE  /\ Homed(Rid(s))
         /\ PlaceOf(Rid(s)) \in DOMAIN homes /\ homes[PlaceOf(Rid(s))].rid = Rid(s)
         /\ HomeOf(Rid(s)) \in Servers /\ served[s] = {HomeOf(Rid(s))}
<1>1. PICK i \in DOMAIN homes : homes[i].rid = Rid(s) /\ served[s] = {homes[i].server}
  BY DEF HomesInv
<1>2. PlaceOf(Rid(s)) \in DOMAIN homes /\ homes[PlaceOf(Rid(s))].rid = Rid(s)
  BY <1>1 DEF PlaceOf
<1>3. PlaceOf(Rid(s)) = i
  BY <1>1, <1>2 DEF HomesInv
<1>4. homes[i] \in Entries
  <2>1. homes \in Seq(Entries)
    BY DEF HomesInv, Entries
  <2>. QED BY <1>1, <2>1, ElementOfSeq
<1>. QED BY <1>1, <1>2, <1>3, <1>4 DEF Homed, HomeOf, Entries

\* Moving an entry to the end.
LEMMA MovedFacts ==
  ASSUME NEW S, NEW q \in Seq(S), NEW k \in DOMAIN q
  PROVE  LET t == Append(RemoveAt(q, k), q[k]) IN
         /\ t \in Seq(S) /\ Len(t) = Len(q)
         /\ \A i \in 1..Len(q) :
              t[i] = IF i < k THEN q[i] ELSE IF i < Len(q) THEN q[i + 1] ELSE q[k]
<1>. DEFINE a == SubSeq(q, 1, k - 1)
            b == SubSeq(q, k + 1, Len(q))
            c == a \o b
<1>1. Len(q) \in Nat /\ k \in 1..Len(q) /\ q[k] \in S
  BY ElementOfSeq, LenProperties
<1>2. /\ a \in Seq(S) /\ Len(a) = k - 1 /\ \A i \in 1..k - 1 : a[i] = q[i]
      /\ b \in Seq(S) /\ Len(b) = Len(q) - k /\ \A i \in 1..Len(q) - k : b[i] = q[k + i]
  BY <1>1
<1>. HIDE DEF a, b
<1>3. /\ c \in Seq(S) /\ Len(c) = Len(a) + Len(b)
      /\ \A i \in 1..Len(a) + Len(b) :
           c[i] = IF i <= Len(a) THEN a[i] ELSE b[i - Len(a)]
  BY <1>2, ConcatProperties
<1>. HIDE DEF c
<1>4. Len(c) = Len(q) - 1
  BY <1>1, <1>2, <1>3
<1>5. /\ Append(c, q[k]) \in Seq(S) /\ Len(Append(c, q[k])) = Len(q)
      /\ \A i \in 1..Len(q) :
           Append(c, q[k])[i] = IF i < Len(q) THEN c[i] ELSE q[k]
  BY <1>1, <1>3, <1>4
<1>6. ASSUME NEW i \in 1..Len(q) - 1 PROVE c[i] = IF i < k THEN q[i] ELSE q[i + 1]
  <2>1. CASE i < k
    <3>1. i \in 1..k - 1 /\ i \in 1..Len(a) + Len(b) /\ i <= Len(a)
      BY <1>1, <1>2, <2>1
    <3>2. c[i] = a[i]
      BY <1>3, <3>1
    <3>. QED BY <1>2, <2>1, <3>1, <3>2
  <2>2. CASE ~(i < k)
    <3>1. i - Len(a) \in 1..Len(q) - k /\ k + (i - Len(a)) = i + 1 /\ ~(i <= Len(a))
      BY <1>1, <1>2, <2>2
    <3>2. i \in 1..Len(a) + Len(b)
      BY <1>1, <1>2
    <3>3. c[i] = b[i - Len(a)]
      BY <1>3, <3>1, <3>2
    <3>4. b[i - Len(a)] = q[k + (i - Len(a))]
      BY <1>2, <3>1
    <3>. QED BY <2>2, <3>1, <3>3, <3>4
  <2>. QED BY <2>1, <2>2
<1>7. ASSUME NEW i \in 1..Len(q)
      PROVE  Append(c, q[k])[i]
               = IF i < k THEN q[i] ELSE IF i < Len(q) THEN q[i + 1] ELSE q[k]
  BY <1>1, <1>5, <1>6
<1>8. RemoveAt(q, k) = c
  BY DEF RemoveAt, a, b, c
<1>. QED BY <1>5, <1>7, <1>8

\* A turn makes its sample's entry the most recent.
LEMMA TouchKeepsHomes ==
  ASSUME HomesInv, NEW s \in Samples, state[s] # "PENDING", homes' = Touched(Rid(s)),
         UNCHANGED <<batch, served>>,
         \A o \in Samples : state'[o] = "PENDING" <=> state[o] = "PENDING",
         NEW k, k = PlaceOf(Rid(s))
  PROVE  HomesInv'
<1>1. /\ homes \in Seq(Entries) /\ k \in DOMAIN homes /\ homes[k].rid = Rid(s)
      /\ Len(homes) \in Nat
  <2>1. homes \in Seq(Entries)
    BY DEF HomesInv, Entries
  <2>. QED BY <2>1, HomeFacts, LenProperties
<1>2. homes' = Append(RemoveAt(homes, k), homes[k])
  BY DEF Touched
<1>3. /\ homes' \in Seq(Entries) /\ Len(homes') = Len(homes)
      /\ \A i \in 1..Len(homes) :
           homes'[i] = IF i < k THEN homes[i]
                       ELSE IF i < Len(homes) THEN homes[i + 1] ELSE homes[k]
  <2>. DEFINE t == Append(RemoveAt(homes, k), homes[k])
  <2>1. /\ t \in Seq(Entries) /\ Len(t) = Len(homes)
        /\ \A i \in 1..Len(homes) :
             t[i] = IF i < k THEN homes[i]
                    ELSE IF i < Len(homes) THEN homes[i + 1] ELSE homes[k]
    BY <1>1, MovedFacts
  <2>. QED BY <1>2, <2>1
<1>4. DOMAIN homes' = 1..Len(homes) /\ DOMAIN homes = 1..Len(homes) /\ k \in 1..Len(homes)
  BY <1>1, <1>3
<1>. DEFINE from(i) == IF i < k THEN i ELSE IF i < Len(homes) THEN i + 1 ELSE k
<1>5. ASSUME NEW i \in DOMAIN homes' PROVE from(i) \in DOMAIN homes /\ homes'[i] = homes[from(i)]
  BY <1>1, <1>3, <1>4
<1>6. \A i, j \in DOMAIN homes' : from(i) = from(j) => i = j
  BY <1>1, <1>4
<1>7. homes[k].rid[1] = batch
  BY <1>1 DEF Rid
<1>8. \A i, j \in DOMAIN homes' : homes'[i].rid = homes'[j].rid => i = j
  <2>. SUFFICES ASSUME NEW i \in DOMAIN homes', NEW j \in DOMAIN homes',
                       homes'[i].rid = homes'[j].rid
                PROVE  i = j
    OBVIOUS
  <2>1. from(i) = from(j)
    BY <1>5 DEF HomesInv
  <2>. QED BY <1>6, <2>1
<1>9. \A i \in DOMAIN homes' : homes'[i].rid[1] <= batch
  BY <1>5 DEF HomesInv
<1>10. \A i, j \in DOMAIN homes' :
         i < j /\ homes'[i].rid[1] = batch => homes'[j].rid[1] = batch
  <2>. SUFFICES ASSUME NEW i \in DOMAIN homes', NEW j \in DOMAIN homes', i < j,
                       homes'[i].rid[1] = batch
                PROVE  homes'[j].rid[1] = batch
    OBVIOUS
  <2>1. CASE j = Len(homes)
    <3>1. from(j) = k
      BY <1>1, <1>4, <2>1
    <3>. QED BY <1>5, <1>7, <3>1
  <2>2. CASE j # Len(homes)
    <3>1. from(i) < from(j)
      BY <1>1, <1>4, <2>2
    <3>. QED BY <1>5, <3>1 DEF HomesInv
  <2>. QED BY <2>1, <2>2
<1>. DEFINE to(i) == IF i < k THEN i ELSE IF i = k THEN Len(homes) ELSE i - 1
<1>11. ASSUME NEW i \in DOMAIN homes PROVE to(i) \in DOMAIN homes' /\ homes'[to(i)] = homes[i]
  <2>1. i \in 1..Len(homes)
    BY <1>1
  <2>2. CASE i < k
    BY <1>1, <1>3, <1>4, <2>1, <2>2
  <2>3. CASE i = k
    BY <1>1, <1>3, <1>4, <2>1, <2>3
  <2>4. CASE i > k
    BY <1>1, <1>3, <1>4, <2>1, <2>4
  <2>. QED BY <1>1, <2>1, <2>2, <2>3, <2>4
<1>. HIDE DEF from, to
<1>12. ASSUME NEW o \in Samples
       PROVE  /\ state'[o] = "PENDING" => served'[o] = {} /\ ~Homed(Rid(o))'
              /\ state'[o] # "PENDING" =>
                   \E i \in DOMAIN homes' :
                     homes'[i].rid = Rid(o)' /\ served'[o] = {homes'[i].server}
  <2>1. Rid(o)' = Rid(o)
    BY DEF Rid
  <2>2. ASSUME state'[o] = "PENDING" PROVE served'[o] = {} /\ ~Homed(Rid(o))'
    <3>1. served[o] = {} /\ \A i \in DOMAIN homes : homes[i].rid # Rid(o)
      BY <2>2 DEF HomesInv, Homed
    <3>2. \A i \in DOMAIN homes' : homes'[i].rid # Rid(o)
      BY <1>5, <3>1
    <3>. QED BY <2>1, <3>1, <3>2 DEF Homed
  <2>3. ASSUME state'[o] # "PENDING"
        PROVE  \E i \in DOMAIN homes' :
                 homes'[i].rid = Rid(o)' /\ served'[o] = {homes'[i].server}
    <3>1. PICK i \in DOMAIN homes : homes[i].rid = Rid(o) /\ served[o] = {homes[i].server}
      BY <2>3 DEF HomesInv
    <3>. QED BY <1>11, <2>1, <3>1
  <2>. QED BY <2>2, <2>3
<1>. QED BY <1>3, <1>8, <1>9, <1>10, <1>12 DEF HomesInv, Entries

\* The cache holds a batch, so that an entry evicted for a sample of it is older.
LEMMA EvictedIsOlder ==
  ASSUME HomesInv, NEW s \in Samples, state[s] = "PENDING",
         Cardinality(Samples) <= CacheSize, ~(Len(homes) < CacheSize)
  PROVE  homes # << >> /\ homes[1].rid[1] # batch
<1>1. /\ homes \in Seq(Entries) /\ Len(homes) \in Nat /\ Len(homes) = CacheSize
      /\ CacheSize \in Nat \ {0}
  BY AgentAssumption, LenProperties DEF HomesInv, Entries
<1>2. 1 \in DOMAIN homes /\ homes # << >>
  BY <1>1
<1>. SUFFICES ASSUME homes[1].rid[1] = batch PROVE FALSE
  BY <1>2
<1>3. ASSUME NEW i \in DOMAIN homes
      PROVE  /\ homes[i] \in Entries /\ homes[i].rid \in Nat \X Samples
             /\ homes[i].rid = <<homes[i].rid[1], homes[i].rid[2]>>
             /\ homes[i].rid[1] = batch /\ homes[i].rid[2] \in Samples \ {s}
  <2>1. homes[i] \in Entries
    BY <1>1, ElementOfSeq
  <2>2. homes[i].rid \in Nat \X Samples
    BY <2>1 DEF Entries
  <2>3. homes[i].rid = <<homes[i].rid[1], homes[i].rid[2]>> /\ homes[i].rid[2] \in Samples
    BY <2>2
  <2>4. homes[i].rid[1] = batch
    BY <1>1, <1>2 DEF HomesInv
  <2>5. homes[i].rid # Rid(s)
    BY DEF HomesInv, Homed
  <2>. QED BY <2>1, <2>2, <2>3, <2>4, <2>5 DEF Rid
<1>. DEFINE f == [i \in 1..CacheSize |-> homes[i].rid[2]]
            T == Samples \ {s}
<1>4. f \in [1..CacheSize -> T]
  BY <1>1, <1>3
<1>5. \A i, j \in 1..CacheSize : f[i] = f[j] => i = j
  <2>. SUFFICES ASSUME NEW i \in 1..CacheSize, NEW j \in 1..CacheSize, f[i] = f[j]
                PROVE  i = j
    OBVIOUS
  <2>1. i \in DOMAIN homes /\ j \in DOMAIN homes
    BY <1>1
  <2>2. homes[i].rid[2] = homes[j].rid[2]
    OBVIOUS
  <2>3. homes[i].rid = homes[j].rid
    BY <1>3, <2>1, <2>2
  <2>. QED BY <2>1, <2>3 DEF HomesInv
<1>6. /\ IsFiniteSet(Samples) /\ IsFiniteSet(T)
      /\ Cardinality(T) = Cardinality(Samples) - 1 /\ Cardinality(Samples) \in Nat
  BY AgentAssumption, FS_RemoveElement, FS_CardinalityType
<1>7. IsFiniteSet(1..CacheSize) /\ Cardinality(1..CacheSize) = CacheSize
  BY <1>1, FS_Interval
<1>. HIDE DEF f, T
<1>8. Cardinality(1..CacheSize) <= Cardinality(T)
  <2>1. f \in Injection(1..CacheSize, T)
    BY <1>4, <1>5 DEF Injection, IsInjective
  <2>. QED BY <1>6, <1>7, <2>1, FS_Injection DEF ExistsInjection
<1>. QED BY <1>1, <1>6, <1>7, <1>8

LEMMA EnteredFacts ==
  ASSUME NEW S, NEW q \in Seq(S), NEW e \in S, q # << >>
  PROVE  LET t == Append(Tail(q), e) IN
         /\ t \in Seq(S) /\ Len(t) = Len(q)
         /\ \A i \in 1..Len(q) : t[i] = IF i < Len(q) THEN q[i + 1] ELSE e
<1>1. Len(q) \in Nat /\ Len(q) > 0
  BY LenProperties, EmptySeq
<1>2. Tail(q) \in Seq(S) /\ Len(Tail(q)) = Len(q) - 1
  BY HeadTailProperties
<1>3. \A i \in 1..Len(q) - 1 : Tail(q)[i] = q[i + 1]
  BY HeadTailProperties
<1>. DEFINE t == Tail(q)
<1>. HIDE DEF t
<1>4. /\ t \in Seq(S) /\ Len(t) = Len(q) - 1
      /\ \A i \in 1..Len(q) - 1 : t[i] = q[i + 1]
  BY <1>2, <1>3 DEF t
<1>5. /\ Append(t, e) \in Seq(S) /\ Len(Append(t, e)) = Len(q)
      /\ \A i \in 1..Len(q) : Append(t, e)[i] = IF i < Len(q) THEN t[i] ELSE e
  BY <1>1, <1>4
<1>6. \A i \in 1..Len(q) : Append(t, e)[i] = IF i < Len(q) THEN q[i + 1] ELSE e
  BY <1>1, <1>4, <1>5
<1>. QED BY <1>5, <1>6 DEF t

\* A sample begins: its entry is the last one, and none of this batch has gone for it.
LEMMA EnterKeepsHomes ==
  ASSUME HomesInv, NEW s \in Samples, state[s] = "PENDING",
         Cardinality(Samples) <= CacheSize, NEW v \in Servers,
         homes' = Entered(Rid(s), v), served' = [served EXCEPT ![s] = @ \cup {v}],
         UNCHANGED batch, state'[s] # "PENDING",
         \A o \in Samples \ {s} : state'[o] = state[o]
  PROVE  HomesInv' /\ served[s] = {} /\ served'[s] = {v}
<1>. DEFINE e == [rid |-> Rid(s), server |-> v]
<1>1. /\ homes \in Seq(Entries) /\ Len(homes) \in Nat /\ Len(homes) <= CacheSize
      /\ CacheSize \in Nat \ {0} /\ batch \in Nat
  BY AgentAssumption, LenProperties DEF HomesInv, Entries
<1>2. e \in Entries /\ e.rid = Rid(s) /\ e.server = v /\ e.rid[1] = batch
  BY <1>1 DEF Entries, Rid
<1>3. /\ served[s] = {} /\ served'[s] = {v} /\ served' \in [Samples -> SUBSET Servers]
      /\ \A o \in Samples \ {s} : served'[o] = served[o]
  BY DEF HomesInv
<1>4. \A i \in DOMAIN homes : homes[i].rid # Rid(s)
  BY DEF HomesInv, Homed
<1>. HIDE DEF e
\* homes' is what is left of homes from its place drop + 1 on, and the new entry.
<1>5. \E drop \in 0..1 :
        /\ homes' \in Seq(Entries) /\ Len(homes') = Len(homes) + 1 - drop
        /\ Len(homes') <= CacheSize
        /\ \A i \in 1..Len(homes) - drop : homes'[i] = homes[i + drop]
        /\ homes'[Len(homes')] = e
        /\ drop = 1 => homes # << >> /\ homes[1].rid[1] # batch
  <2>1. CASE Len(homes) < CacheSize
    <3>1. homes' = Append(homes, e)
      BY <2>1 DEF Entered, e
    <3>2. /\ homes' \in Seq(Entries) /\ Len(homes') = Len(homes) + 1
          /\ \A i \in 1..Len(homes) : homes'[i] = homes[i]
          /\ homes'[Len(homes')] = e
      BY <1>1, <1>2, <3>1
    <3>3. Len(homes') <= CacheSize /\ \A i \in 1..Len(homes) - 0 : homes'[i] = homes[i + 0]
      BY <1>1, <2>1, <3>2
    <3>. QED BY <1>1, <3>2, <3>3
  <2>2. CASE ~(Len(homes) < CacheSize)
    <3>1. homes' = Append(Tail(homes), e)
      BY <2>2 DEF Entered, e
    <3>2. homes # << >> /\ homes[1].rid[1] # batch
      BY <2>2, EvictedIsOlder
    <3>. DEFINE t == Append(Tail(homes), e)
    <3>3. /\ t \in Seq(Entries) /\ Len(t) = Len(homes)
          /\ \A i \in 1..Len(homes) : t[i] = IF i < Len(homes) THEN homes[i + 1] ELSE e
      BY <1>1, <1>2, <3>2, EnteredFacts
    <3>4. Len(homes) # 0
      BY <1>1, <3>2, EmptySeq
    <3>. HIDE DEF t
    <3>5. /\ \A i \in 1..Len(homes) - 1 : t[i] = homes[i + 1]
          /\ t[Len(t)] = e /\ Len(t) = Len(homes) + 1 - 1 /\ Len(t) <= CacheSize
      <4>1. Len(homes) \in 1..Len(homes) /\ Len(homes) = Len(homes) + 1 - 1
        BY <1>1, <3>4
      <4>2. \A i \in 1..Len(homes) - 1 : i \in 1..Len(homes) /\ i < Len(homes)
        BY <1>1
      <4>3. t[Len(t)] = e
        BY <3>3, <4>1
      <4>4. \A i \in 1..Len(homes) - 1 : t[i] = homes[i + 1]
        BY <3>3, <4>2
      <4>. QED BY <1>1, <3>3, <4>1, <4>3, <4>4
    <3>6. homes' = t
      BY <3>1 DEF t
    <3>. QED BY <3>2, <3>3, <3>5, <3>6
  <2>. QED BY <2>1, <2>2
<1>6. PICK drop \in 0..1 :
        /\ homes' \in Seq(Entries) /\ Len(homes') = Len(homes) + 1 - drop
        /\ Len(homes') <= CacheSize
        /\ \A i \in 1..Len(homes) - drop : homes'[i] = homes[i + drop]
        /\ homes'[Len(homes')] = e
        /\ drop = 1 => homes # << >> /\ homes[1].rid[1] # batch
  BY <1>5
<1>. DEFINE last == Len(homes) + 1 - drop
<1>7. DOMAIN homes' = 1..last /\ Len(homes') = last /\ DOMAIN homes = 1..Len(homes)
  BY <1>1, <1>6
<1>8. ASSUME NEW i \in 1..last
      PROVE  \/ i = last /\ homes'[i] = e
             \/ i # last /\ i + drop \in DOMAIN homes /\ homes'[i] = homes[i + drop]
  BY <1>1, <1>6, <1>7
<1>9. ASSUME NEW i \in DOMAIN homes, ~(drop = 1 /\ i = 1)
      PROVE  i - drop \in 1..last /\ homes'[i - drop] = homes[i]
  <2>1. i - drop \in 1..Len(homes) - drop /\ (i - drop) + drop = i /\ i - drop \in 1..last
    BY <1>1, <1>7, <1>9
  <2>. QED BY <1>6, <2>1
<1>10. last \in 1..last /\ homes'[last] = e
  <2>1. drop = 1 => Len(homes) # 0
    BY <1>1, <1>6, EmptySeq
  <2>. QED BY <1>1, <1>6, <2>1
<1>. HIDE DEF last
<1>11. \A i, j \in DOMAIN homes' : homes'[i].rid = homes'[j].rid => i = j
  <2>. SUFFICES ASSUME NEW i \in 1..last, NEW j \in 1..last, homes'[i].rid = homes'[j].rid
                PROVE  i = j
    BY <1>7
  <2>1. ASSUME i # last, j # last PROVE i + drop = j + drop
    <3>1. i + drop \in DOMAIN homes /\ homes'[i] = homes[i + drop]
      BY <1>8, <2>1
    <3>2. j + drop \in DOMAIN homes /\ homes'[j] = homes[j + drop]
      BY <1>8, <2>1
    <3>3. homes[i + drop].rid = homes[j + drop].rid
      BY <3>1, <3>2
    <3>. QED BY <3>1, <3>2, <3>3 DEF HomesInv
  <2>2. i = last <=> j = last
    BY <1>2, <1>4, <1>8
  <2>. QED BY <2>1, <2>2
<1>12. \A i \in DOMAIN homes' : homes'[i].rid[1] <= batch
  <2>1. ASSUME NEW i \in 1..last PROVE homes'[i].rid[1] <= batch
    <3>1. CASE i = last
      BY <1>1, <1>2, <1>10, <3>1
    <3>2. CASE i # last
      BY <1>8, <3>2 DEF HomesInv
    <3>. QED BY <3>1, <3>2
  <2>. QED BY <1>7, <2>1
<1>13. \A i, j \in DOMAIN homes' :
         i < j /\ homes'[i].rid[1] = batch => homes'[j].rid[1] = batch
  <2>. SUFFICES ASSUME NEW i \in 1..last, NEW j \in 1..last, i < j,
                       homes'[i].rid[1] = batch
                PROVE  homes'[j].rid[1] = batch
    BY <1>7
  <2>1. CASE j = last
    BY <1>2, <1>10, <2>1
  <2>2. CASE j # last
    <3>1. i # last /\ i + drop < j + drop
      BY <2>2 DEF last
    <3>2. /\ i + drop \in DOMAIN homes /\ homes'[i] = homes[i + drop]
          /\ j + drop \in DOMAIN homes /\ homes'[j] = homes[j + drop]
      BY <1>8, <2>2, <3>1
    <3>3. homes[i + drop].rid[1] = batch
      BY <3>2
    <3>4. homes[j + drop].rid[1] = batch
      BY <3>1, <3>2, <3>3 DEF HomesInv
    <3>. QED BY <3>2, <3>4
  <2>. QED BY <2>1, <2>2
<1>14. ASSUME NEW o \in Samples
       PROVE  /\ state'[o] = "PENDING" => served'[o] = {} /\ ~Homed(Rid(o))'
              /\ state'[o] # "PENDING" =>
                   \E i \in DOMAIN homes' :
                     homes'[i].rid = Rid(o)' /\ served'[o] = {homes'[i].server}
  <2>1. Rid(o)' = Rid(o)
    BY DEF Rid
  <2>2. CASE o = s
    <3>1. homes'[last].rid = Rid(o) /\ served'[o] = {homes'[last].server}
      BY <1>2, <1>3, <1>10, <2>2
    <3>. QED BY <1>7, <1>10, <2>1, <2>2, <3>1
  <2>3. CASE o # s
    <3>1. state'[o] = state[o] /\ served'[o] = served[o]
      BY <1>3, <2>3
    <3>2. ASSUME state[o] = "PENDING" PROVE served[o] = {} /\ ~Homed(Rid(o))'
      <4>1. served[o] = {} /\ \A i \in DOMAIN homes : homes[i].rid # Rid(o)
        BY <3>2 DEF HomesInv, Homed
      <4>2. Rid(s) # Rid(o)
        BY <2>3 DEF Rid
      <4>3. \A i \in DOMAIN homes' : homes'[i].rid # Rid(o)
        BY <1>2, <1>7, <1>8, <4>1, <4>2
      <4>. QED BY <2>1, <4>1, <4>3 DEF Homed
    <3>3. ASSUME state[o] # "PENDING"
          PROVE  \E i \in DOMAIN homes' :
                   homes'[i].rid = Rid(o)' /\ served[o] = {homes'[i].server}
      <4>1. PICK i \in DOMAIN homes : homes[i].rid = Rid(o) /\ served[o] = {homes[i].server}
        BY <3>3 DEF HomesInv
      <4>2. homes[i].rid[1] = batch
        BY <4>1 DEF Rid
      <4>3. ~(drop = 1 /\ i = 1)
        BY <1>6, <4>2
      <4>. QED BY <1>7, <1>9, <2>1, <4>1, <4>3
    <3>. QED BY <3>1, <3>2, <3>3
  <2>. QED BY <2>2, <2>3
<1>15. /\ batch' = batch /\ batch' \in Nat /\ Len(homes') <= CacheSize
       /\ homes' \in Seq([rid : Nat \X Samples, server : Servers])
  BY <1>1, <1>6 DEF Entries
<1>16. /\ \A i \in DOMAIN homes' : homes'[i].rid[1] <= batch'
       /\ \A i, j \in DOMAIN homes' :
            i < j /\ homes'[i].rid[1] = batch' => homes'[j].rid[1] = batch'
  BY <1>12, <1>13, <1>15
<1>17. HomesInv'
  BY <1>3, <1>11, <1>14, <1>15, <1>16 DEF HomesInv
<1>. QED BY <1>3, <1>17

\* What leaves the cache and the batch alone, and begins no sample.
LEMMA HomesUnchanged ==
  ASSUME HomesInv, UNCHANGED <<batch, homes, served>>,
         \A s \in Samples : state'[s] = "PENDING" <=> state[s] = "PENDING"
  PROVE  HomesInv'
BY DEF HomesInv, Homed, Rid

\* The entries of a batch are older than all of the next.
LEMMA NextBatchKeepsHomes ==
  ASSUME HomesInv, NextBatch
  PROVE  HomesInv'
<1>1. /\ batch' = batch + 1 /\ homes' = homes /\ served' = [s \in Samples |-> {}]
      /\ state' = [s \in Samples |-> "PENDING"] /\ batch \in Nat
  BY DEF NextBatch, HomesInv
<1>2. \A i \in DOMAIN homes : homes[i].rid[1] \in Nat /\ homes[i].rid[1] <= batch
  <2>1. homes \in Seq(Entries)
    BY DEF HomesInv, Entries
  <2>2. ASSUME NEW i \in DOMAIN homes PROVE homes[i].rid \in Nat \X Samples
    <3>1. homes[i] \in Entries
      BY <2>1, ElementOfSeq
    <3>. QED BY <3>1 DEF Entries
  <2>. QED BY <2>2 DEF HomesInv
<1>3. \A i \in DOMAIN homes : homes[i].rid[1] <= batch' /\ homes[i].rid[1] # batch'
  BY <1>1, <1>2
<1>4. ASSUME NEW s \in Samples PROVE ~Homed(Rid(s))'
  BY <1>1, <1>3 DEF Homed, Rid
<1>5. batch' \in Nat /\ served' \in [Samples -> SUBSET Servers]
  BY <1>1
<1>. QED BY <1>1, <1>3, <1>4, <1>5 DEF HomesInv

-------------------------------------------------------------------------------
(* The servers' shares.                                                    *)

\* Loads that go down by one at one place of the servers' order, if at all.
Stairs(f, m, p) ==
  /\ m \in Int /\ p \in 0..Len(ServerOrder) - 1
  /\ \A i \in 1..Len(ServerOrder) :
       f[ServerOrder[i]] = IF i <= p THEN m + 1 ELSE m

\* How many samples of this batch a server has had, and its load before the batch.
Share(v) == Cardinality({s \in Samples : v \in served[s]})
LoadBefore == [v \in Servers |-> load[v] - Share(v)]

\* The loads are such stairs, and so they were when the batch began.
LoadInv ==
  /\ load \in [Servers -> Nat] /\ DOMAIN served = Samples
  /\ \E m, p : Stairs(load, m, p)
  /\ \E m, p : Stairs(LoadBefore, m, p)

LEMMA ServerFacts ==
  /\ Len(ServerOrder) \in Nat \ {0} /\ DOMAIN ServerOrder = 1..Len(ServerOrder)
  /\ \A i \in 1..Len(ServerOrder) : ServerOrder[i] \in Servers
  /\ \A i, j \in 1..Len(ServerOrder) : ServerOrder[i] = ServerOrder[j] => i = j
  /\ \A v \in Servers : \E i \in 1..Len(ServerOrder) : ServerOrder[i] = v
<1>1. ServerOrder \in Seq(Range(ServerOrder)) /\ ServerOrder # << >> /\ IsInjective(ServerOrder)
  BY AgentAssumption
<1>2. Len(ServerOrder) \in Nat \ {0} /\ DOMAIN ServerOrder = 1..Len(ServerOrder)
  BY <1>1, EmptySeq, LenProperties
<1>. QED BY <1>1, <1>2 DEF IsInjective, Servers, Range

LEMMA ShareFacts ==
  /\ IsFiniteSet(Samples)
  /\ \A v : Share(v) \in Nat
<1>1. ASSUME NEW v PROVE IsFiniteSet({s \in Samples : v \in served[s]})
  BY AgentAssumption, FS_Subset
<1>. QED BY <1>1, AgentAssumption, FS_CardinalityType DEF Share

\* The root of the heap is the foot of the stairs.
LEMMA RootIsFoot ==
  ASSUME NEW m, NEW p, Stairs(load, m, p)
  PROVE  LeastLoaded = ServerOrder[p + 1] /\ p + 1 \in 1..Len(ServerOrder)
<1>. DEFINE Least(i) ==
       \A j \in DOMAIN ServerOrder \ {i} :
         \/ load[ServerOrder[i]] < load[ServerOrder[j]]
         \/ load[ServerOrder[i]] = load[ServerOrder[j]] /\ i < j
<1>1. m \in Int /\ p \in 0..Len(ServerOrder) - 1 /\ p + 1 \in DOMAIN ServerOrder
  BY ServerFacts DEF Stairs
<1>2. \A i \in DOMAIN ServerOrder : load[ServerOrder[i]] = IF i <= p THEN m + 1 ELSE m
  BY ServerFacts DEF Stairs
<1>3. Least(p + 1)
  BY <1>1, <1>2, ServerFacts
<1>4. ASSUME NEW i \in DOMAIN ServerOrder, Least(i) PROVE i = p + 1
  BY <1>1, <1>2, <1>4, ServerFacts
<1>. HIDE DEF Least
<1>5. (CHOOSE i \in DOMAIN ServerOrder : Least(i)) = p + 1
  BY <1>1, <1>3, <1>4
<1>. QED BY <1>1, <1>5, ServerFacts DEF LeastLoaded, Least

\* One more at the foot, and the stairs go on.
LEMMA StairsGoOn ==
  ASSUME NEW f, NEW g, NEW m, NEW p, Stairs(f, m, p),
         g[ServerOrder[p + 1]] = f[ServerOrder[p + 1]] + 1,
         \A i \in 1..Len(ServerOrder) : i # p + 1 => g[ServerOrder[i]] = f[ServerOrder[i]]
  PROVE  \E n, q : Stairs(g, n, q)
<1>1. m \in Int /\ p \in 0..Len(ServerOrder) - 1 /\ Len(ServerOrder) \in Nat
  BY ServerFacts DEF Stairs
<1>2. \A i \in 1..Len(ServerOrder) : f[ServerOrder[i]] = IF i <= p THEN m + 1 ELSE m
  BY DEF Stairs
<1>3. \A i \in 1..Len(ServerOrder) : g[ServerOrder[i]] = IF i <= p + 1 THEN m + 1 ELSE m
  BY <1>1, <1>2
<1>4. CASE p + 1 < Len(ServerOrder)
  <2>1. Stairs(g, m, p + 1)
    BY <1>1, <1>3, <1>4 DEF Stairs
  <2>. QED BY <2>1
<1>5. CASE ~(p + 1 < Len(ServerOrder))
  <2>1. Stairs(g, m + 1, 0)
    BY <1>1, <1>3, <1>5 DEF Stairs
  <2>. QED BY <2>1
<1>. QED BY <1>4, <1>5

\* A sample begins at the root of the heap.
LEMMA BeginKeepsLoad ==
  ASSUME LoadInv, NEW s \in Samples, NEW v, v = LeastLoaded,
         load' = [load EXCEPT ![v] = @ + 1], served[s] = {},
         DOMAIN served' = Samples, served'[s] = {v},
         \A o \in Samples \ {s} : served'[o] = served[o]
  PROVE  LoadInv' /\ v \in Servers
<1>1. PICK m, p : Stairs(load, m, p)
  BY DEF LoadInv
<1>2. v = ServerOrder[p + 1] /\ p + 1 \in 1..Len(ServerOrder) /\ v \in Servers
  BY <1>1, RootIsFoot, ServerFacts
<1>3. /\ load' \in [Servers -> Nat] /\ load'[v] = load[v] + 1
      /\ \A w \in Servers \ {v} : load'[w] = load[w]
  BY <1>2 DEF LoadInv
<1>4. \A i \in 1..Len(ServerOrder) : i # p + 1 => ServerOrder[i] \in Servers \ {v}
  BY <1>2, ServerFacts
<1>5. \E n, q : Stairs(load', n, q)
  <2>. DEFINE g == load'
  <2>1. g[ServerOrder[p + 1]] = load[ServerOrder[p + 1]] + 1
    BY <1>2, <1>3
  <2>2. \A i \in 1..Len(ServerOrder) : i # p + 1 => g[ServerOrder[i]] = load[ServerOrder[i]]
    BY <1>3, <1>4
  <2>. HIDE DEF g
  <2>3. \E n, q : Stairs(g, n, q)
    BY <1>1, <2>1, <2>2, StairsGoOn
  <2>. QED BY <2>3 DEF g
<1>6. \A w \in Servers \ {v} : Share(w)' = Share(w)
  <2>. SUFFICES ASSUME NEW w \in Servers \ {v}
                PROVE  {o \in Samples : w \in served'[o]} = {o \in Samples : w \in served[o]}
    BY DEF Share
  <2>. QED OBVIOUS
<1>7. Share(v)' = Share(v) + 1
  <2>. DEFINE A == {o \in Samples : v \in served[o]}
              B == {o \in Samples : v \in served'[o]}
  <2>1. B = A \cup {s} /\ s \notin A
    OBVIOUS
  <2>2. IsFiniteSet(A)
    BY ShareFacts, FS_Subset
  <2>. HIDE DEF A, B
  <2>3. Cardinality(B) = Cardinality(A) + 1
    BY <2>1, <2>2, FS_AddElement
  <2>. QED BY <2>3 DEF A, B, Share
<1>8. ASSUME NEW w \in Servers PROVE load'[w] - Share(w)' = load[w] - Share(w)
  <2>1. load[w] \in Nat /\ Share(w) \in Nat
    BY ShareFacts DEF LoadInv
  <2>2. CASE w = v
    BY <1>3, <1>7, <2>1, <2>2
  <2>3. CASE w # v
    BY <1>3, <1>6, <2>3
  <2>. QED BY <2>2, <2>3
<1>9. LoadBefore' = LoadBefore
  BY <1>8 DEF LoadBefore
<1>10. \E n, q : Stairs(LoadBefore', n, q)
  BY <1>9 DEF LoadInv
<1>. QED BY <1>2, <1>3, <1>5, <1>10 DEF LoadInv, Stairs

-------------------------------------------------------------------------------
(* The servers' statistics.                                                *)

\* The places in a sample's conversation that hold the policy's tokens, and all those a
\* server has generated in this batch.
GeneratedBy(s) == {s} \X {i \in DOMAIN ids[s] : ids[s][i] = "gen"}
GeneratedAt(v) == UNION {GeneratedBy(s) : s \in {s \in Samples : v \in served[s]}}

\* A server's count is the number of tokens it has generated.
StatsInv ==
  /\ recorded \in [Servers -> Nat]
  /\ \A v \in Servers :
       IsFiniteSet(GeneratedAt(v)) /\ recorded[v] = Cardinality(GeneratedAt(v))

LEMMA GeneratedIsMember ==
  ASSUME NEW v, NEW x
  PROVE  x \in GeneratedAt(v) <=> \E s \in Samples : v \in served[s] /\ x \in GeneratedBy(s)
BY DEF GeneratedAt

\* What generates no token leaves the statistics right.
LEMMA NoneGenerated ==
  ASSUME StatsInv, UNCHANGED recorded,
         \A s \in Samples :
           \/ GeneratedBy(s)' = GeneratedBy(s) /\ served'[s] = served[s]
           \/ GeneratedBy(s)' = {} /\ served[s] = {}
  PROVE  StatsInv'
<1>1. ASSUME NEW v \in Servers PROVE GeneratedAt(v)' = GeneratedAt(v)
  <2>1. ASSUME NEW x PROVE x \in GeneratedAt(v)' <=> x \in GeneratedAt(v)
    <3>1. x \in GeneratedAt(v)'
            <=> \E s \in Samples : v \in served'[s] /\ x \in GeneratedBy(s)'
      BY DEF GeneratedAt
    <3>. QED BY <3>1, GeneratedIsMember
  <2>. QED BY <2>1
<1>. QED BY <1>1 DEF StatsInv

LEMMA ExtendedConversation ==
  ASSUME NEW x \in Tokens, NEW n \in Nat, NEW t \in Seq(Tokens)
  PROVE  /\ Len(t) \in Nat /\ DOMAIN t = 1..Len(t)
         /\ DOMAIN Extended(t, x, n) = 1..Len(t) + n
         /\ \A i \in 1..Len(t) : Extended(t, x, n)[i] = t[i]
         /\ \A i \in Len(t) + 1..Len(t) + n : Extended(t, x, n)[i] = x
<1>. DEFINE r == Repeat(x, n)
            u == t \o r
<1>1. r \in Seq(Tokens) /\ Len(r) = n /\ \A i \in 1..n : r[i] = x
  BY RepeatFacts
<1>. HIDE DEF r
<1>2. /\ u \in Seq(Tokens) /\ Len(u) = Len(t) + n
      /\ \A i \in 1..Len(t) + n : u[i] = IF i <= Len(t) THEN t[i] ELSE r[i - Len(t)]
  BY <1>1, ConcatProperties
<1>3. Len(t) \in Nat /\ DOMAIN t = 1..Len(t)
  BY LenProperties
<1>. HIDE DEF u
<1>4. DOMAIN u = 1..Len(t) + n
  BY <1>2, LenProperties
<1>5. ASSUME NEW i \in 1..Len(t) PROVE u[i] = t[i]
  BY <1>2, <1>3
<1>6. ASSUME NEW i \in Len(t) + 1..Len(t) + n PROVE u[i] = x
  <2>1. i \in 1..Len(t) + n /\ ~(i <= Len(t)) /\ i - Len(t) \in 1..n
    BY <1>3
  <2>. QED BY <1>1, <1>2, <2>1
<1>. QED BY <1>3, <1>4, <1>5, <1>6 DEF u, r, Extended

\* Answers are not generated.
LEMMA ObservedAreNotGenerated ==
  ASSUME NEW t \in Seq(Tokens), NEW n \in Nat
  PROVE  {i \in DOMAIN Extended(t, "obs", n) : Extended(t, "obs", n)[i] = "gen"}
           = {i \in DOMAIN t : t[i] = "gen"}
<1>. DEFINE u == Extended(t, "obs", n)
<1>1. "obs" \in Tokens
  BY DEF Tokens
<1>2. /\ \A i \in 1..Len(t) : u[i] = t[i]
      /\ \A i \in Len(t) + 1..Len(t) + n : u[i] = "obs"
  BY <1>1, ExtendedConversation
<1>3. /\ Len(t) \in Nat /\ DOMAIN t = 1..Len(t) /\ DOMAIN u = 1..Len(t) + n
  BY <1>1, ExtendedConversation
<1>. HIDE DEF u
<1>4. ASSUME NEW i PROVE i \in DOMAIN u /\ u[i] = "gen" <=> i \in DOMAIN t /\ t[i] = "gen"
  <2>1. i \in DOMAIN u => i \in 1..Len(t) \/ i \in Len(t) + 1..Len(t) + n
    BY <1>3
  <2>. QED BY <1>2, <1>3, <2>1
<1>5. {i \in DOMAIN u : u[i] = "gen"} = {i \in DOMAIN t : t[i] = "gen"}
  BY <1>4
<1>. QED BY <1>5 DEF u

\* A turn of n tokens is counted at the server that has generated it.
LEMMA TurnIsCounted ==
  ASSUME StatsInv, NEW s \in Samples, NEW v \in Servers, served[s] = {v}, NEW n \in Nat,
         UNCHANGED served, recorded' = [recorded EXCEPT ![v] = @ + n],
         ids[s] \in Seq(Tokens), ids'[s] = Extended(ids[s], "gen", n),
         \A o \in Samples \ {s} : ids'[o] = ids[o]
  PROVE  StatsInv'
<1>. DEFINE t == ids[s]
            u == Extended(t, "gen", n)
            new == {s} \X (Len(t) + 1..Len(t) + n)
<1>1. t \in Seq(Tokens) /\ Len(t) \in Nat /\ DOMAIN t = 1..Len(t)
  BY LenProperties
<1>. HIDE DEF t
<1>2. "gen" \in Tokens /\ n \in Nat
  BY DEF Tokens
<1>3. /\ \A i \in 1..Len(t) : Extended(t, "gen", n)[i] = t[i]
      /\ \A i \in Len(t) + 1..Len(t) + n : Extended(t, "gen", n)[i] = "gen"
      /\ DOMAIN Extended(t, "gen", n) = 1..Len(t) + n
  BY ONLY <1>1, <1>2, ExtendedConversation
<1>4. /\ \A i \in 1..Len(t) : u[i] = t[i]
      /\ \A i \in Len(t) + 1..Len(t) + n : u[i] = "gen"
      /\ DOMAIN u = 1..Len(t) + n
  BY <1>3
<1>5. ids'[s] = u
  BY DEF t
<1>. HIDE DEF u
<1>6. ASSUME NEW i
      PROVE  i \in DOMAIN u /\ u[i] = "gen"
               <=> (i \in DOMAIN t /\ t[i] = "gen") \/ i \in Len(t) + 1..Len(t) + n
  <2>1. i \in DOMAIN u <=> i \in 1..Len(t) \/ i \in Len(t) + 1..Len(t) + n
    BY <1>1, <1>4
  <2>. QED BY <1>1, <1>4, <2>1
<1>7. GeneratedBy(s)' = GeneratedBy(s) \cup new
  <2>1. GeneratedBy(s)' = {s} \X {i \in DOMAIN u : u[i] = "gen"}
    BY <1>5 DEF GeneratedBy
  <2>2. GeneratedBy(s) = {s} \X {i \in DOMAIN t : t[i] = "gen"}
    BY DEF GeneratedBy, t
  <2>. QED BY <1>6, <2>1, <2>2
<1>8. new \cap GeneratedAt(v) = {}
  <2>. SUFFICES ASSUME NEW x \in new, x \in GeneratedAt(v) PROVE FALSE
    OBVIOUS
  <2>1. PICK o \in Samples : x \in GeneratedBy(o)
    BY GeneratedIsMember
  <2>2. x[1] = s /\ x[1] = o /\ x[2] \in DOMAIN ids[o]
    BY <2>1 DEF GeneratedBy
  <2>3. x[2] \in DOMAIN t /\ x[2] \in Len(t) + 1..Len(t) + n
    BY <2>2 DEF t
  <2>. QED BY <1>1, <2>3
<1>9. IsFiniteSet(new) /\ Cardinality(new) = n
  <2>1. /\ IsFiniteSet(Len(t) + 1..Len(t) + n)
        /\ Cardinality(Len(t) + 1..Len(t) + n) = n
    <3>. DEFINE a == Len(t) + 1
                b == Len(t) + n
    <3>1. a \in Int /\ b \in Int /\ b - a + 1 = n /\ (a > b <=> n = 0)
      BY <1>1
    <3>. HIDE DEF a, b
    <3>2. IsFiniteSet(a..b) /\ Cardinality(a..b) = IF a > b THEN 0 ELSE b - a + 1
      BY <3>1, FS_Interval
    <3>3. Cardinality(a..b) = n
      BY <3>1, <3>2
    <3>. QED BY <3>2, <3>3 DEF a, b
  <2>. DEFINE S == Len(t) + 1..Len(t) + n
  <2>2. IsFiniteSet(S) /\ Cardinality(S) = n
    BY <2>1
  <2>. HIDE DEF S
  <2>3. IsFiniteSet({s}) /\ Cardinality({s}) = 1
    BY FS_Singleton
  <2>4. IsFiniteSet({s} \X S) /\ Cardinality({s} \X S) = 1 * n
    BY <2>2, <2>3, FS_Product
  <2>. QED BY <2>4 DEF S
<1>. HIDE DEF new
<1>10. GeneratedAt(v)' = GeneratedAt(v) \cup new
  <2>1. ASSUME NEW x
        PROVE  x \in GeneratedAt(v)' <=> x \in GeneratedAt(v) \/ x \in new
    <3>1. x \in GeneratedAt(v)'
            <=> \E o \in Samples : v \in served'[o] /\ x \in GeneratedBy(o)'
      BY DEF GeneratedAt
    <3>2. \A o \in Samples \ {s} : GeneratedBy(o)' = GeneratedBy(o)
      BY DEF GeneratedBy
    <3>3. v \in served[s]
      OBVIOUS
    <3>. QED BY <1>7, <3>1, <3>2, <3>3, GeneratedIsMember
  <2>. QED BY <2>1
<1>11. ASSUME NEW w \in Servers \ {v} PROVE GeneratedAt(w)' = GeneratedAt(w)
  <2>1. ASSUME NEW x PROVE x \in GeneratedAt(w)' <=> x \in GeneratedAt(w)
    <3>1. x \in GeneratedAt(w)'
            <=> \E o \in Samples : w \in served'[o] /\ x \in GeneratedBy(o)'
      BY DEF GeneratedAt
    <3>2. \A o \in Samples \ {s} : GeneratedBy(o)' = GeneratedBy(o)
      BY DEF GeneratedBy
    <3>3. w \notin served[s]
      OBVIOUS
    <3>. QED BY <3>1, <3>2, <3>3, GeneratedIsMember
  <2>. QED BY <2>1
<1>12. IsFiniteSet(GeneratedAt(v)') /\ Cardinality(GeneratedAt(v)') = recorded[v] + n
  <2>. DEFINE A == GeneratedAt(v)
              B == GeneratedAt(v)'
  <2>1. /\ IsFiniteSet(A) /\ Cardinality(A) = recorded[v] /\ recorded[v] \in Nat
        /\ B = A \cup new /\ A \cap new = {}
    BY <1>8, <1>10 DEF StatsInv
  <2>. HIDE DEF A, B
  <2>2. /\ IsFiniteSet(A \cup new)
        /\ Cardinality(A \cup new) = Cardinality(A) + Cardinality(new) - Cardinality(A \cap new)
    BY <1>9, <2>1, FS_Union
  <2>3. Cardinality(A \cap new) = 0
    BY <2>1, FS_EmptySet
  <2>4. IsFiniteSet(B) /\ Cardinality(B) = recorded[v] + n
    BY <1>9, <2>1, <2>2, <2>3
  <2>. QED BY <2>4 DEF B
<1>13. /\ recorded' \in [Servers -> Nat] /\ recorded'[v] = recorded[v] + n
       /\ \A w \in Servers \ {v} : recorded'[w] = recorded[w]
  BY DEF StatsInv
<1>14. ASSUME NEW w \in Servers
       PROVE  IsFiniteSet(GeneratedAt(w)') /\ recorded'[w] = Cardinality(GeneratedAt(w)')
  <2>1. CASE w = v
    BY <1>12, <1>13, <2>1
  <2>2. CASE w # v
    BY <1>11, <1>13, <2>2 DEF StatsInv
  <2>. QED BY <2>1, <2>2
<1>. QED BY <1>13, <1>14 DEF StatsInv

-------------------------------------------------------------------------------
(* The manager's theorems.                                                 *)

\* The part of the invariant about the server manager.
ManagerInv == HomesInv /\ LoadInv /\ StatsInv

LEMMA InitIsManagerInv == Init => ManagerInv
<1>. SUFFICES ASSUME Init PROVE ManagerInv
  OBVIOUS
<1>1. /\ batch = 1 /\ state = [s \in Samples |-> "PENDING"] /\ homes = << >>
      /\ load = [v \in Servers |-> 0] /\ recorded = [v \in Servers |-> 0]
      /\ served = [s \in Samples |-> {}] /\ ids = [s \in Samples |-> << >>]
  BY DEF Init, AgentInit
<1>2. HomesInv
  <2>1. homes \in Seq(Entries) /\ Len(homes) = 0 /\ DOMAIN homes = {}
    BY <1>1, EmptySeq
  <2>. QED BY <1>1, <2>1, AgentAssumption DEF HomesInv, Homed, Entries
<1>3. \A v : Share(v) = 0
  <2>1. ASSUME NEW v PROVE {s \in Samples : v \in served[s]} = {}
    BY <1>1
  <2>. QED BY <2>1, FS_EmptySet DEF Share
<1>4. LoadInv
  <2>1. Stairs(load, 0, 0) /\ Stairs(LoadBefore, 0, 0)
    BY <1>1, <1>3, ServerFacts DEF Stairs, LoadBefore
  <2>2. load \in [Servers -> Nat] /\ DOMAIN served = Samples
    BY <1>1
  <2>. QED BY <2>1, <2>2 DEF LoadInv
<1>5. StatsInv
  <2>1. ASSUME NEW v \in Servers PROVE GeneratedAt(v) = {}
    BY <1>1 DEF GeneratedAt
  <2>. QED BY <1>1, <2>1, FS_EmptySet DEF StatsInv
<1>. QED BY <1>2, <1>4, <1>5 DEF ManagerInv

LEMMA LoadUnchanged ==
  ASSUME LoadInv, UNCHANGED <<load, served>>
  PROVE  LoadInv'
<1>1. LoadBefore' = LoadBefore
  BY DEF LoadBefore, Share
<1>. QED BY <1>1 DEF LoadInv, Stairs

\* What leaves the manager and the conversations alone, and begins no sample.
LEMMA ManagerUnchanged ==
  ASSUME ManagerInv, UNCHANGED <<batch, ids, managerVars>>,
         \A s \in Samples : state'[s] = "PENDING" <=> state[s] = "PENDING"
  PROVE  ManagerInv'
<1>1. UNCHANGED <<load, homes, recorded, served>>
  BY DEF managerVars
<1>2. HomesInv'
  BY <1>1, HomesUnchanged DEF ManagerInv
<1>3. LoadInv'
  BY <1>1, LoadUnchanged DEF ManagerInv
<1>4. StatsInv'
  BY <1>1 DEF ManagerInv, StatsInv, GeneratedAt, GeneratedBy
<1>. QED BY <1>2, <1>3, <1>4 DEF ManagerInv

\* The first turn of a sample goes to the root of the heap.
LEMMA BeginKeepsManager ==
  ASSUME IInv, ManagerInv, Cardinality(Samples) <= CacheSize, NEW s \in Samples, Begin(s)
  PROVE  ManagerInv'
<1>1. PICK n \in 1..PromptLength :
        /\ ids' = [ids EXCEPT ![s] = Repeat("prompt", n)]
        /\ Send(s, ids'[s], maxTokens')
  BY DEF Begin
<1>2. state[s] = "PENDING" /\ batch' = batch
  BY DEF Begin
<1>3. ~Homed(Rid(s)) /\ served[s] = {} /\ DOMAIN served = Samples
  BY <1>2 DEF ManagerInv, HomesInv
<1>4. PICK v : v = LeastLoaded
  OBVIOUS
<1>5. /\ load' = [load EXCEPT ![v] = @ + 1] /\ homes' = Entered(Rid(s), v)
      /\ served' = [served EXCEPT ![s] = @ \cup {v}]
      /\ state' = [state EXCEPT ![s] = "GENERATING"] /\ recorded' = recorded
  BY <1>1, <1>3, <1>4 DEF Send, ChooseServer, ChosenServer
<1>6. /\ served'[s] = {v} /\ DOMAIN served' = Samples
      /\ \A o \in Samples \ {s} : served'[o] = served[o]
  BY <1>3, <1>5
<1>7. LoadInv' /\ v \in Servers
  BY <1>3, <1>4, <1>5, <1>6, BeginKeepsLoad DEF ManagerInv
<1>8. state'[s] # "PENDING" /\ \A o \in Samples \ {s} : state'[o] = state[o]
  BY <1>5 DEF IInv, DomainInv
<1>9. HomesInv'
  BY <1>2, <1>5, <1>7, <1>8, EnterKeepsHomes DEF ManagerInv
<1>10. GeneratedBy(s)' = {}
  <2>1. n \in Nat /\ "prompt" \in Tokens
    BY ConfigFacts DEF Tokens
  <2>. DEFINE r == Repeat("prompt", n)
  <2>2. r \in Seq(Tokens) /\ Len(r) = n /\ \A i \in 1..n : r[i] = "prompt"
    BY <2>1, RepeatFacts
  <2>3. DOMAIN r = 1..n
    BY <2>2, LenProperties
  <2>4. ids'[s] = r
    BY <1>1 DEF IInv, DomainInv
  <2>. HIDE DEF r
  <2>5. {i \in DOMAIN r : r[i] = "gen"} = {}
    BY <2>2, <2>3
  <2>. QED BY <2>4, <2>5 DEF GeneratedBy
<1>11. \A o \in Samples \ {s} : GeneratedBy(o)' = GeneratedBy(o)
  BY <1>1 DEF GeneratedBy, IInv, DomainInv
<1>12. StatsInv'
  BY <1>3, <1>5, <1>6, <1>10, <1>11, NoneGenerated DEF ManagerInv
<1>. QED BY <1>7, <1>9, <1>12 DEF ManagerInv

\* A sample that has begun uses its entry.
LEMMA LaterTurnKeepsManager ==
  ASSUME IInv, ManagerInv, NEW s \in Samples, state[s] # "PENDING",
         homes' = Touched(Rid(s)), UNCHANGED <<batch, load, served>>,
         NEW x, x # "PENDING", state' = [state EXCEPT ![s] = x], StatsInv'
  PROVE  ManagerInv'
<1>1. \A o \in Samples : state'[o] = "PENDING" <=> state[o] = "PENDING"
  BY DEF IInv, DomainInv
<1>2. HomesInv'
  <2>1. PICK k : k = PlaceOf(Rid(s))
    OBVIOUS
  <2>. QED BY <1>1, <2>1, TouchKeepsHomes DEF ManagerInv
<1>3. LoadInv'
  BY LoadUnchanged DEF ManagerInv
<1>. QED BY <1>2, <1>3 DEF ManagerInv

\* A later turn goes to the server of the first.
LEMMA SendAgainKeepsManager ==
  ASSUME IInv, ManagerInv, NEW s \in Samples, state[s] # "PENDING",
         NEW t, NEW given, Send(s, t, given), UNCHANGED batch,
         \A o \in Samples : GeneratedBy(o)' = GeneratedBy(o)
  PROVE  ManagerInv'
<1>1. Homed(Rid(s)) /\ served[s] = {HomeOf(Rid(s))}
      /\ served \in [Samples -> SUBSET Servers]
  BY HomeFacts DEF ManagerInv, HomesInv
<1>2. /\ homes' = Touched(Rid(s)) /\ load' = load /\ recorded' = recorded
      /\ served' = [served EXCEPT ![s] = @ \cup {HomeOf(Rid(s))}]
      /\ state' = [state EXCEPT ![s] = "GENERATING"]
  BY <1>1 DEF Send, ChooseServer, ChosenServer
<1>3. served' = served
  BY <1>1, <1>2
<1>4. StatsInv'
  BY <1>2, <1>3, NoneGenerated DEF ManagerInv
<1>. QED BY <1>2, <1>3, <1>4, LaterTurnKeepsManager

\* An answer adds nothing generated to a conversation.
LEMMA ObserveGeneratesNone ==
  ASSUME IInv, NEW s \in Samples, NEW n \in ObsLengths, Observe(s, n)
  PROVE  \A o \in Samples : GeneratedBy(o)' = GeneratedBy(o)
<1>1. ids' = [ids EXCEPT ![s] = Extended(@, "obs", n)] /\ n \in Nat
  BY ConfigFacts DEF Observe
<1>2. /\ ids'[s] = Extended(ids[s], "obs", n)
      /\ \A o \in Samples \ {s} : ids'[o] = ids[o]
  BY <1>1 DEF IInv, DomainInv
<1>3. ids[s] \in Seq(Tokens)
  BY DEF IInv, SampleInv, Aligned
<1>4. {i \in DOMAIN ids'[s] : ids'[s][i] = "gen"} = {i \in DOMAIN ids[s] : ids[s][i] = "gen"}
  BY <1>1, <1>2, <1>3, ObservedAreNotGenerated
<1>5. ASSUME NEW o \in Samples PROVE GeneratedBy(o)' = GeneratedBy(o)
  <2>1. CASE o = s
    BY <1>4, <2>1 DEF GeneratedBy
  <2>2. CASE o # s
    BY <1>2, <2>2 DEF GeneratedBy
  <2>. QED BY <2>1, <2>2
<1>. QED BY <1>5

LEMMA GenerateReturnsKeepsManager ==
  ASSUME IInv, ManagerInv, NEW s \in Samples, GenerateReturns(s)
  PROVE  ManagerInv'
<1>1. PICK n \in 1..flight[s].max, c \in ToolCalls :
        /\ Record(s, n)
        /\ ids' = [ids EXCEPT ![s] = Extended(@, "gen", n)]
        /\ state' = [state EXCEPT ![s] = NextState(s, c)]
  BY Zenon DEF GenerateReturns
<1>2. state[s] = "GENERATING" /\ UNCHANGED <<batch, load, served>>
  BY DEF GenerateReturns
<1>3. n \in Nat
  BY <1>2 DEF IInv, SampleInv
<1>4. state[s] # "PENDING" /\ NextState(s, c) # "PENDING"
  BY <1>2 DEF NextState
<1>5. PICK v : v = HomeOf(Rid(s))
  OBVIOUS
<1>6. Homed(Rid(s)) /\ v \in Servers /\ served[s] = {v}
  BY <1>4, <1>5, HomeFacts DEF ManagerInv
<1>7. recorded' = [recorded EXCEPT ![v] = @ + n] /\ homes' = Touched(Rid(s))
  BY <1>1, <1>5, <1>6 DEF Record
<1>8. /\ ids[s] \in Seq(Tokens) /\ ids'[s] = Extended(ids[s], "gen", n)
      /\ \A o \in Samples \ {s} : ids'[o] = ids[o]
  BY <1>1 DEF IInv, DomainInv, SampleInv, Aligned
<1>9. StatsInv'
  BY <1>2, <1>3, <1>6, <1>7, <1>8, TurnIsCounted DEF ManagerInv
<1>. QED BY <1>1, <1>2, <1>4, <1>7, <1>9, LaterTurnKeepsManager

\* After a tool's answer or a user's, a sample is sent again or is over.
LEMMA AnswerKeepsManager ==
  ASSUME IInv, ManagerInv, NEW s \in Samples, ToolsReturn(s) \/ UserReplies(s)
  PROVE  ManagerInv'
<1>1. state[s] # "PENDING" /\ UNCHANGED batch
  BY DEF ToolsReturn, UserReplies
<1>2. ASSUME NEW n \in ObsLengths, Observe(s, n), Send(s, ids'[s], maxTokens)
      PROVE  ManagerInv'
  <2>1. \A o \in Samples : GeneratedBy(o)' = GeneratedBy(o)
    BY <1>2, ObserveGeneratesNone
  <2>. QED BY <1>1, <1>2, <2>1, SendAgainKeepsManager
<1>3. ASSUME state' = [state EXCEPT ![s] = "TERMINATED"], UNCHANGED managerVars,
             \A o \in Samples : GeneratedBy(o)' = GeneratedBy(o)
      PROVE  ManagerInv'
  <2>1. \A o \in Samples : state'[o] = "PENDING" <=> state[o] = "PENDING"
    BY <1>1, <1>3 DEF IInv, DomainInv
  <2>2. UNCHANGED <<load, homes, recorded, served>>
    BY <1>3 DEF managerVars
  <2>3. HomesInv' /\ LoadInv'
    BY <1>1, <2>1, <2>2, HomesUnchanged, LoadUnchanged DEF ManagerInv
  <2>4. StatsInv'
    BY <1>3, <2>2, NoneGenerated DEF ManagerInv
  <2>. QED BY <2>3, <2>4 DEF ManagerInv
<1>4. CASE ToolsReturn(s)
  <2>1. CASE /\ state' = [state EXCEPT ![s] = "TERMINATED"]
             /\ UNCHANGED <<ids, managerVars>>
    <3>1. \A o \in Samples : GeneratedBy(o)' = GeneratedBy(o)
      BY <2>1 DEF GeneratedBy
    <3>. QED BY <1>3, <2>1, <3>1
  <2>. QED BY <1>2, <1>4, <2>1 DEF ToolsReturn
<1>5. CASE UserReplies(s)
  <2>1. PICK n \in ObsLengths : Observe(s, n)
    BY <1>5 DEF UserReplies
  <2>2. CASE Send(s, ids'[s], maxTokens)
    BY <1>2, <2>1, <2>2
  <2>3. CASE state' = [state EXCEPT ![s] = "TERMINATED"] /\ UNCHANGED managerVars
    <3>1. \A o \in Samples : GeneratedBy(o)' = GeneratedBy(o)
      BY <2>1, ObserveGeneratesNone
    <3>. QED BY <1>3, <2>3, <3>1
  <2>. QED BY <1>5, <2>2, <2>3 DEF UserReplies
<1>. QED BY <1>4, <1>5

LEMMA NextBatchKeepsManager ==
  ASSUME ManagerInv, NextBatch
  PROVE  ManagerInv'
<1>1. /\ recorded' = [v \in Servers |-> 0] /\ load' = load
      /\ served' = [s \in Samples |-> {}]
  BY DEF NextBatch, RecordedAfterPop
<1>2. HomesInv'
  BY NextBatchKeepsHomes DEF ManagerInv
<1>3. LoadInv'
  <2>1. ASSUME NEW v PROVE Share(v)' = 0
    <3>1. {s \in Samples : v \in served'[s]} = {}
      BY <1>1
    <3>. QED BY <3>1, FS_EmptySet DEF Share
  <2>2. PICK m, p : Stairs(load, m, p)
    BY DEF ManagerInv, LoadInv
  <2>3. /\ load' \in [Servers -> Nat] /\ DOMAIN served' = Samples
        /\ \A v \in Servers : LoadBefore'[v] = load'[v]
    BY <1>1, <2>1 DEF ManagerInv, LoadInv, LoadBefore
  <2>4. Stairs(load', m, p) /\ Stairs(LoadBefore', m, p)
    BY <1>1, <2>2, <2>3, ServerFacts DEF Stairs
  <2>5. Stairs(LoadBefore, m, p)'
    BY <2>4 DEF Stairs
  <2>. QED BY <2>3, <2>4, <2>5 DEF LoadInv, Stairs
<1>4. StatsInv'
  <2>1. ASSUME NEW v \in Servers PROVE GeneratedAt(v)' = {}
    BY <1>1 DEF GeneratedAt
  <2>. QED BY <1>1, <2>1, FS_EmptySet DEF StatsInv
<1>. QED BY <1>2, <1>3, <1>4 DEF ManagerInv

LEMMA StepKeepsManager ==
  ASSUME IInv, ManagerInv, Cardinality(Samples) <= CacheSize, [Next]_vars
  PROVE  ManagerInv'
<1>1. CASE NextBatch
  BY <1>1, NextBatchKeepsManager
<1>2. ASSUME NEW s \in Samples, Begin(s) \/ GenerateReturns(s) PROVE ManagerInv'
  BY <1>2, BeginKeepsManager, GenerateReturnsKeepsManager
<1>3. ASSUME NEW s \in Samples, ToolsReturn(s) \/ UserReplies(s) PROVE ManagerInv'
  BY <1>3, AnswerKeepsManager
<1>4. ASSUME NEW s \in Samples, GenerateRaises(s) PROVE ManagerInv'
  BY <1>4, ManagerUnchanged DEF GenerateRaises, sampleVars
<1>5. ASSUME NEW s \in Samples, NEW k \in DOMAIN calls[s],
             \/ CallRefused(s, k) \/ ToolCreated(s, k)
             \/ ToolExecuted(s, k) \/ ToolReleased(s, k)
      PROVE  ManagerInv'
  BY <1>5, ManagerUnchanged DEF CallRefused, ToolCreated, ToolExecuted, ToolReleased, CallMoves
<1>6. ASSUME NEW s \in Samples, AskScore(s) \/ TakeScore(s) PROVE ManagerInv'
  <2>1. /\ state[s] \in {"TERMINATED", "SCORING"}
        /\ \E to \in {"SCORING", "DONE"} : state' = [state EXCEPT ![s] = to]
        /\ UNCHANGED <<batch, ids, managerVars>>
    BY <1>6 DEF AskScore, TakeScore, ScoreAsked, ScoreSet
  <2>2. \A o \in Samples : state'[o] = "PENDING" <=> state[o] = "PENDING"
    BY <2>1 DEF IInv, DomainInv
  <2>. QED BY <2>1, <2>2, ManagerUnchanged
<1>7. CASE UNCHANGED agentVars
  BY <1>7, ManagerUnchanged DEF agentVars, sampleVars
<1>. QED
  BY <1>1, <1>2, <1>3, <1>4, <1>5, <1>6, <1>7 DEF Next, AgentNext, vars

\* What holds of the manager while its cache holds a batch.
LEMMA ManagerIsRight ==
  ASSUME Cardinality(Samples) <= CacheSize
  PROVE  Spec => []ManagerInv
<1>1. IInv /\ ManagerInv /\ [Next]_vars => ManagerInv'
  BY StepKeepsManager
<1>. QED BY <1>1, InitIsManagerInv, Inductive, PTL DEF Spec

\* All turns of a sample go to the server of its first one, however many batches the
\* cache of request ids has seen (AsyncLLMServerManager._choose_server).
THEOREM SessionsStay == Spec => []SessionsAreSticky
<1>1. CASE Cardinality(Samples) <= CacheSize
  <2>1. ManagerInv => SessionsAreSticky
    <3>. SUFFICES ASSUME ManagerInv, NEW s \in Samples PROVE Cardinality(served[s]) <= 1
      BY DEF SessionsAreSticky
    <3>1. served[s] = {} \/ \E v : served[s] = {v}
      BY DEF ManagerInv, HomesInv
    <3>2. ASSUME served[s] = {} PROVE Cardinality(served[s]) <= 1
      BY <3>2, FS_EmptySet
    <3>3. ASSUME NEW v, served[s] = {v} PROVE Cardinality(served[s]) <= 1
      <4>1. Cardinality({v}) = 1
        BY FS_Singleton
      <4>. QED BY <3>3, <4>1
    <3>. QED BY <3>1, <3>2, <3>3
  <2>. QED BY <1>1, <2>1, ManagerIsRight, PTL
<1>2. CASE ~(Cardinality(Samples) <= CacheSize)
  <2>1. SessionsAreSticky
    BY <1>2 DEF SessionsAreSticky
  <2>. QED BY <2>1, PTL
<1>. QED BY <1>1, <1>2

\* The servers' shares of every batch differ by one sample at most, although counts are
\* never taken back (AsyncLLMServerManager._choose_server).
THEOREM SharesAreEven == Spec => []LoadIsSpread
<1>1. CASE Cardinality(Samples) <= CacheSize
  <2>1. ManagerInv => LoadIsSpread
    <3>. SUFFICES ASSUME ManagerInv, NEW v \in Servers, NEW w \in Servers
                  PROVE  Share(v) <= Share(w) + 1
      BY DEF LoadIsSpread, Share
    <3>1. PICK m, p : Stairs(load, m, p)
      BY DEF ManagerInv, LoadInv
    <3>2. PICK n, q : Stairs(LoadBefore, n, q)
      BY DEF ManagerInv, LoadInv
    <3>3. PICK i \in 1..Len(ServerOrder), j \in 1..Len(ServerOrder) :
            v = ServerOrder[i] /\ w = ServerOrder[j]
      BY ServerFacts
    <3>4. \A x \in Servers : /\ load[x] \in Nat /\ Share(x) \in Nat
                             /\ LoadBefore[x] = load[x] - Share(x)
      BY ShareFacts DEF ManagerInv, LoadInv, LoadBefore
    <3>5. /\ load[v] = IF i <= p THEN m + 1 ELSE m
          /\ load[w] = IF j <= p THEN m + 1 ELSE m
          /\ LoadBefore[v] = IF i <= q THEN n + 1 ELSE n
          /\ LoadBefore[w] = IF j <= q THEN n + 1 ELSE n
          /\ m \in Int /\ p \in Int /\ n \in Int /\ q \in Int
      BY <3>1, <3>2, <3>3 DEF Stairs
    <3>6. /\ i \in Int /\ j \in Int /\ load[v] \in Nat /\ load[w] \in Nat
          /\ Share(v) = load[v] - LoadBefore[v] /\ Share(w) = load[w] - LoadBefore[w]
      <4>1. ASSUME NEW x \in Servers
            PROVE  load[x] \in Nat /\ Share(x) = load[x] - LoadBefore[x]
        <5>. DEFINE l == load[x]
                    h == Share(x)
        <5>1. l \in Nat /\ h \in Nat /\ LoadBefore[x] = l - h
          BY <3>4
        <5>. HIDE DEF l, h
        <5>2. h = l - LoadBefore[x]
          BY <5>1
        <5>. QED BY <5>1, <5>2 DEF l, h
      <4>2. i \in Int /\ j \in Int
        BY <3>3
      <4>. QED BY <4>1, <4>2
    <3>. DEFINE lv == load[v]
                lw == load[w]
                bv == LoadBefore[v]
                bw == LoadBefore[w]
    <3>. HIDE DEF lv, lw, bv, bw
    <3>7. /\ lv = (IF i <= p THEN m + 1 ELSE m) /\ lw = (IF j <= p THEN m + 1 ELSE m)
          /\ bv = (IF i <= q THEN n + 1 ELSE n) /\ bw = (IF j <= q THEN n + 1 ELSE n)
      BY <3>5 DEF lv, lw, bv, bw
    <3>8. lv - bv <= lw - bw + 1
      BY <3>5, <3>6, <3>7
    <3>. QED BY <3>6, <3>8 DEF lv, lw, bv, bw
  <2>. QED BY <1>1, <2>1, ManagerIsRight, PTL
<1>2. CASE ~(Cardinality(Samples) <= CacheSize)
  <2>1. LoadIsSpread
    BY <1>2 DEF LoadIsSpread
  <2>. QED BY <2>1, PTL
<1>. QED BY <1>1, <1>2

\* What pop_per_gpu_stats returns is what each server has generated in this batch.
THEOREM StatsAreRight == Spec => []StatsAreOfThisBatch
<1>1. CASE Cardinality(Samples) <= CacheSize
  <2>1. ManagerInv => StatsAreOfThisBatch
    BY DEF ManagerInv, StatsInv, StatsAreOfThisBatch, GeneratedAt, GeneratedBy
  <2>. QED BY <1>1, <2>1, ManagerIsRight, PTL
<1>2. CASE ~(Cardinality(Samples) <= CacheSize)
  <2>1. StatsAreOfThisBatch
    BY <1>2 DEF StatsAreOfThisBatch
  <2>. QED BY <2>1, PTL
<1>. QED BY <1>1, <1>2
=============================================================================
