---------------------------- MODULE SDStats_proofs ----------------------------
(***************************************************************************)
(* Proofs about SDStats: for every ladder, any number of requests, of      *)
(* steps and of rollouts, every size of a slice, and whether or not five   *)
(* seconds may pass with outputs in the queue.                             *)
(***************************************************************************)
EXTENDS SDStats, SequenceTheorems, TLAPS

-------------------------------------------------------------------------------
(* Messages, and the outputs on their way to output_handler.               *)

Messages == Outputs \cup {UtilityReply}

InMessages == {Request, WakeUp} \cup {ForceSetGamma(g) : g \in Gammas}

\* outputs_queue and the socket behind it.
Pending == queue \o wire

\* What a message brings; a reply brings nothing.
Finished(m) == IF IsReply(m) THEN 0 ELSE m.finished

Drafts(m) == IF IsReply(m) THEN {} ELSE m.drafted

Brings(p, id) == \E i \in 1..Len(p) : id \in Drafts(p[i])

LEMMA OutputFacts ==
  ASSUME NEW o \in Outputs
  PROVE  /\ ~IsReply(o) /\ o # NotHandling /\ o \in Messages
         /\ o.outputs \in 0..MaxRequests /\ o.finished \in 0..MaxRequests
         /\ o.drafted \in SUBSET StepIds /\ o.gamma \in Gammas /\ o.toggled \in BOOLEAN
         /\ Finished(o) = o.finished /\ Drafts(o) = o.drafted
  BY DEF Outputs, IsReply, UtilityReply, NotHandling, Messages, Finished, Drafts

LEMMA MessageFacts ==
  /\ IsReply(UtilityReply) /\ UtilityReply \in Messages
  /\ \A m \in Messages : ~IsReply(m) => m \in Outputs
  /\ \A m \in Messages : IsReply(m) => Finished(m) = 0 /\ Drafts(m) = {}
  BY DEF Messages, IsReply, Finished, Drafts

LEMMA GammaFacts ==
  /\ Ladder[1] \in Gammas
  /\ \A g \in Gammas : g # -1
  BY LadderAssumption DEF Gammas, Rungs

LEMMA PendingFacts ==
  ASSUME queue \in Seq(Outputs), wire \in Seq(Messages)
  PROVE  /\ Pending \in Seq(Messages)
         /\ Len(Pending) = Len(queue) + Len(wire)
<1>1. queue \in Seq(Messages)
  BY SeqMonotonic DEF Messages
<1>. QED
  BY <1>1, ConcatProperties DEF Pending

\* A message put on the socket comes last.
LEMMA PendingAppend ==
  ASSUME queue \in Seq(Outputs), wire \in Seq(Messages), NEW m \in Messages,
         queue' = queue, wire' = Append(wire, m)
  PROVE  Pending' = Append(Pending, m)
<1>1. queue \in Seq(Messages)
  BY SeqMonotonic DEF Messages
<1>2. <<m>> \in Seq(Messages)
  OBVIOUS
<1>3. queue \o Append(wire, m) = queue \o (wire \o <<m>>)
  BY AppendIsConcat
<1>4. queue \o (wire \o <<m>>) = (queue \o wire) \o <<m>>
  BY <1>1, <1>2, ConcatAssociative
<1>5. Append(queue \o wire, m) = (queue \o wire) \o <<m>>
  BY <1>1, ConcatProperties, AppendIsConcat
<1>. QED
  BY <1>3, <1>4, <1>5 DEF Pending

\* output_handler takes the first one.
LEMMA PendingHandled ==
  ASSUME queue \in Seq(Outputs), wire \in Seq(Messages), queue # <<>>,
         queue' = Tail(queue), wire' = wire
  PROVE  /\ Pending # <<>> /\ Head(Pending) = Head(queue) /\ Head(queue) \in Outputs
         /\ Pending' = Tail(Pending) /\ queue' \in Seq(Outputs)
<1>1. queue \in Seq(Messages) /\ Tail(queue) \in Seq(Outputs) /\ Head(queue) \in Outputs
  BY SeqMonotonic, HeadTailProperties DEF Messages
<1>2. Tail(queue) \in Seq(Messages)
  BY <1>1, SeqMonotonic DEF Messages
<1>3. Len(queue) \in Nat \ {0}
  BY EmptySeq
<1>4. /\ Pending \in Seq(Messages) /\ Len(Pending) = Len(queue) + Len(wire)
      /\ \A i \in 1..Len(queue) + Len(wire) :
           Pending[i] = IF i <= Len(queue) THEN queue[i] ELSE wire[i - Len(queue)]
  BY <1>1, ConcatProperties DEF Pending
<1>5. /\ Len(Tail(queue)) = Len(queue) - 1
      /\ \A i \in 1..Len(Tail(queue)) : Tail(queue)[i] = queue[i + 1]
  BY HeadTailProperties
<1>6. Len(wire) \in Nat
  BY LenProperties
<1>7. Len(Pending) > 0 /\ Pending # <<>>
  BY <1>3, <1>4, <1>6
<1>8. /\ Tail(Pending) \in Seq(Messages) /\ Len(Tail(Pending)) = Len(Pending) - 1
      /\ \A i \in 1..Len(Tail(Pending)) : Tail(Pending)[i] = Pending[i + 1]
  BY <1>4, <1>7, HeadTailProperties
<1>9. /\ Tail(queue) \o wire \in Seq(Messages)
      /\ Len(Tail(queue) \o wire) = Len(queue) - 1 + Len(wire)
      /\ \A i \in 1..Len(queue) - 1 + Len(wire) :
           (Tail(queue) \o wire)[i] =
             IF i <= Len(queue) - 1 THEN Tail(queue)[i] ELSE wire[i - (Len(queue) - 1)]
  BY <1>2, <1>5, ConcatProperties
<1>10. ASSUME NEW i \in 1..Len(Tail(Pending))
       PROVE  (Tail(queue) \o wire)[i] = Tail(Pending)[i]
  <2>1. i + 1 \in 1..Len(queue) + Len(wire) /\ i \in 1..Len(queue) - 1 + Len(wire)
    BY <1>3, <1>4, <1>6, <1>8
  <2>2. CASE i <= Len(queue) - 1
    BY <2>1, <2>2, <1>3, <1>4, <1>5, <1>8, <1>9
  <2>3. CASE i > Len(queue) - 1
    BY <2>1, <2>3, <1>3, <1>4, <1>6, <1>8, <1>9
  <2>. QED
    BY <2>1, <2>2, <2>3, <1>3
<1>11. Tail(queue) \o wire = Tail(Pending)
  BY <1>4, <1>8, <1>9, <1>10, SeqEqual
<1>12. Head(Pending) = Head(queue)
  BY <1>3, <1>4, <1>6, <1>7, 1 \in 1..Len(queue) + Len(wire)
<1>. QED
  BY <1>1, <1>7, <1>11, <1>12 DEF Pending

\* process_outputs_socket moves one from the socket to the queue.
LEMMA PendingMoved ==
  ASSUME queue \in Seq(Outputs), wire \in Seq(Messages), wire # <<>>,
         ~IsReply(Head(wire)), queue' = Append(queue, Head(wire)), wire' = Tail(wire)
  PROVE  Pending' = Pending /\ queue' \in Seq(Outputs) /\ wire' \in Seq(Messages)
<1>1. Head(wire) \in Outputs /\ Tail(wire) \in Seq(Messages) /\ Head(wire) \in Messages
  BY HeadTailProperties, MessageFacts DEF Messages
<1>2. queue \in Seq(Messages) /\ Append(queue, Head(wire)) \in Seq(Outputs)
  BY <1>1, SeqMonotonic, AppendProperties DEF Messages
<1>3. wire = <<Head(wire)>> \o Tail(wire)
  OBVIOUS
<1>4. <<Head(wire)>> \in Seq(Messages)
  BY <1>1
<1>5. Append(queue, Head(wire)) = queue \o <<Head(wire)>>
  BY <1>1, <1>2, AppendIsConcat
<1>6. (queue \o <<Head(wire)>>) \o Tail(wire) = queue \o (<<Head(wire)>> \o Tail(wire))
  BY <1>1, <1>2, <1>4, ConcatAssociative
<1>. QED
  BY <1>1, <1>2, <1>3, <1>5, <1>6 DEF Pending

\* A reply is taken from the socket when the queue is empty.
LEMMA PendingReply ==
  ASSUME wire \in Seq(Messages), wire # <<>>, queue = <<>>,
         queue' = queue, wire' = Tail(wire)
  PROVE  /\ Pending # <<>> /\ Head(Pending) = Head(wire) /\ Pending' = Tail(Pending)
         /\ wire' \in Seq(Messages)
<1>1. Pending = wire
  BY ConcatEmptySeq DEF Pending
<1>2. wire' \in Seq(Messages)
  BY HeadTailProperties
<1>3. Pending' = wire'
  BY <1>2, ConcatEmptySeq DEF Pending
<1>. QED
  BY <1>1, <1>2, <1>3

\* The drafts that pending messages bring.
LEMMA BringsAppend ==
  ASSUME NEW p \in Seq(Messages), NEW m \in Messages, NEW id
  PROVE  Brings(Append(p, m), id) <=> Brings(p, id) \/ id \in Drafts(m)
<1>1. /\ Len(Append(p, m)) = Len(p) + 1 /\ Len(p) \in Nat
      /\ \A i \in 1..Len(p) : Append(p, m)[i] = p[i]
      /\ Append(p, m)[Len(p) + 1] = m
  BY AppendProperties, LenProperties
<1>2. \A i \in 1..(Len(p) + 1) : i \in 1..Len(p) \/ i = Len(p) + 1
  BY <1>1
<1>3. \A i \in 1..Len(p) : i \in 1..(Len(p) + 1)
  BY <1>1
<1>4. Len(p) + 1 \in 1..(Len(p) + 1)
  BY <1>1
<1>. QED
  BY <1>1, <1>2, <1>3, <1>4 DEF Brings

LEMMA BringsTail ==
  ASSUME NEW p \in Seq(Messages), p # <<>>, NEW id
  PROVE  Brings(p, id) <=> id \in Drafts(Head(p)) \/ Brings(Tail(p), id)
<1>1. /\ Len(Tail(p)) = Len(p) - 1 /\ Len(p) \in Nat \ {0}
      /\ \A i \in 1..Len(Tail(p)) : Tail(p)[i] = p[i + 1]
      /\ Head(p) = p[1]
  BY HeadTailProperties, EmptySeq
<1>2. \A i \in 1..Len(p) : i = 1 \/ (i - 1 \in 1..Len(Tail(p)) /\ (i - 1) + 1 = i)
  BY <1>1
<1>3. \A i \in 1..Len(Tail(p)) : i + 1 \in 1..Len(p)
  BY <1>1
<1>4. 1 \in 1..Len(p)
  BY <1>1
<1>5. ASSUME NEW i \in 1..Len(p), id \in Drafts(p[i]), i # 1
      PROVE  Brings(Tail(p), id)
  BY <1>5, <1>1, <1>2 DEF Brings
<1>. QED
  BY <1>1, <1>3, <1>4, <1>5 DEF Brings

-------------------------------------------------------------------------------
(* The ledger: how many requests are unanswered before each message.       *)

\* u[i]: the requests that are sent and not answered when the answers of the messages
\* before the i-th have been given.
Counted(u, p) ==
  /\ \A i \in 1..Len(p) : u[i + 1] + Finished(p[i]) = u[i]
  /\ \A i, j \in 1..(Len(p) + 1) : i <= j => u[j] <= u[i]
  /\ \A i \in 1..Len(p) : ~IsReply(p[i]) => p[i].outputs <= u[i]

Ledger(p, first, last) ==
  \E u \in [1..(Len(p) + 1) -> 0..MaxRequests] :
    u[1] = first /\ u[Len(p) + 1] = last /\ Counted(u, p)

LEMMA FinishedFacts ==
  ASSUME NEW m \in Messages
  PROVE  Finished(m) \in 0..MaxRequests
  BY OutputFacts, MessageFacts, BoundsAssumption

LEMMA LedgerBounds ==
  ASSUME NEW p \in Seq(Messages), NEW first, NEW last, Ledger(p, first, last)
  PROVE  /\ first \in 0..MaxRequests /\ last \in 0..MaxRequests /\ last <= first
         /\ \A i \in 1..Len(p) : ~IsReply(p[i]) => p[i].outputs <= first
<1>1. PICK u \in [1..(Len(p) + 1) -> 0..MaxRequests] :
        u[1] = first /\ u[Len(p) + 1] = last /\ Counted(u, p)
  BY DEF Ledger
<1>2. /\ Len(p) \in Nat /\ 1 \in 1..(Len(p) + 1) /\ Len(p) + 1 \in 1..(Len(p) + 1)
      /\ 1 <= Len(p) + 1
  BY LenProperties
<1>3. u[1] \in 0..MaxRequests /\ u[Len(p) + 1] \in 0..MaxRequests
  BY <1>1, <1>2
<1>4. u[Len(p) + 1] <= u[1]
  BY <1>1, <1>2 DEF Counted
<1>5. ASSUME NEW i \in 1..Len(p), ~IsReply(p[i])
      PROVE  p[i].outputs <= first
  <2>1. p[i] \in Outputs
    BY <1>5, LenProperties, MessageFacts
  <2>2. i \in 1..(Len(p) + 1) /\ 1 <= i
    BY <1>2
  <2>3. u[i] <= u[1] /\ p[i].outputs <= u[i] /\ u[i] \in 0..MaxRequests
    BY <1>1, <1>2, <1>5, <2>2 DEF Counted
  <2>. QED
    BY <1>1, <1>3, <2>1, <2>3, OutputFacts, BoundsAssumption
<1>. QED
  BY <1>1, <1>3, <1>4, <1>5

\* Nothing pending, nothing unanswered.
LEMMA LedgerEmpty ==
  ASSUME NEW p \in Seq(Messages), p = <<>>
  PROVE  Ledger(p, 0, 0)
<1>. DEFINE u == [i \in 1..(Len(p) + 1) |-> 0]
<1>1. Len(p) = 0
  OBVIOUS
<1>2. u \in [1..(Len(p) + 1) -> 0..MaxRequests] /\ u[1] = 0 /\ u[Len(p) + 1] = 0
  BY <1>1, BoundsAssumption
<1>3. Counted(u, p)
  BY <1>1 DEF Counted
<1>. QED
  BY <1>2, <1>3 DEF Ledger

\* The engine puts a message on the socket.
LEMMA LedgerAppend ==
  ASSUME NEW p \in Seq(Messages), NEW first, NEW last, Ledger(p, first, last),
         NEW m \in Messages, Finished(m) <= last,
         ~IsReply(m) => m.outputs <= last
  PROVE  Ledger(Append(p, m), first, last - Finished(m))
<1>. DEFINE q == Append(p, m)
<1>1. PICK u \in [1..(Len(p) + 1) -> 0..MaxRequests] :
        u[1] = first /\ u[Len(p) + 1] = last /\ Counted(u, p)
  BY DEF Ledger
<1>. DEFINE n == Len(p)
            v == [i \in 1..(n + 2) |-> IF i = n + 2 THEN last - Finished(m) ELSE u[i]]
<1>2. /\ n \in Nat /\ Len(q) = n + 1
      /\ \A i \in 1..n : q[i] = p[i]
      /\ q[n + 1] = m
  BY AppendProperties, LenProperties
<1>3. last \in 0..MaxRequests /\ Finished(m) \in 0..MaxRequests
  BY LedgerBounds, FinishedFacts
<1>4. last - Finished(m) \in 0..MaxRequests /\ last - Finished(m) <= last
  BY <1>3, BoundsAssumption
<1>5. \A i \in 1..(n + 1) : v[i] = u[i] /\ u[i] \in 0..MaxRequests
  BY <1>2
<1>6. v[n + 2] = last - Finished(m)
  BY <1>2
<1>7. v \in [1..(n + 2) -> 0..MaxRequests]
  BY <1>2, <1>4, <1>5
<1>. HIDE DEF v
<1>8. v[1] = first
  BY <1>1, <1>2, <1>5
<1>9. ASSUME NEW i \in 1..(n + 1)
      PROVE  v[i + 1] + Finished(q[i]) = v[i]
  <2>1. CASE i = n + 1
    <3>1. v[i + 1] = last - Finished(m) /\ v[i] = last /\ q[i] = m
      BY <2>1, <1>1, <1>2, <1>5, <1>6
    <3>. QED
      BY <3>1, <1>3
  <2>2. CASE i # n + 1
    <3>1. i \in 1..n /\ i + 1 \in 1..(n + 1)
      BY <2>2, <1>2
    <3>2. u[i + 1] + Finished(p[i]) = u[i]
      BY <3>1, <1>1 DEF Counted
    <3>. QED
      BY <3>1, <3>2, <1>2, <1>5
  <2>. QED
    BY <2>1, <2>2
<1>10. ASSUME NEW i \in 1..(n + 2), NEW j \in 1..(n + 2), i <= j
       PROVE  v[j] <= v[i]
  <2>1. CASE j # n + 2
    <3>1. i \in 1..(n + 1) /\ j \in 1..(n + 1)
      BY <2>1, <1>2, <1>10
    <3>. QED
      BY <3>1, <1>1, <1>5, <1>10 DEF Counted
  <2>2. CASE j = n + 2 /\ i # n + 2
    <3>1. i \in 1..(n + 1) /\ n + 1 \in 1..(n + 1) /\ i <= n + 1
      BY <2>2, <1>2
    <3>2. last <= u[i]
      BY <3>1, <1>1 DEF Counted
    <3>3. v[i] = u[i] /\ u[i] \in 0..MaxRequests /\ v[j] = last - Finished(m)
      BY <3>1, <2>2, <1>5, <1>6
    <3>. QED
      BY <3>2, <3>3, <1>3, <1>4, BoundsAssumption
  <2>3. CASE j = n + 2 /\ i = n + 2
    BY <2>3, <1>4, <1>6, BoundsAssumption
  <2>. QED
    BY <2>1, <2>2, <2>3
<1>11. ASSUME NEW i \in 1..(n + 1), ~IsReply(q[i])
       PROVE  q[i].outputs <= v[i]
  <2>1. CASE i = n + 1
    BY <2>1, <1>1, <1>2, <1>5, <1>11
  <2>2. CASE i # n + 1
    <3>1. i \in 1..n
      BY <2>2, <1>2
    <3>. QED
      BY <3>1, <1>1, <1>2, <1>5, <1>11 DEF Counted
  <2>. QED
    BY <2>1, <2>2
<1>12. Len(q) + 1 = n + 2
  BY <1>2
<1>13. Counted(v, q)
  BY <1>2, <1>9, <1>10, <1>11, <1>12 DEF Counted
<1>. QED
  BY <1>6, <1>7, <1>8, <1>12, <1>13 DEF Ledger

\* output_handler takes the first message.
LEMMA LedgerTail ==
  ASSUME NEW p \in Seq(Messages), NEW first, NEW last, Ledger(p, first, last), p # <<>>
  PROVE  /\ Ledger(Tail(p), first - Finished(Head(p)), last)
         /\ Finished(Head(p)) <= first
         /\ ~IsReply(Head(p)) => Head(p).outputs <= first
<1>. DEFINE q == Tail(p)
            n == Len(p)
<1>1. PICK u \in [1..(n + 1) -> 0..MaxRequests] :
        u[1] = first /\ u[n + 1] = last /\ Counted(u, p)
  BY DEF Ledger
<1>. DEFINE v == [i \in 1..n |-> u[i + 1]]
<1>2. /\ n \in Nat \ {0} /\ Len(q) = n - 1 /\ Head(p) = p[1] /\ Head(p) \in Messages
      /\ \A i \in 1..(n - 1) : q[i] = p[i + 1]
  BY HeadTailProperties, EmptySeq
<1>3. first \in 0..MaxRequests /\ Finished(Head(p)) \in 0..MaxRequests
  BY <1>2, LedgerBounds, FinishedFacts
<1>4. \A i \in 1..n : v[i] = u[i + 1] /\ v[i] \in 0..MaxRequests
  BY <1>2
<1>5. v \in [1..n -> 0..MaxRequests]
  BY <1>4
<1>. HIDE DEF v
<1>6. 1 \in 1..n /\ n \in 1..n
  BY <1>2
<1>7. u[2] + Finished(p[1]) = u[1]
  BY <1>1, <1>6 DEF Counted
<1>8. v[1] = u[2] /\ v[n] = u[n + 1] /\ v[1] \in 0..MaxRequests
  BY <1>4, <1>6
<1>9. v[1] = first - Finished(Head(p)) /\ v[n] = last /\ Finished(Head(p)) <= first
  BY <1>1, <1>2, <1>3, <1>7, <1>8, BoundsAssumption
<1>10. ~IsReply(Head(p)) => Head(p).outputs <= first
  BY <1>1, <1>2, <1>6 DEF Counted
<1>11. ASSUME NEW i \in 1..(n - 1)
       PROVE  /\ v[i + 1] + Finished(q[i]) = v[i]
              /\ ~IsReply(q[i]) => q[i].outputs <= v[i]
  <2>1. i + 1 \in 1..n /\ i \in 1..n
    BY <1>2
  <2>2. /\ u[(i + 1) + 1] + Finished(p[i + 1]) = u[i + 1]
        /\ ~IsReply(p[i + 1]) => p[i + 1].outputs <= u[i + 1]
    BY <2>1, <1>1 DEF Counted
  <2>. QED
    BY <2>1, <2>2, <1>2, <1>4
<1>12. ASSUME NEW i \in 1..n, NEW j \in 1..n, i <= j
       PROVE  v[j] <= v[i]
  <2>1. i + 1 \in 1..(n + 1) /\ j + 1 \in 1..(n + 1) /\ i + 1 <= j + 1
    BY <1>2, <1>12
  <2>. QED
    BY <2>1, <1>1, <1>4 DEF Counted
<1>13. Len(q) + 1 = n
  BY <1>2
<1>14. Counted(v, q)
  BY <1>2, <1>11, <1>12, <1>13 DEF Counted
<1>. QED
  BY <1>5, <1>9, <1>10, <1>13, <1>14 DEF Ledger

\* An agent loop sends a request.
LEMMA LedgerSent ==
  ASSUME NEW p \in Seq(Messages), NEW first, NEW last, Ledger(p, first, last),
         first < MaxRequests
  PROVE  Ledger(p, first + 1, last + 1)
<1>. DEFINE n == Len(p)
<1>1. PICK u \in [1..(n + 1) -> 0..MaxRequests] :
        u[1] = first /\ u[n + 1] = last /\ Counted(u, p)
  BY DEF Ledger
<1>. DEFINE v == [i \in 1..(n + 1) |-> u[i] + 1]
<1>2. n \in Nat /\ 1 \in 1..(n + 1) /\ n + 1 \in 1..(n + 1)
  BY LenProperties
<1>3. \A i \in 1..(n + 1) : u[i] \in 0..MaxRequests /\ u[i] <= first
  BY <1>1, <1>2 DEF Counted
<1>4. first \in 0..MaxRequests
  BY LedgerBounds
<1>5. \A i \in 1..(n + 1) : v[i] = u[i] + 1 /\ v[i] \in 0..MaxRequests
  BY <1>3, <1>4, BoundsAssumption
<1>6. v \in [1..(n + 1) -> 0..MaxRequests]
  BY <1>5
<1>. HIDE DEF v
<1>7. ASSUME NEW i \in 1..n
      PROVE  /\ v[i + 1] + Finished(p[i]) = v[i]
             /\ ~IsReply(p[i]) => p[i].outputs <= v[i]
  <2>1. i \in 1..(n + 1) /\ i + 1 \in 1..(n + 1)
    BY <1>2
  <2>2. p[i] \in Messages
    BY LenProperties
  <2>3. /\ u[i + 1] + Finished(p[i]) = u[i]
        /\ ~IsReply(p[i]) => p[i].outputs <= u[i]
    BY <1>1 DEF Counted
  <2>4. Finished(p[i]) \in 0..MaxRequests
    BY <2>2, FinishedFacts
  <2>5. ~IsReply(p[i]) => p[i].outputs \in 0..MaxRequests
    BY <2>2, OutputFacts, MessageFacts
  <2>. QED
    BY <2>1, <2>3, <2>4, <2>5, <1>3, <1>5, BoundsAssumption
<1>8. ASSUME NEW i \in 1..(n + 1), NEW j \in 1..(n + 1), i <= j
      PROVE  v[j] <= v[i]
  <2>1. u[j] <= u[i]
    BY <1>1, <1>8 DEF Counted
  <2>. QED
    BY <2>1, <1>3, <1>5
<1>9. Counted(v, p)
  BY <1>7, <1>8 DEF Counted
<1>. QED
  BY <1>1, <1>2, <1>5, <1>6, <1>9 DEF Ledger

-------------------------------------------------------------------------------
(* Replies among the outputs, and the gamma the outputs carry.             *)

NoReply(p) == \A i \in 1..Len(p) : ~IsReply(p[i])

OneReply(p) == \A i, j \in 1..Len(p) : IsReply(p[i]) /\ IsReply(p[j]) => i = j

\* Only a step of requests verifies drafts.
DraftsOfRequests(p) ==
  \A i \in 1..Len(p) : ~IsReply(p[i]) /\ p[i].drafted # {} => p[i].outputs > 0

AllOfGamma(p, g) == \A i \in 1..Len(p) : ~IsReply(p[i]) => p[i].gamma = g

\* The outputs behind the reply to force_set_gamma.
OfGammaSinceReply(p, g) ==
  \A i \in 1..Len(p) :
    ~IsReply(p[i]) => \/ p[i].gamma = g
                      \/ \E j \in (i + 1)..Len(p) : IsReply(p[j])

LEMMA AppendOutput ==
  ASSUME NEW p \in Seq(Messages), NEW o \in Outputs, NEW g
  PROVE  /\ NoReply(p) => NoReply(Append(p, o))
         /\ OneReply(p) => OneReply(Append(p, o))
         /\ DraftsOfRequests(p) /\ (o.drafted # {} => o.outputs > 0)
              => DraftsOfRequests(Append(p, o))
         /\ AllOfGamma(p, g) /\ o.gamma = g => AllOfGamma(Append(p, o), g)
         /\ OfGammaSinceReply(p, g) /\ o.gamma = g => OfGammaSinceReply(Append(p, o), g)
<1>. DEFINE n == Len(p)
            q == Append(p, o)
<1>1. /\ n \in Nat /\ Len(q) = n + 1 /\ q[n + 1] = o /\ ~IsReply(o)
      /\ \A i \in 1..n : q[i] = p[i]
  BY OutputFacts, AppendProperties, LenProperties
<1>2. \A i \in 1..(n + 1) : i \in 1..n \/ i = n + 1
  BY <1>1
<1>. HIDE DEF n, q
<1>3. NoReply(p) => NoReply(q)
  BY <1>1, <1>2 DEF NoReply, n
<1>4. OneReply(p) => OneReply(q)
  BY <1>1, <1>2 DEF OneReply, n
<1>5. DraftsOfRequests(p) /\ (o.drafted # {} => o.outputs > 0) => DraftsOfRequests(q)
  BY <1>1, <1>2 DEF DraftsOfRequests, n
<1>6. AllOfGamma(p, g) /\ o.gamma = g => AllOfGamma(q, g)
  BY <1>1, <1>2 DEF AllOfGamma, n
<1>7. ASSUME OfGammaSinceReply(p, g), o.gamma = g
      PROVE  OfGammaSinceReply(q, g)
  <2>1. ASSUME NEW i \in 1..n, ~IsReply(p[i]), p[i].gamma # g
        PROVE  \E j \in (i + 1)..(n + 1) : IsReply(q[j])
    <3>1. PICK j \in (i + 1)..n : IsReply(p[j])
      BY <1>7, <2>1 DEF OfGammaSinceReply, n
    <3>2. j \in 1..n /\ j \in (i + 1)..(n + 1)
      BY <1>1, <3>1
    <3>. QED
      BY <1>1, <3>1, <3>2
  <2>. QED
    BY <1>1, <1>2, <1>7, <2>1 DEF OfGammaSinceReply
<1>. QED
  BY <1>3, <1>4, <1>5, <1>6, <1>7 DEF q

LEMMA AppendReply ==
  ASSUME NEW p \in Seq(Messages), NEW g, NEW h
  PROVE  /\ NoReply(p) => OneReply(Append(p, UtilityReply))
         /\ DraftsOfRequests(p) => DraftsOfRequests(Append(p, UtilityReply))
         /\ AllOfGamma(p, g) => AllOfGamma(Append(p, UtilityReply), g)
         /\ OfGammaSinceReply(Append(p, UtilityReply), h)
<1>. DEFINE n == Len(p)
            q == Append(p, UtilityReply)
<1>1. /\ n \in Nat /\ Len(q) = n + 1 /\ IsReply(q[n + 1])
      /\ \A i \in 1..n : q[i] = p[i]
  BY MessageFacts, AppendProperties, LenProperties
<1>2. \A i \in 1..(n + 1) : i \in 1..n \/ i = n + 1
  BY <1>1
<1>3. \A i \in 1..n : n + 1 \in (i + 1)..(n + 1)
  BY <1>1
<1>. HIDE DEF n, q
<1>4. NoReply(p) => OneReply(q)
  BY <1>1, <1>2 DEF NoReply, OneReply, n
<1>5. DraftsOfRequests(p) => DraftsOfRequests(q)
  BY <1>1, <1>2 DEF DraftsOfRequests, n
<1>6. AllOfGamma(p, g) => AllOfGamma(q, g)
  BY <1>1, <1>2 DEF AllOfGamma, n
<1>7. OfGammaSinceReply(q, h)
  BY <1>1, <1>2, <1>3 DEF OfGammaSinceReply
<1>. QED
  BY <1>4, <1>5, <1>6, <1>7 DEF q

LEMMA TailFacts ==
  ASSUME NEW p \in Seq(Messages), p # <<>>, NEW g
  PROVE  /\ NoReply(p) => NoReply(Tail(p)) /\ ~IsReply(Head(p))
         /\ OneReply(p) => OneReply(Tail(p))
         /\ OneReply(p) /\ IsReply(Head(p)) => NoReply(Tail(p))
         /\ DraftsOfRequests(p) => DraftsOfRequests(Tail(p))
         /\ DraftsOfRequests(p) /\ ~IsReply(Head(p)) /\ Head(p).drafted # {}
              => Head(p).outputs > 0
         /\ AllOfGamma(p, g) => AllOfGamma(Tail(p), g)
         /\ AllOfGamma(p, g) /\ ~IsReply(Head(p)) => Head(p).gamma = g
         /\ OfGammaSinceReply(p, g) => OfGammaSinceReply(Tail(p), g)
<1>. DEFINE n == Len(p)
            q == Tail(p)
<1>1. /\ n \in Nat \ {0} /\ Len(q) = n - 1 /\ Head(p) = p[1]
      /\ \A i \in 1..(n - 1) : q[i] = p[i + 1]
  BY HeadTailProperties, EmptySeq
<1>2. \A i \in 1..(n - 1) : i + 1 \in 1..n /\ i + 1 # 1
  BY <1>1
<1>3. 1 \in 1..n
  BY <1>1
<1>. HIDE DEF n, q
<1>4. NoReply(p) => NoReply(q) /\ ~IsReply(Head(p))
  BY <1>1, <1>2, <1>3 DEF NoReply, n
<1>5. OneReply(p) => OneReply(q)
  <2>1. ASSUME OneReply(p), NEW i \in 1..(n - 1), NEW j \in 1..(n - 1),
               IsReply(q[i]), IsReply(q[j])
        PROVE  i = j
    <3>1. i + 1 = j + 1
      BY <1>1, <1>2, <2>1 DEF OneReply, n
    <3>. QED
      BY <3>1
  <2>. QED
    BY <1>1, <2>1 DEF OneReply
<1>6. OneReply(p) /\ IsReply(Head(p)) => NoReply(q)
  BY <1>1, <1>2, <1>3 DEF NoReply, OneReply, n
<1>7. /\ DraftsOfRequests(p) => DraftsOfRequests(q)
      /\ DraftsOfRequests(p) /\ ~IsReply(Head(p)) /\ Head(p).drafted # {}
           => Head(p).outputs > 0
  BY <1>1, <1>2, <1>3 DEF DraftsOfRequests, n
<1>8. /\ AllOfGamma(p, g) => AllOfGamma(q, g)
      /\ AllOfGamma(p, g) /\ ~IsReply(Head(p)) => Head(p).gamma = g
  BY <1>1, <1>2, <1>3 DEF AllOfGamma, n
<1>9. ASSUME OfGammaSinceReply(p, g), NEW i \in 1..(n - 1), ~IsReply(q[i]), q[i].gamma # g
      PROVE  \E j \in (i + 1)..(n - 1) : IsReply(q[j])
  <2>1. PICK j \in ((i + 1) + 1)..n : IsReply(p[j])
    BY <1>9, <1>1, <1>2 DEF OfGammaSinceReply, n
  <2>2. j - 1 \in (i + 1)..(n - 1) /\ j - 1 \in 1..(n - 1) /\ (j - 1) + 1 = j
    BY <2>1, <1>1
  <2>. QED
    BY <2>1, <2>2, <1>1
<1>. QED
  BY <1>1, <1>4, <1>5, <1>6, <1>7, <1>8, <1>9 DEF OfGammaSinceReply, q

\* With no reply among them, or behind the only one, all outputs are of that gamma.
LEMMA SinceReplyIsAll ==
  ASSUME NEW p \in Seq(Messages), NEW g, OfGammaSinceReply(p, g)
  PROVE  /\ NoReply(p) => AllOfGamma(p, g)
         /\ p # <<>> /\ OneReply(p) /\ IsReply(Head(p)) => AllOfGamma(Tail(p), g)
<1>1. Len(p) \in Nat
  BY LenProperties
<1>2. ASSUME NEW q \in Seq(Messages), NoReply(q), OfGammaSinceReply(q, g)
      PROVE  AllOfGamma(q, g)
  <2>1. ASSUME NEW i \in 1..Len(q), NEW j \in (i + 1)..Len(q)
        PROVE  ~IsReply(q[j])
    <3>1. j \in 1..Len(q)
      BY <2>1, LenProperties
    <3>. QED
      BY <3>1, <1>2 DEF NoReply
  <2>. QED
    BY <1>2, <2>1 DEF OfGammaSinceReply, AllOfGamma
<1>3. ASSUME p # <<>>, OneReply(p), IsReply(Head(p))
      PROVE  AllOfGamma(Tail(p), g)
  <2>1. Tail(p) \in Seq(Messages)
    BY <1>3, HeadTailProperties
  <2>2. NoReply(Tail(p)) /\ OfGammaSinceReply(Tail(p), g)
    BY <1>3, TailFacts
  <2>. QED
    BY <1>2, <2>1, <2>2
<1>. QED
  BY <1>2, <1>3

LEMMA AllIsSinceReply ==
  ASSUME NEW p, NEW g, AllOfGamma(p, g)
  PROVE  OfGammaSinceReply(p, g)
  BY DEF AllOfGamma, OfGammaSinceReply

-------------------------------------------------------------------------------
(* The inductive invariant.                                                *)

TypeInv ==
  /\ inbox \in Seq(InMessages) /\ wire \in Seq(Messages) /\ queue \in Seq(Outputs)
  /\ handling \in Outputs \cup {NotHandling} /\ acc \in Stats /\ snap \in Stats
  /\ active \in Nat /\ finishedIds \in BOOLEAN /\ gamma \in Gammas /\ toggled \in BOOLEAN
  /\ steps \in Nat /\ rollout \in 0..MaxRollouts /\ sent \in 0..MaxRequests
  /\ answered \in Nat
  /\ phase \in {"idle", "waking", "rollout", "polling", "rechecking", "deciding",
                "moving", "resetting"}
  /\ rolloutGamma \in Gammas /\ verified \subseteq StepIds /\ hasToggled \in BOOLEAN

\* The requests whose answers are in the slices that are left.
Held == IF handling = NotHandling THEN 0 ELSE handling.finished

\* The requests the engine has not received.
Coming == IF phase = "rollout" THEN Len(inbox) ELSE 0

\* Every request that is sent and not answered is on its way to the engine, in the
\* scheduler, or finished in an output on its way back.
LedgerInv == Ledger(Pending, sent - answered - Held, active + Coming)

\* Only a rollout has unanswered requests, and it has while slices are left.
AnswersInv ==
  /\ phase # "rollout" => sent = answered
  /\ handling # NotHandling => answered < sent
  /\ steps + active + Coming <= MaxSteps + sent
  /\ phase # "idle" => rollout \in 1..MaxRollouts

\* The input queue holds requests, or the one utility call the trainer waits for.
InboxInv ==
  /\ phase = "rollout" => \A i \in 1..Len(inbox) : inbox[i] = Request
  /\ phase = "waking" => inbox = <<>> \/ inbox = <<WakeUp>>
  /\ phase = "moving" => inbox = <<>> \/ \E g \in Gammas : inbox = <<ForceSetGamma(g)>>
  /\ phase \notin {"rollout", "waking", "moving"} => inbox = <<>>

RepliesInv ==
  IF phase \in {"waking", "moving"} /\ inbox = <<>>
  THEN OneReply(Pending) ELSE NoReply(Pending)

\* Outputs carry the gamma of the engine, but those before the reply to a move.
GammaInv ==
  /\ phase # "moving" => AllOfGamma(Pending, gamma)
  /\ phase = "moving" => OfGammaSinceReply(Pending, gamma)
  /\ handling # NotHandling => handling.gamma = gamma
  /\ phase \in {"waking", "rollout", "polling", "rechecking", "deciding"}
       => gamma = rolloutGamma
  /\ phase \notin {"moving", "resetting"} => acc.gamma \in {-1, gamma}
  /\ acc.drafted # {} => acc.gamma # -1

\* The drafts of the rollout are observed or on their way, and those of no other.
DraftsInv ==
  /\ DraftsOfRequests(Pending)
  /\ phase \in {"idle", "waking"} => acc.drafted = {}
  /\ phase = "waking" => verified = {}
  /\ phase \in {"rollout", "polling", "rechecking"} =>
       \A id \in StepIds :
         id \in verified <=> \/ id \in acc.drafted
                             \/ handling # NotHandling /\ id \in handling.drafted
                             \/ Brings(Pending, id)

SnapInv == SnapshotIsExact /\ SnapshotGamma

IInv ==
  /\ TypeInv /\ LedgerInv /\ AnswersInv /\ InboxInv /\ RepliesInv /\ GammaInv /\ DraftsInv
  /\ SnapInv

LEMMA NumberFacts ==
  ASSUME TypeInv
  PROVE  /\ active \in Nat /\ steps \in Nat /\ sent \in Nat /\ answered \in Nat
         /\ Len(inbox) \in Nat /\ Coming \in Nat
         /\ Held \in 0..MaxRequests
         /\ MaxRequests \in Nat /\ MaxSteps \in Nat /\ ChunkSize \in Nat
<1>1. active \in Nat /\ steps \in Nat /\ sent \in Nat /\ answered \in Nat
  BY BoundsAssumption DEF TypeInv
<1>2. Len(inbox) \in Nat
  BY LenProperties DEF TypeInv
<1>3. Held \in 0..MaxRequests
  BY OutputFacts, BoundsAssumption DEF Held, TypeInv
<1>. QED
  BY <1>1, <1>2, <1>3, BoundsAssumption DEF Coming

LEMMA PendingTyped == TypeInv => Pending \in Seq(Messages)
  BY PendingFacts DEF TypeInv

\* Outside a rollout the engine has no requests and no drafts are on their way.
LEMMA QuietPhase ==
  ASSUME IInv, phase # "rollout"
  PROVE  /\ handling = NotHandling /\ active = 0 /\ sent = answered
         /\ Held = 0 /\ Coming = 0 /\ Ledger(Pending, 0, 0)
         /\ \A i \in 1..Len(Pending) : Drafts(Pending[i]) = {}
         /\ \A id : ~Brings(Pending, id)
<1>1. TypeInv /\ LedgerInv /\ AnswersInv /\ DraftsInv /\ Pending \in Seq(Messages)
  BY PendingTyped DEF IInv
<1>2. sent = answered /\ sent \in Nat /\ active \in Nat
  BY <1>1, BoundsAssumption DEF AnswersInv, TypeInv
<1>3. handling = NotHandling
  BY <1>1, <1>2 DEF AnswersInv
<1>4. Held = 0 /\ Coming = 0
  BY <1>3 DEF Held, Coming
<1>5. Ledger(Pending, 0, active)
  BY <1>1, <1>2, <1>4 DEF LedgerInv
<1>6. active = 0 /\ \A i \in 1..Len(Pending) : ~IsReply(Pending[i]) => Pending[i].outputs <= 0
  BY <1>1, <1>2, <1>5, LedgerBounds, BoundsAssumption
<1>7. ASSUME NEW i \in 1..Len(Pending)
      PROVE  Drafts(Pending[i]) = {}
  <2>1. Pending[i] \in Messages
    BY <1>1, LenProperties
  <2>2. CASE IsReply(Pending[i])
    BY <2>2 DEF Drafts
  <2>3. CASE ~IsReply(Pending[i])
    <3>1. Pending[i] \in Outputs /\ Pending[i].outputs <= 0
      BY <1>6, <2>1, <2>3, MessageFacts
    <3>2. Pending[i].outputs \in 0..MaxRequests
      BY <3>1, OutputFacts
    <3>3. ~(Pending[i].outputs > 0)
      BY <3>1, <3>2, BoundsAssumption
    <3>. QED
      BY <1>1, <2>3, <3>3 DEF DraftsInv, DraftsOfRequests, Drafts
  <2>. QED
    BY <2>2, <2>3
<1>. QED
  BY <1>2, <1>3, <1>4, <1>5, <1>6, <1>7 DEF Brings

-------------------------------------------------------------------------------
(* It holds initially.                                                     *)

LEMMA InitIInv == Init => IInv
<1>. SUFFICES ASSUME Init PROVE IInv
  OBVIOUS
<1>1. NoStats \in Stats /\ NoStats.drafted = {} /\ NoStats.gamma = -1
  BY DEF NoStats, Stats
<1>2. TypeInv
  <2>1. inbox \in Seq(InMessages) /\ wire \in Seq(Messages) /\ queue \in Seq(Outputs)
    BY EmptySeq DEF Init
  <2>2. gamma \in Gammas /\ rolloutGamma \in Gammas /\ acc \in Stats /\ snap \in Stats
    BY <1>1, GammaFacts DEF Init
  <2>3. rollout \in 0..MaxRollouts /\ sent \in 0..MaxRequests
    BY BoundsAssumption DEF Init
  <2>. QED
    BY <2>1, <2>2, <2>3 DEF Init, TypeInv
<1>3. Pending = <<>> /\ Pending \in Seq(Messages)
  BY ConcatEmptySeq, EmptySeq, PendingFacts, <1>2 DEF Init, Pending, TypeInv
<1>4. Len(Pending) = 0
  BY <1>3
<1>5. LedgerInv
  <2>1. sent - answered - Held = 0 /\ active + Coming = 0
    BY DEF Init, Held, Coming
  <2>. QED
    BY <2>1, <1>3, LedgerEmpty DEF LedgerInv
<1>6. AnswersInv
  BY BoundsAssumption DEF Init, AnswersInv, Coming
<1>7. InboxInv /\ RepliesInv
  BY <1>4 DEF Init, InboxInv, RepliesInv, NoReply
<1>8. GammaInv
  BY <1>1, <1>4 DEF Init, GammaInv, AllOfGamma
<1>9. DraftsInv
  BY <1>1, <1>4 DEF Init, DraftsInv, DraftsOfRequests
<1>10. SnapInv
  BY DEF Init, SnapInv, SnapshotIsExact, SnapshotGamma, Deciding
<1>. QED
  BY <1>2, <1>5, <1>6, <1>7, <1>8, <1>9, <1>10 DEF IInv

-------------------------------------------------------------------------------
(* The engine loop preserves it.                                           *)

LEMMA InboxFacts ==
  ASSUME TypeInv, inbox # <<>>
  PROVE  /\ Head(inbox) \in InMessages /\ Tail(inbox) \in Seq(InMessages)
         /\ Head(inbox) = inbox[1] /\ Len(inbox) \in Nat \ {0}
         /\ Len(Tail(inbox)) = Len(inbox) - 1
         /\ \A i \in 1..Len(Tail(inbox)) : Tail(inbox)[i] = inbox[i + 1]
  BY HeadTailProperties, EmptySeq DEF TypeInv

LEMMA EngineReceivesRequest ==
  ASSUME IInv, EngineReceives, phase = "rollout"
  PROVE  IInv'
<1>1. /\ TypeInv /\ LedgerInv /\ AnswersInv /\ InboxInv /\ RepliesInv /\ GammaInv
      /\ DraftsInv /\ SnapInv
  BY DEF IInv
<1>2. inbox # <<>> /\ inbox' = Tail(inbox)
  BY DEF EngineReceives
<1>3. Head(inbox) = Request /\ Head(inbox).op = "add"
  <2>1. Head(inbox) = inbox[1] /\ 1 \in 1..Len(inbox)
    BY <1>1, <1>2, InboxFacts
  <2>. QED
    BY <1>1, <2>1 DEF InboxInv, Request
<1>4. /\ active' = active + 1
      /\ UNCHANGED <<gamma, toggled, wire, finishedIds, steps, queue, handling, acc,
                     phase, rollout, sent, answered, snap, rolloutGamma, verified,
                     hasToggled>>
  BY <1>3 DEF EngineReceives, trainerVars, historyVars
<1>5. Pending' = Pending /\ Held' = Held
  BY <1>4 DEF Pending, Held
<1>6. TypeInv'
  BY <1>1, <1>2, <1>4, InboxFacts DEF TypeInv
<1>7. Coming' = Coming - 1 /\ Coming \in Nat /\ Coming' \in Nat
  BY <1>1, <1>2, <1>4, InboxFacts DEF Coming
<1>8. /\ active' + Coming' = active + Coming /\ active' \in Nat
      /\ steps' + active' + Coming' = steps + active + Coming
  <2>1. active \in Nat /\ steps \in Nat
    BY <1>1, NumberFacts
  <2>2. active' = active + 1 /\ steps' = steps
    BY <1>4
  <2>. QED
    BY <2>1, <2>2, <1>7
<1>9. LedgerInv'
  BY <1>1, <1>4, <1>5, <1>8 DEF LedgerInv
<1>10. AnswersInv'
  BY <1>1, <1>4, <1>8 DEF AnswersInv
<1>11. InboxInv'
  <2>1. \A i \in 1..Len(Tail(inbox)) : i + 1 \in 1..Len(inbox)
    BY <1>1, <1>2, InboxFacts
  <2>2. \A i \in 1..Len(Tail(inbox)) : Tail(inbox)[i] = Request
    BY <1>1, <1>2, <2>1, InboxFacts DEF InboxInv
  <2>. QED
    BY <1>2, <1>4, <2>2 DEF InboxInv
<1>12. RepliesInv' /\ GammaInv'
  BY <1>1, <1>4, <1>5 DEF RepliesInv, GammaInv
<1>13. DraftsInv' /\ SnapInv'
  BY <1>1, <1>4, <1>5
  DEF DraftsInv, SnapInv, SnapshotIsExact, SnapshotGamma, Deciding
<1>. QED
  BY <1>6, <1>9, <1>10, <1>11, <1>12, <1>13 DEF IInv

LEMMA EngineReceivesUtility ==
  ASSUME IInv, EngineReceives, phase # "rollout"
  PROVE  IInv'
<1>1. /\ TypeInv /\ LedgerInv /\ AnswersInv /\ InboxInv /\ RepliesInv /\ GammaInv
      /\ DraftsInv /\ SnapInv
  BY DEF IInv
<1>2. inbox # <<>> /\ inbox' = Tail(inbox)
  BY DEF EngineReceives
<1>3. Head(inbox) \in InMessages /\ inbox' \in Seq(InMessages)
  BY <1>1, <1>2, InboxFacts
<1>4. \/ phase = "waking" /\ Head(inbox) = WakeUp /\ inbox' = <<>>
      \/ phase = "moving" /\ inbox' = <<>>
         /\ \E g \in Gammas : Head(inbox) = ForceSetGamma(g)
  BY <1>1, <1>2 DEF InboxInv
<1>5. /\ wire' = Append(wire, UtilityReply)
      /\ gamma' \in Gammas /\ toggled' \in BOOLEAN
      /\ phase # "moving" => gamma' = gamma
      /\ UNCHANGED <<active, finishedIds, steps, queue, handling, acc, phase, rollout,
                     sent, answered, snap, rolloutGamma, verified, hasToggled>>
  <2>1. CASE phase = "waking"
    <3>1. Head(inbox) = WakeUp /\ Head(inbox).op = "wake_up"
      BY <1>4, <2>1 DEF WakeUp
    <3>2. /\ wire' = Append(wire, UtilityReply) /\ toggled' = FALSE
          /\ UNCHANGED <<active, gamma>>
      BY <3>1 DEF EngineReceives
    <3>3. UNCHANGED <<finishedIds, steps, queue, handling, acc, trainerVars, historyVars>>
      BY DEF EngineReceives
    <3>. QED
      BY <1>1, <3>2, <3>3 DEF trainerVars, historyVars, TypeInv
  <2>2. CASE phase = "moving"
    <3>1. PICK g \in Gammas : Head(inbox) = ForceSetGamma(g)
      BY <1>4, <2>2
    <3>2. Head(inbox).op = "force_set_gamma" /\ Head(inbox).gamma = g
      BY <3>1 DEF ForceSetGamma
    <3>3. /\ wire' = Append(wire, UtilityReply) /\ gamma' = g
          /\ UNCHANGED <<active, toggled>>
      BY <3>2 DEF EngineReceives
    <3>4. UNCHANGED <<finishedIds, steps, queue, handling, acc, trainerVars, historyVars>>
      BY DEF EngineReceives
    <3>. QED
      BY <1>1, <2>2, <3>3, <3>4 DEF trainerVars, historyVars, TypeInv
  <2>. QED
    BY <1>4, <2>1, <2>2
<1>6. Pending \in Seq(Messages) /\ Pending' = Append(Pending, UtilityReply)
  BY <1>1, <1>5, PendingTyped, PendingAppend, MessageFacts DEF TypeInv
<1>7. /\ Held' = 0 /\ Coming' = 0 /\ handling = NotHandling /\ Ledger(Pending, 0, 0)
      /\ active = 0 /\ sent = answered /\ Coming = 0
  BY <1>5, QuietPhase DEF Held, Coming
<1>8. TypeInv'
  <2>1. wire' \in Seq(Messages)
    BY <1>1, <1>5, AppendProperties, MessageFacts DEF TypeInv
  <2>. QED
    BY <1>1, <1>3, <1>5, <2>1 DEF TypeInv
<1>9. LedgerInv'
  <2>1. Ledger(Append(Pending, UtilityReply), 0, 0)
    BY <1>6, <1>7, LedgerAppend, MessageFacts
  <2>2. sent' - answered' - Held' = 0 /\ active' + Coming' = 0
    BY <1>1, <1>5, <1>7, NumberFacts
  <2>. QED
    BY <1>6, <2>1, <2>2 DEF LedgerInv
<1>10. AnswersInv'
  BY <1>1, <1>5, <1>7 DEF AnswersInv
<1>11. InboxInv'
  BY <1>4, <1>5 DEF InboxInv
<1>12. RepliesInv'
  BY <1>1, <1>2, <1>4, <1>5, <1>6, AppendReply DEF RepliesInv
<1>13. GammaInv'
  <2>1. /\ phase' # "moving" => AllOfGamma(Pending', gamma')
        /\ phase' = "moving" => OfGammaSinceReply(Pending', gamma')
    BY <1>1, <1>5, <1>6, AppendReply DEF GammaInv
  <2>2. handling' = NotHandling
    BY <1>5, <1>7
  <2>. QED
    BY <1>1, <1>4, <1>5, <2>1, <2>2 DEF GammaInv
<1>14. DraftsInv'
  BY <1>1, <1>4, <1>5, <1>6, AppendReply DEF DraftsInv
<1>15. SnapInv'
  BY <1>1, <1>5 DEF SnapInv, SnapshotIsExact, SnapshotGamma, Deciding
<1>. QED
  BY <1>8, <1>9, <1>10, <1>11, <1>12, <1>13, <1>14, <1>15 DEF IInv

\* A step with requests, in the rollout, or the one after the last of them.
LEMMA EngineStepPreserves == IInv /\ EngineStep => IInv'
<1>. SUFFICES ASSUME IInv, EngineStep PROVE IInv'
  OBVIOUS
<1>1. /\ TypeInv /\ LedgerInv /\ AnswersInv /\ InboxInv /\ RepliesInv /\ GammaInv
      /\ DraftsInv /\ SnapInv
  BY DEF IInv
<1>2. UNCHANGED <<inbox, gamma, queue, handling, acc, phase, rollout, sent, answered,
                  snap, rolloutGamma>>
  BY DEF EngineStep, trainerVars
<1>3. PICK fires \in BOOLEAN, drafts \in BOOLEAN, finished \in 0..active :
        LET id == [rollout |-> rollout, step |-> steps + 1]
            drafted == IF drafts THEN {id} ELSE {}
        IN
        /\ fires => active > 0
        /\ drafts => active > 0 /\ toggled
        /\ steps < MaxSteps \/ finished > 0 \/ active = 0
        /\ toggled' = (toggled \/ fires)
        /\ active' = active - finished
        /\ finishedIds' = (finished > 0)
        /\ steps' = IF active > 0 THEN steps + 1 ELSE steps
        /\ wire' = Append(wire, [outputs |-> active, finished |-> finished,
                                 drafted |-> drafted, gamma |-> gamma,
                                 toggled |-> toggled'])
        /\ verified' = verified \cup drafted
        /\ hasToggled' = (hasToggled \/ (toggled' /\ active > 0))
  BY Zenon DEF EngineStep
<1>. DEFINE drafted == IF drafts THEN {[rollout |-> rollout, step |-> steps + 1]} ELSE {}
            o == [outputs |-> active, finished |-> finished, drafted |-> drafted,
                  gamma |-> gamma, toggled |-> toggled']
<1>4. /\ drafts => active > 0
      /\ steps < MaxSteps \/ finished > 0 \/ active = 0
      /\ active' = active - finished
      /\ steps' = IF active > 0 THEN steps + 1 ELSE steps
      /\ wire' = Append(wire, o)
      /\ verified' = verified \cup drafted
  BY <1>3
<1>5. finishedIds' \in BOOLEAN /\ toggled' \in BOOLEAN /\ hasToggled' \in BOOLEAN
  BY <1>1, <1>3 DEF TypeInv
<1>6. /\ active \in Nat /\ steps \in Nat /\ sent \in 0..MaxRequests /\ Coming \in Nat
      /\ finished \in Nat /\ finished <= active /\ answered \in Nat /\ MaxSteps \in Nat
      /\ MaxRequests \in Nat
  BY <1>1, NumberFacts DEF TypeInv
<1>7. Pending \in Seq(Messages)
  BY <1>1, PendingTyped
<1>8. active + Coming \in 0..MaxRequests /\ active + Coming <= sent
  <2>1. /\ active + Coming \in 0..MaxRequests /\ active + Coming <= sent - answered - Held
    BY <1>1, <1>7, LedgerBounds DEF LedgerInv
  <2>. QED
    BY <2>1, <1>1, <1>6, NumberFacts
<1>9. active > 0 => phase = "rollout" /\ rollout \in 1..MaxRollouts
  BY <1>1, <1>6, QuietPhase DEF AnswersInv
<1>10. active > 0 => steps + 1 \in 1..(MaxSteps + MaxRequests)
  <2>1. steps + active + Coming <= MaxSteps + sent
    BY <1>1 DEF AnswersInv
  <2>. QED
    BY <2>1, <1>6
<1>11. drafted \subseteq StepIds /\ (drafted # {} => active > 0)
  BY <1>4, <1>9, <1>10 DEF StepIds
<1>12. o \in Outputs
  BY <1>1, <1>5, <1>6, <1>8, <1>11 DEF Outputs, TypeInv
<1>13. /\ o.outputs = active /\ o.finished = finished /\ o.drafted = drafted
       /\ o.gamma = gamma
  OBVIOUS
<1>. HIDE DEF o, drafted
<1>14. o \in Messages /\ ~IsReply(o) /\ Finished(o) = finished /\ Drafts(o) = drafted
  BY <1>12, <1>13, OutputFacts
<1>15. Pending' = Append(Pending, o)
  BY <1>1, <1>2, <1>4, <1>14, PendingAppend DEF TypeInv
<1>16. Held' = Held /\ Coming' = Coming
  BY <1>2 DEF Held, Coming
<1>17. TypeInv'
  <2>1. wire' \in Seq(Messages)
    BY <1>1, <1>4, <1>14, AppendProperties DEF TypeInv
  <2>2. active' \in Nat /\ steps' \in Nat /\ verified' \subseteq StepIds
    BY <1>1, <1>4, <1>6, <1>11 DEF TypeInv
  <2>. QED
    BY <1>1, <1>2, <1>5, <2>1, <2>2 DEF TypeInv
<1>18. LedgerInv'
  <2>. DEFINE first == sent - answered - Held
              last == active + Coming
  <2>1. Ledger(Pending, first, last)
    BY <1>1 DEF LedgerInv
  <2>2. Finished(o) <= last /\ o.outputs <= last
    BY <1>6, <1>13, <1>14
  <2>3. last - Finished(o) = active' + Coming'
    BY <1>4, <1>6, <1>14, <1>16
  <2>4. sent' - answered' - Held' = first
    BY <1>2, <1>16
  <2>. HIDE DEF first, last
  <2>5. Ledger(Append(Pending, o), first, last - Finished(o))
    BY <2>1, <2>2, <1>7, <1>14, LedgerAppend
  <2>. QED
    BY <2>3, <2>4, <2>5, <1>15 DEF LedgerInv
<1>19. AnswersInv'
  <2>1. steps' + active' + Coming' <= MaxSteps + sent'
    <3>1. steps + active + Coming <= MaxSteps + sent
      BY <1>1 DEF AnswersInv
    <3>2. CASE active = 0
      BY <3>1, <3>2, <1>2, <1>4, <1>6, <1>16
    <3>3. CASE active > 0 /\ finished > 0
      BY <3>1, <3>3, <1>2, <1>4, <1>6, <1>16
    <3>4. CASE active > 0 /\ finished = 0
      BY <3>4, <1>2, <1>4, <1>6, <1>8, <1>16
    <3>. QED
      BY <3>2, <3>3, <3>4, <1>6
  <2>. QED
    BY <1>1, <1>2, <2>1 DEF AnswersInv
<1>20. InboxInv'
  BY <1>1, <1>2 DEF InboxInv
<1>21. RepliesInv'
  BY <1>1, <1>2, <1>7, <1>12, <1>15, AppendOutput DEF RepliesInv
<1>22. GammaInv'
  <2>1. /\ phase' # "moving" => AllOfGamma(Pending', gamma')
        /\ phase' = "moving" => OfGammaSinceReply(Pending', gamma')
    BY <1>1, <1>2, <1>7, <1>12, <1>13, <1>15, AppendOutput DEF GammaInv
  <2>. QED
    BY <1>1, <1>2, <2>1 DEF GammaInv
<1>23. DraftsInv'
  <2>1. DraftsOfRequests(Pending')
    BY <1>1, <1>7, <1>11, <1>12, <1>13, <1>15, AppendOutput DEF DraftsInv
  <2>2. phase # "rollout" => verified' = verified
    BY <1>4, <1>6, <1>9, <1>11
  <2>3. ASSUME NEW id \in StepIds
        PROVE  Brings(Pending', id) <=> Brings(Pending, id) \/ id \in drafted
    BY <1>7, <1>14, <1>15, BringsAppend
  <2>. QED
    BY <1>1, <1>2, <1>4, <2>1, <2>2, <2>3 DEF DraftsInv
<1>24. SnapInv'
  <2>1. Deciding => verified' = verified
    BY <1>4, <1>6, <1>9, <1>11 DEF Deciding
  <2>. QED
    BY <1>1, <1>2, <2>1 DEF SnapInv, SnapshotIsExact, SnapshotGamma, Deciding
<1>. QED
  BY <1>17, <1>18, <1>19, <1>20, <1>21, <1>22, <1>23, <1>24 DEF IInv

-------------------------------------------------------------------------------
(* The tasks of the event loop preserve it.                                *)

LEMMA ClientReceivesOutput ==
  ASSUME IInv, ClientReceives, ~IsReply(Head(wire))
  PROVE  IInv'
<1>1. /\ TypeInv /\ LedgerInv /\ AnswersInv /\ InboxInv /\ RepliesInv /\ GammaInv
      /\ DraftsInv /\ SnapInv
  BY DEF IInv
<1>2. /\ wire # <<>> /\ queue' = Append(queue, Head(wire)) /\ wire' = Tail(wire)
      /\ UNCHANGED <<inbox, active, finishedIds, gamma, toggled, steps, handling, acc,
                     phase, rollout, sent, answered, snap, rolloutGamma, verified,
                     hasToggled>>
  BY DEF ClientReceives, engineVars, historyVars
<1>3. Pending' = Pending /\ queue' \in Seq(Outputs) /\ wire' \in Seq(Messages)
  BY <1>1, <1>2, PendingMoved DEF TypeInv
<1>4. Held' = Held /\ Coming' = Coming
  BY <1>2 DEF Held, Coming
<1>5. TypeInv'
  BY <1>1, <1>2, <1>3 DEF TypeInv
<1>6. LedgerInv' /\ AnswersInv' /\ InboxInv' /\ RepliesInv'
  BY <1>1, <1>2, <1>3, <1>4 DEF LedgerInv, AnswersInv, InboxInv, RepliesInv
<1>7. GammaInv' /\ DraftsInv' /\ SnapInv'
  BY <1>1, <1>2, <1>3
  DEF GammaInv, DraftsInv, SnapInv, SnapshotIsExact, SnapshotGamma, Deciding
<1>. QED
  BY <1>5, <1>6, <1>7 DEF IInv

\* The reply finds the queue empty: what came before it has been observed.
LEMMA ClientReceivesReply ==
  ASSUME IInv, ClientReceives, IsReply(Head(wire))
  PROVE  IInv'
<1>1. /\ TypeInv /\ LedgerInv /\ AnswersInv /\ InboxInv /\ RepliesInv /\ GammaInv
      /\ DraftsInv /\ SnapInv
  BY DEF IInv
<1>2. /\ wire # <<>> /\ queue = <<>> /\ handling = NotHandling /\ wire' = Tail(wire)
      /\ phase' = CASE phase = "waking" -> "rollout" [] phase = "moving" -> "resetting"
      /\ UNCHANGED <<inbox, active, finishedIds, gamma, toggled, steps, queue, handling,
                     acc, rollout, sent, answered, snap, rolloutGamma, verified,
                     hasToggled>>
  BY DEF ClientReceives, engineVars, historyVars
<1>3. /\ Pending # <<>> /\ Head(Pending) = Head(wire) /\ Pending' = Tail(Pending)
      /\ wire' \in Seq(Messages) /\ Pending \in Seq(Messages)
  BY <1>1, <1>2, PendingReply, PendingTyped DEF TypeInv
<1>4. Head(Pending) \in Messages /\ Finished(Head(Pending)) = 0 /\ Drafts(Head(Pending)) = {}
  BY <1>3, HeadTailProperties, MessageFacts
<1>5. phase \in {"waking", "moving"} /\ inbox = <<>> /\ OneReply(Pending)
  BY <1>1, <1>3, TailFacts DEF RepliesInv
<1>6. /\ phase = "waking" => phase' = "rollout"
      /\ phase = "moving" => phase' = "resetting"
  BY <1>2
<1>7. /\ Held' = 0 /\ Coming' = 0 /\ Ledger(Pending, 0, 0) /\ active = 0
      /\ sent = answered /\ \A id : ~Brings(Pending, id)
  <2>1. Len(inbox) = 0
    BY <1>5
  <2>. QED
    BY <1>2, <1>5, <2>1, QuietPhase DEF Held, Coming
<1>8. TypeInv'
  BY <1>1, <1>2, <1>3, <1>5, <1>6 DEF TypeInv
<1>9. LedgerInv'
  <2>1. Ledger(Tail(Pending), 0 - Finished(Head(Pending)), 0)
    BY <1>3, <1>7, LedgerTail
  <2>2. 0 - Finished(Head(Pending)) = 0 /\ active' + Coming' = 0
    BY <1>2, <1>4, <1>7
  <2>3. sent' - answered' - Held' = 0
    BY <1>1, <1>2, <1>7, NumberFacts
  <2>. QED
    BY <1>3, <2>1, <2>2, <2>3 DEF LedgerInv
<1>10. AnswersInv'
  <2>1. Coming' = Coming
    BY <1>5, <1>7, QuietPhase
  <2>. QED
    BY <1>1, <1>2, <1>5, <1>6, <1>7, <2>1 DEF AnswersInv
<1>11. InboxInv'
  BY <1>2, <1>5, <1>6 DEF InboxInv
<1>12. RepliesInv'
  BY <1>3, <1>5, <1>6, TailFacts DEF RepliesInv
<1>13. GammaInv'
  <2>1. AllOfGamma(Pending', gamma')
    <3>1. CASE phase = "waking"
      BY <1>1, <1>2, <1>3, <3>1, TailFacts DEF GammaInv
    <3>2. CASE phase = "moving"
      BY <1>1, <1>2, <1>3, <1>5, <3>2, SinceReplyIsAll DEF GammaInv
    <3>. QED
      BY <1>5, <3>1, <3>2
  <2>. QED
    BY <1>1, <1>2, <1>5, <1>6, <2>1 DEF GammaInv
<1>14. DraftsInv'
  <2>1. DraftsOfRequests(Pending')
    BY <1>1, <1>3, TailFacts DEF DraftsInv
  <2>2. \A id : ~Brings(Pending', id)
    BY <1>3, <1>7, BringsTail
  <2>. QED
    BY <1>1, <1>2, <1>5, <1>6, <2>1, <2>2 DEF DraftsInv
<1>15. SnapInv'
  BY <1>1, <1>2, <1>5, <1>6 DEF SnapInv, SnapshotIsExact, SnapshotGamma, Deciding
<1>. QED
  BY <1>8, <1>9, <1>10, <1>11, <1>12, <1>13, <1>14, <1>15 DEF IInv

\* What output_handler finds at the head of the queue.
LEMMA HandledFacts ==
  ASSUME IInv, queue # <<>>, handling = NotHandling,
         queue' = Tail(queue), wire' = wire
  PROVE  /\ Pending \in Seq(Messages) /\ Pending # <<>> /\ Pending' = Tail(Pending)
         /\ queue' \in Seq(Outputs) /\ Head(queue) \in Outputs
         /\ Head(queue) = Head(Pending) /\ ~IsReply(Head(queue))
         /\ Head(queue).outputs <= sent - answered
         /\ Head(queue).finished <= sent - answered
         /\ Ledger(Pending', sent - answered - Head(queue).finished, active + Coming)
         /\ Head(queue).drafted # {} => Head(queue).outputs > 0
         /\ \A id : Brings(Pending, id) <=> id \in Head(queue).drafted \/ Brings(Pending', id)
<1>. DEFINE o == Head(queue)
            first == sent - answered
            last == active + Coming
<1>1. TypeInv /\ LedgerInv /\ DraftsInv /\ Pending \in Seq(Messages)
  BY PendingTyped DEF IInv
<1>2. /\ Pending # <<>> /\ o = Head(Pending) /\ o \in Outputs
      /\ Pending' = Tail(Pending) /\ queue' \in Seq(Outputs)
  BY <1>1, PendingHandled DEF TypeInv
<1>3. ~IsReply(o) /\ Finished(o) = o.finished /\ Drafts(o) = o.drafted
  BY <1>2, OutputFacts
<1>4. Ledger(Pending, first, last)
  <2>1. sent - answered - Held = sent - answered
    BY <1>1, NumberFacts DEF Held
  <2>. QED
    BY <1>1, <2>1 DEF LedgerInv
<1>. HIDE DEF first, last
<1>5. /\ Ledger(Tail(Pending), first - Finished(Head(Pending)), last)
      /\ Finished(Head(Pending)) <= first
      /\ ~IsReply(Head(Pending)) => Head(Pending).outputs <= first
  BY <1>1, <1>2, <1>4, LedgerTail
<1>6. o.drafted # {} => o.outputs > 0
  BY <1>1, <1>2, <1>3, TailFacts DEF DraftsInv
<1>7. \A id : Brings(Pending, id) <=> id \in o.drafted \/ Brings(Pending', id)
  BY <1>1, <1>2, <1>3, BringsTail
<1>. QED
  BY <1>1, <1>2, <1>3, <1>5, <1>6, <1>7 DEF first, last

\* acc after output_handler has observed an output.
LEMMA ObserveFacts ==
  ASSUME TypeInv, NEW o \in Outputs, Observe(o)
  PROVE  /\ acc' \in Stats /\ acc'.drafted = acc.drafted \cup o.drafted
         /\ acc'.gamma = o.gamma /\ o.gamma # -1
  BY OutputFacts, GammaFacts DEF Observe, Stats, TypeInv

LEMMA HandleOutputPreserves == IInv /\ HandleOutput => IInv'
<1>. SUFFICES ASSUME IInv, HandleOutput PROVE IInv'
  OBVIOUS
<1>. DEFINE o == Head(queue)
            last == active + Coming
<1>1. /\ TypeInv /\ LedgerInv /\ AnswersInv /\ InboxInv /\ RepliesInv /\ GammaInv
      /\ DraftsInv /\ SnapInv
  BY DEF IInv
<1>2. /\ queue # <<>> /\ handling = NotHandling /\ queue' = Tail(queue)
      /\ answered' = answered + o.finished /\ Observe(o)
      /\ UNCHANGED <<inbox, active, finishedIds, gamma, toggled, steps, wire, handling,
                     phase, rollout, sent, snap, rolloutGamma, verified, hasToggled>>
  BY DEF HandleOutput, engineVars, historyVars
<1>3. /\ Pending \in Seq(Messages) /\ Pending # <<>> /\ Pending' = Tail(Pending)
      /\ queue' \in Seq(Outputs) /\ o \in Outputs /\ o = Head(Pending) /\ ~IsReply(o)
      /\ o.finished <= sent - answered
      /\ Ledger(Pending', sent - answered - o.finished, last)
      /\ \A id : Brings(Pending, id) <=> id \in o.drafted \/ Brings(Pending', id)
  BY <1>2, HandledFacts
<1>. HIDE DEF o, last
<1>4. o.finished \in 0..MaxRequests /\ o.drafted \in SUBSET StepIds
  BY <1>3, OutputFacts
<1>5. /\ acc' \in Stats /\ acc'.drafted = acc.drafted \cup o.drafted
      /\ acc'.gamma = o.gamma /\ o.gamma # -1
  BY <1>1, <1>2, <1>3, ObserveFacts
<1>6. Held' = 0 /\ Held = 0 /\ Coming' = Coming
  BY <1>2 DEF Held, Coming
<1>7. /\ answered' \in Nat /\ answered' <= sent
      /\ sent' - answered' - Held' = sent - answered - o.finished
  <2>1. answered \in Nat /\ sent \in Nat /\ o.finished \in Nat
    BY <1>1, <1>4, NumberFacts
  <2>2. sent' = sent /\ answered' = answered + o.finished /\ Held' = 0
    BY <1>2, <1>6
  <2>3. o.finished <= sent - answered
    BY <1>3
  <2>. QED
    BY <2>1, <2>2, <2>3
<1>8. TypeInv'
  BY <1>1, <1>2, <1>3, <1>5, <1>7 DEF TypeInv
<1>9. LedgerInv'
  <2>1. active' + Coming' = last
    BY <1>2, <1>6 DEF last
  <2>. QED
    BY <1>3, <1>7, <2>1 DEF LedgerInv
<1>10. AnswersInv'
  <2>1. phase # "rollout" => sent' = answered'
    <3>1. ASSUME phase # "rollout"
          PROVE  o.finished = 0
      <4>1. sent = answered /\ sent \in Nat /\ o.finished \in Nat
        BY <1>1, <1>4, <3>1, NumberFacts DEF AnswersInv
      <4>. QED
        BY <1>3, <4>1
    <3>. QED
      BY <1>1, <1>2, <3>1, NumberFacts DEF AnswersInv
  <2>. QED
    BY <1>1, <1>2, <1>6, <2>1 DEF AnswersInv
<1>11. InboxInv' /\ RepliesInv'
  BY <1>1, <1>2, <1>3, TailFacts DEF InboxInv, RepliesInv
<1>12. GammaInv'
  <2>1. /\ phase' # "moving" => AllOfGamma(Pending', gamma')
        /\ phase' = "moving" => OfGammaSinceReply(Pending', gamma')
        /\ phase' # "moving" => o.gamma = gamma
    BY <1>1, <1>2, <1>3, TailFacts DEF GammaInv
  <2>. QED
    BY <1>1, <1>2, <1>5, <2>1 DEF GammaInv
<1>13. DraftsInv'
  <2>1. DraftsOfRequests(Pending')
    BY <1>1, <1>3, TailFacts DEF DraftsInv
  <2>2. phase # "rollout" => o.drafted = {}
    BY <1>3, QuietPhase
  <2>3. /\ phase' \in {"idle", "waking"} => acc'.drafted = {}
        /\ phase' = "waking" => verified' = {}
    BY <1>1, <1>2, <1>5, <2>2 DEF DraftsInv
  <2>4. ASSUME phase' \in {"rollout", "polling", "rechecking"}, NEW id \in StepIds
        PROVE  id \in verified' <=> \/ id \in acc'.drafted
                                    \/ handling' # NotHandling /\ id \in handling'.drafted
                                    \/ Brings(Pending', id)
    <3>1. id \in verified <=> id \in acc.drafted \/ Brings(Pending, id)
      BY <1>1, <1>2, <2>4 DEF DraftsInv
    <3>2. Brings(Pending, id) <=> id \in o.drafted \/ Brings(Pending', id)
      BY <1>3
    <3>. QED
      BY <3>1, <3>2, <1>2, <1>5
  <2>. QED
    BY <2>1, <2>3, <2>4 DEF DraftsInv
<1>14. SnapInv'
  BY <1>1, <1>2 DEF SnapInv, SnapshotIsExact, SnapshotGamma, Deciding
<1>. QED
  BY <1>8, <1>9, <1>10, <1>11, <1>12, <1>13, <1>14 DEF IInv

\* A slice holds ChunkSize answers at most, fewer than there are outputs: some request
\* stays unanswered until the last slice.
LEMMA HandleFirstSlicePreserves == IInv /\ HandleFirstSlice => IInv'
<1>. SUFFICES ASSUME IInv, HandleFirstSlice PROVE IInv'
  OBVIOUS
<1>. DEFINE o == Head(queue)
            last == active + Coming
<1>1. /\ TypeInv /\ LedgerInv /\ AnswersInv /\ InboxInv /\ RepliesInv /\ GammaInv
      /\ DraftsInv /\ SnapInv
  BY DEF IInv
<1>2. /\ queue # <<>> /\ handling = NotHandling /\ o.outputs > ChunkSize
      /\ queue' = Tail(queue)
      /\ UNCHANGED <<inbox, active, finishedIds, gamma, toggled, steps, wire, acc,
                     phase, rollout, sent, snap, rolloutGamma, verified, hasToggled>>
  BY DEF HandleFirstSlice, engineVars, historyVars
<1>3. PICK inSlice \in 0..o.finished :
        /\ inSlice <= ChunkSize
        /\ answered' = answered + inSlice
        /\ handling' = [o EXCEPT !.finished = @ - inSlice, !.outputs = @ - ChunkSize]
  BY DEF HandleFirstSlice
<1>4. /\ Pending \in Seq(Messages) /\ Pending # <<>> /\ Pending' = Tail(Pending)
      /\ queue' \in Seq(Outputs) /\ o \in Outputs /\ o = Head(Pending) /\ ~IsReply(o)
      /\ o.outputs <= sent - answered
      /\ Ledger(Pending', sent - answered - o.finished, last)
      /\ \A id : Brings(Pending, id) <=> id \in o.drafted \/ Brings(Pending', id)
  BY <1>2, HandledFacts
<1>. HIDE DEF o, last
<1>5. /\ o.finished \in Nat /\ o.finished <= MaxRequests /\ o.outputs \in Nat
      /\ o.outputs <= MaxRequests /\ o.drafted \in SUBSET StepIds /\ ChunkSize \in Nat
      /\ inSlice \in Nat /\ inSlice <= o.finished /\ answered \in Nat /\ sent \in Nat
  <2>1. o.finished \in 0..MaxRequests /\ o.outputs \in 0..MaxRequests /\ MaxRequests \in Nat
    BY <1>4, OutputFacts, BoundsAssumption
  <2>2. o.drafted \in SUBSET StepIds
    BY <1>4, OutputFacts
  <2>3. ChunkSize \in Nat /\ answered \in Nat /\ sent \in Nat
    BY <1>1, NumberFacts
  <2>4. o.finished \in Nat /\ inSlice \in Nat /\ inSlice <= o.finished
    BY <2>1, <1>3
  <2>. QED
    BY <2>1, <2>2, <2>3, <2>4
<1>6. o.finished - inSlice \in 0..MaxRequests /\ o.outputs - ChunkSize \in 0..MaxRequests
  BY <1>2, <1>5, NumberFacts, BoundsAssumption
<1>7. /\ handling' \in Outputs /\ handling'.finished = o.finished - inSlice
      /\ handling'.drafted = o.drafted /\ handling'.gamma = o.gamma
  BY <1>3, <1>4, <1>6 DEF Outputs
<1>8. handling' # NotHandling /\ Held' = o.finished - inSlice /\ Coming' = Coming
  BY <1>2, <1>7, OutputFacts DEF Held, Coming
<1>9. /\ answered' \in Nat /\ answered' < sent /\ answered < sent
      /\ sent' - answered' - Held' = sent - answered - o.finished
  <2>1. /\ sent' = sent /\ answered' = answered + inSlice
        /\ Held' = o.finished - inSlice
    BY <1>2, <1>3, <1>8
  <2>2. inSlice <= ChunkSize /\ o.outputs > ChunkSize /\ o.outputs <= sent - answered
    BY <1>2, <1>3, <1>4
  <2>. QED
    BY <2>1, <2>2, <1>5
<1>10. phase = "rollout"
  BY <1>5, <1>9, <1>1 DEF AnswersInv
<1>11. TypeInv'
  BY <1>1, <1>2, <1>4, <1>7, <1>9 DEF TypeInv
<1>12. LedgerInv'
  <2>1. active' + Coming' = last
    BY <1>2, <1>8 DEF last
  <2>. QED
    BY <1>4, <1>9, <2>1 DEF LedgerInv
<1>13. AnswersInv'
  BY <1>1, <1>2, <1>8, <1>9, <1>10 DEF AnswersInv
<1>14. InboxInv' /\ RepliesInv'
  BY <1>1, <1>2, <1>4, TailFacts DEF InboxInv, RepliesInv
<1>15. GammaInv'
  <2>1. AllOfGamma(Pending', gamma') /\ o.gamma = gamma
    BY <1>1, <1>2, <1>4, <1>10, TailFacts DEF GammaInv
  <2>. QED
    BY <1>1, <1>2, <1>7, <1>10, <2>1 DEF GammaInv
<1>16. DraftsInv'
  <2>1. DraftsOfRequests(Pending')
    BY <1>1, <1>4, TailFacts DEF DraftsInv
  <2>2. ASSUME NEW id \in StepIds
        PROVE  id \in verified' <=> \/ id \in acc'.drafted
                                    \/ handling' # NotHandling /\ id \in handling'.drafted
                                    \/ Brings(Pending', id)
    <3>1. id \in verified <=> id \in acc.drafted \/ Brings(Pending, id)
      BY <1>1, <1>2, <1>10 DEF DraftsInv
    <3>2. Brings(Pending, id) <=> id \in o.drafted \/ Brings(Pending', id)
      BY <1>4
    <3>. QED
      BY <3>1, <3>2, <1>2, <1>7, <1>8
  <2>. QED
    BY <1>2, <1>10, <2>1, <2>2 DEF DraftsInv
<1>17. SnapInv'
  BY <1>1, <1>2 DEF SnapInv, SnapshotIsExact, SnapshotGamma, Deciding
<1>. QED
  BY <1>11, <1>12, <1>13, <1>14, <1>15, <1>16, <1>17 DEF IInv

LEMMA HandleLastSlicePreserves == IInv /\ HandleLastSlice => IInv'
<1>. SUFFICES ASSUME IInv, HandleLastSlice PROVE IInv'
  OBVIOUS
<1>1. /\ TypeInv /\ LedgerInv /\ AnswersInv /\ InboxInv /\ RepliesInv /\ GammaInv
      /\ DraftsInv /\ SnapInv
  BY DEF IInv
<1>2. /\ handling # NotHandling /\ handling' = NotHandling
      /\ answered' = answered + handling.finished /\ Observe(handling)
      /\ UNCHANGED <<inbox, active, finishedIds, gamma, toggled, steps, wire, queue,
                     phase, rollout, sent, snap, rolloutGamma, verified, hasToggled>>
  BY DEF HandleLastSlice, engineVars, historyVars
<1>3. handling \in Outputs /\ Pending' = Pending
  BY <1>1, <1>2 DEF TypeInv, Pending
<1>4. phase = "rollout"
  BY <1>2, QuietPhase
<1>5. /\ acc' \in Stats /\ acc'.drafted = acc.drafted \cup handling.drafted
      /\ acc'.gamma = handling.gamma /\ handling.gamma # -1
  BY <1>1, <1>2, <1>3, ObserveFacts
<1>6. Held' = 0 /\ Held = handling.finished /\ Coming' = Coming
  BY <1>2 DEF Held, Coming
<1>7. handling.finished \in 0..MaxRequests
  BY <1>3, OutputFacts
<1>8. answered' \in Nat /\ sent' - answered' - Held' = sent - answered - Held
  <2>1. answered \in Nat /\ sent \in Nat /\ handling.finished \in Nat
    BY <1>1, <1>7, NumberFacts
  <2>. QED
    BY <2>1, <1>2, <1>6
<1>9. TypeInv'
  BY <1>1, <1>2, <1>5, <1>8 DEF TypeInv
<1>10. LedgerInv' /\ AnswersInv'
  BY <1>1, <1>2, <1>3, <1>4, <1>6, <1>8 DEF LedgerInv, AnswersInv
<1>11. InboxInv' /\ RepliesInv'
  BY <1>1, <1>2, <1>3 DEF InboxInv, RepliesInv
<1>12. GammaInv'
  BY <1>1, <1>2, <1>3, <1>4, <1>5 DEF GammaInv
<1>13. DraftsInv'
  <2>1. DraftsOfRequests(Pending')
    BY <1>1, <1>3 DEF DraftsInv
  <2>2. ASSUME NEW id \in StepIds
        PROVE  id \in verified' <=> \/ id \in acc'.drafted
                                    \/ handling' # NotHandling /\ id \in handling'.drafted
                                    \/ Brings(Pending', id)
    <3>1. id \in verified <=> \/ id \in acc.drafted \/ id \in handling.drafted
                              \/ Brings(Pending, id)
      BY <1>1, <1>2, <1>4 DEF DraftsInv
    <3>. QED
      BY <3>1, <1>2, <1>3, <1>5
  <2>. QED
    BY <1>2, <1>4, <2>1, <2>2 DEF DraftsInv
<1>14. SnapInv'
  BY <1>1, <1>2 DEF SnapInv, SnapshotIsExact, SnapshotGamma, Deciding
<1>. QED
  BY <1>9, <1>10, <1>11, <1>12, <1>13, <1>14 DEF IInv

-------------------------------------------------------------------------------
(* The snapshot.                                                           *)

\* The phase moves between polling and rechecking, nothing else does.
LEMMA PollPreserves ==
  ASSUME IInv, phase \in {"polling", "rechecking"}, phase' \in {"polling", "rechecking"},
         UNCHANGED <<engineVars, clientVars, rollout, sent, answered, snap, historyVars>>
  PROVE  IInv'
<1>1. /\ TypeInv /\ LedgerInv /\ AnswersInv /\ InboxInv /\ RepliesInv /\ GammaInv
      /\ DraftsInv /\ SnapInv
  BY DEF IInv
<1>2. UNCHANGED <<inbox, active, finishedIds, gamma, toggled, steps, wire, queue, handling,
                  acc, rollout, sent, answered, snap, rolloutGamma, verified, hasToggled>>
  BY DEF engineVars, clientVars, historyVars
<1>3. Pending' = Pending /\ Held' = Held /\ Coming' = Coming
  BY <1>2 DEF Pending, Held, Coming
<1>4. TypeInv' /\ LedgerInv' /\ AnswersInv'
  BY <1>1, <1>2, <1>3 DEF TypeInv, LedgerInv, AnswersInv
<1>5. InboxInv' /\ RepliesInv' /\ GammaInv' /\ DraftsInv'
  BY <1>1, <1>2, <1>3 DEF InboxInv, RepliesInv, GammaInv, DraftsInv
<1>6. SnapInv'
  BY DEF SnapInv, SnapshotIsExact, SnapshotGamma, Deciding
<1>. QED
  BY <1>1, <1>4, <1>5, <1>6 DEF IInv

\* Whatever is still in the queue, the accumulator has all drafts of the rollout.
LEMMA TakeSnapshotPreserves ==
  ASSUME IInv, phase \in {"polling", "rechecking"}, TakeSnapshot
  PROVE  IInv'
<1>1. /\ TypeInv /\ LedgerInv /\ AnswersInv /\ InboxInv /\ RepliesInv /\ GammaInv
      /\ DraftsInv /\ SnapInv
  BY DEF IInv
<1>2. /\ phase' = "deciding" /\ snap' = acc
      /\ UNCHANGED <<inbox, active, finishedIds, gamma, toggled, steps, wire, queue,
                     handling, acc, rollout, sent, answered, rolloutGamma, verified,
                     hasToggled>>
  BY DEF TakeSnapshot, engineVars, clientVars, historyVars
<1>3. Pending' = Pending /\ Held' = Held /\ Coming' = Coming
  BY <1>2 DEF Pending, Held, Coming
<1>4. handling = NotHandling /\ \A id : ~Brings(Pending, id)
  BY QuietPhase
<1>5. TypeInv' /\ LedgerInv' /\ AnswersInv'
  BY <1>1, <1>2, <1>3 DEF TypeInv, LedgerInv, AnswersInv
<1>6. InboxInv' /\ RepliesInv' /\ GammaInv' /\ DraftsInv'
  BY <1>1, <1>2, <1>3 DEF InboxInv, RepliesInv, GammaInv, DraftsInv
<1>7. SnapInv'
  <2>1. acc.drafted \subseteq StepIds /\ verified \subseteq StepIds
    BY <1>1 DEF TypeInv, Stats
  <2>2. ASSUME NEW id \in StepIds
        PROVE  id \in verified <=> id \in acc.drafted
    <3>1. id \in verified <=> \/ id \in acc.drafted
                              \/ handling # NotHandling /\ id \in handling.drafted
                              \/ Brings(Pending, id)
      BY <1>1 DEF DraftsInv
    <3>. QED
      BY <3>1, <1>4
  <2>3. acc.drafted = verified
    BY <2>1, <2>2
  <2>4. acc.gamma \in {-1, rolloutGamma} /\ (acc.drafted # {} => acc.gamma = rolloutGamma)
    BY <1>1 DEF GammaInv
  <2>. QED
    BY <1>2, <2>3, <2>4 DEF SnapInv, SnapshotIsExact, SnapshotGamma
<1>. QED
  BY <1>5, <1>6, <1>7 DEF IInv

-------------------------------------------------------------------------------
(* The trainer preserves it.                                               *)

LEMMA StartRolloutPreserves == IInv /\ StartRollout => IInv'
<1>. SUFFICES ASSUME IInv, StartRollout PROVE IInv'
  OBVIOUS
<1>1. /\ TypeInv /\ LedgerInv /\ AnswersInv /\ InboxInv /\ RepliesInv /\ GammaInv
      /\ DraftsInv /\ SnapInv
  BY DEF IInv
<1>2. /\ phase = "idle" /\ rollout < MaxRollouts /\ phase' = "waking"
      /\ rollout' = rollout + 1 /\ sent' = 0 /\ answered' = 0 /\ steps' = 0
      /\ inbox' = Append(inbox, WakeUp)
      /\ rolloutGamma' = gamma /\ verified' = {} /\ hasToggled' = FALSE
      /\ UNCHANGED <<active, finishedIds, gamma, toggled, wire, queue, handling, acc, snap>>
  BY DEF StartRollout, clientVars
<1>3. inbox = <<>> /\ inbox' = <<WakeUp>> /\ inbox' \in Seq(InMessages) /\ inbox' # <<>>
  BY <1>1, <1>2 DEF InboxInv, InMessages
<1>4. Pending' = Pending
  BY <1>2 DEF Pending
<1>5. /\ handling = NotHandling /\ active = 0 /\ Ledger(Pending, 0, 0)
      /\ Held' = 0 /\ Coming' = 0
  BY <1>2, QuietPhase DEF Held, Coming
<1>6. TypeInv'
  <2>1. rollout' \in 0..MaxRollouts /\ sent' \in 0..MaxRequests
    BY <1>1, <1>2, BoundsAssumption DEF TypeInv
  <2>. QED
    BY <1>1, <1>2, <1>3, <2>1 DEF TypeInv
<1>7. LedgerInv'
  <2>1. sent' - answered' - Held' = 0 /\ active' + Coming' = 0
    BY <1>2, <1>5
  <2>. QED
    BY <1>4, <1>5, <2>1 DEF LedgerInv
<1>8. AnswersInv'
  <2>1. rollout' \in 1..MaxRollouts
    BY <1>1, <1>2, BoundsAssumption DEF TypeInv
  <2>2. steps' + active' + Coming' <= MaxSteps + sent'
    BY <1>2, <1>5, BoundsAssumption
  <2>. QED
    BY <1>2, <1>5, <2>1, <2>2 DEF AnswersInv
<1>9. InboxInv'
  BY <1>2, <1>3 DEF InboxInv
<1>10. RepliesInv'
  BY <1>1, <1>2, <1>3, <1>4 DEF RepliesInv
<1>11. GammaInv' /\ DraftsInv'
  BY <1>1, <1>2, <1>4, <1>5 DEF GammaInv, DraftsInv
<1>12. SnapInv'
  BY <1>2 DEF SnapInv, SnapshotIsExact, SnapshotGamma, Deciding
<1>. QED
  BY <1>6, <1>7, <1>8, <1>9, <1>10, <1>11, <1>12 DEF IInv

LEMMA SendRequestPreserves == IInv /\ SendRequest => IInv'
<1>. SUFFICES ASSUME IInv, SendRequest PROVE IInv'
  OBVIOUS
<1>. DEFINE first == sent - answered - Held
            last == active + Coming
<1>1. /\ TypeInv /\ LedgerInv /\ AnswersInv /\ InboxInv /\ RepliesInv /\ GammaInv
      /\ DraftsInv /\ SnapInv
  BY DEF IInv
<1>2. /\ phase = "rollout" /\ sent < MaxRequests /\ sent' = sent + 1
      /\ inbox' = Append(inbox, Request)
      /\ UNCHANGED <<active, finishedIds, gamma, toggled, steps, wire, queue, handling, acc,
                     phase, rollout, answered, snap, rolloutGamma, verified, hasToggled>>
  BY DEF SendRequest, clientVars, historyVars
<1>3. Request \in InMessages
  BY DEF InMessages
<1>4. /\ inbox' \in Seq(InMessages) /\ Len(inbox') = Len(inbox) + 1
      /\ \A i \in 1..Len(inbox) : inbox'[i] = inbox[i]
      /\ inbox'[Len(inbox) + 1] = Request
  BY <1>1, <1>2, <1>3, AppendProperties DEF TypeInv
<1>5. Pending' = Pending /\ Held' = Held
  BY <1>2 DEF Pending, Held
<1>6. Len(inbox) \in Nat /\ Coming = Len(inbox) /\ Coming' = Len(inbox) + 1
  BY <1>1, <1>2, <1>4, NumberFacts DEF Coming
<1>7. /\ sent \in Nat /\ answered \in Nat /\ Held \in Nat /\ active \in Nat /\ steps \in Nat
      /\ MaxRequests \in Nat /\ MaxSteps \in Nat
  BY <1>1, NumberFacts
<1>8. TypeInv'
  <2>1. sent' \in 0..MaxRequests
    BY <1>2, <1>7
  <2>. QED
    BY <1>1, <1>2, <1>4, <2>1 DEF TypeInv
<1>9. LedgerInv'
  <2>1. Pending \in Seq(Messages) /\ Ledger(Pending, first, last)
    BY <1>1, PendingTyped DEF LedgerInv
  <2>2. first < MaxRequests
    BY <1>2, <1>7
  <2>3. sent' - answered' - Held' = first + 1 /\ active' + Coming' = last + 1
    <3>1. sent' = sent + 1 /\ answered' = answered /\ Held' = Held /\ active' = active
      BY <1>2, <1>5
    <3>. QED
      BY <3>1, <1>6, <1>7
  <2>. HIDE DEF first, last
  <2>4. Ledger(Pending, first + 1, last + 1)
    BY <2>1, <2>2, LedgerSent
  <2>. QED
    BY <1>5, <2>3, <2>4 DEF LedgerInv
<1>10. AnswersInv'
  <2>1. steps' + active' + Coming' <= MaxSteps + sent'
    <3>1. steps' = steps /\ active' = active /\ sent' = sent + 1
      BY <1>2
    <3>2. steps + active + Coming <= MaxSteps + sent
      BY <1>1 DEF AnswersInv
    <3>. QED
      BY <3>1, <3>2, <1>6, <1>7
  <2>2. handling' # NotHandling => answered' < sent'
    <3>1. sent' = sent + 1 /\ answered' = answered /\ handling' = handling
      BY <1>2
    <3>2. handling # NotHandling => answered < sent
      BY <1>1 DEF AnswersInv
    <3>. QED
      BY <3>1, <3>2, <1>7
  <2>. QED
    BY <1>1, <1>2, <2>1, <2>2 DEF AnswersInv
<1>11. InboxInv'
  <2>1. \A i \in 1..(Len(inbox) + 1) : i \in 1..Len(inbox) \/ i = Len(inbox) + 1
    BY <1>6
  <2>2. \A i \in 1..Len(inbox') : inbox'[i] = Request
    BY <1>1, <1>2, <1>4, <2>1 DEF InboxInv
  <2>. QED
    BY <1>2, <2>2 DEF InboxInv
<1>12. RepliesInv' /\ GammaInv' /\ DraftsInv'
  BY <1>1, <1>2, <1>5 DEF RepliesInv, GammaInv, DraftsInv
<1>13. SnapInv'
  BY <1>2 DEF SnapInv, SnapshotIsExact, SnapshotGamma, Deciding
<1>. QED
  BY <1>8, <1>9, <1>10, <1>11, <1>12, <1>13 DEF IInv

\* When all requests are answered none is on its way to the engine.
LEMMA AskForStatsPreserves == IInv /\ AskForStats => IInv'
<1>. SUFFICES ASSUME IInv, AskForStats PROVE IInv'
  OBVIOUS
<1>1. /\ TypeInv /\ LedgerInv /\ AnswersInv /\ InboxInv /\ RepliesInv /\ GammaInv
      /\ DraftsInv /\ SnapInv
  BY DEF IInv
<1>2. /\ phase = "rollout" /\ answered = sent /\ phase' = "polling"
      /\ UNCHANGED <<inbox, active, finishedIds, gamma, toggled, steps, wire, queue,
                     handling, acc, rollout, sent, answered, snap, rolloutGamma, verified,
                     hasToggled>>
  BY DEF AskForStats, engineVars, clientVars, historyVars
<1>3. /\ sent \in Nat /\ answered \in Nat /\ active \in Nat /\ Len(inbox) \in Nat
      /\ Coming = Len(inbox) /\ steps \in Nat
  BY <1>1, <1>2, NumberFacts DEF Coming
<1>4. handling = NotHandling /\ Held = 0
  BY <1>1, <1>2, <1>3 DEF AnswersInv, Held
<1>5. active = 0 /\ Len(inbox) = 0 /\ Ledger(Pending, 0, 0)
  <2>1. sent - answered - Held = 0
    BY <1>2, <1>3, <1>4
  <2>2. Ledger(Pending, 0, active + Coming) /\ Pending \in Seq(Messages)
    BY <1>1, <2>1, PendingTyped DEF LedgerInv
  <2>3. active + Coming \in 0..MaxRequests /\ active + Coming <= 0
    BY <2>2, LedgerBounds
  <2>4. active = 0 /\ Len(inbox) = 0
    BY <2>3, <1>3
  <2>. QED
    BY <2>2, <2>4, <1>3
<1>6. inbox = <<>>
  BY <1>1, <1>5, EmptySeq DEF TypeInv
<1>7. Pending' = Pending /\ Held' = 0 /\ Coming' = 0 /\ Coming = 0
  BY <1>2, <1>3, <1>4, <1>5 DEF Pending, Held, Coming
<1>8. TypeInv'
  BY <1>1, <1>2 DEF TypeInv
<1>9. LedgerInv'
  <2>1. sent' - answered' - Held' = 0 /\ active' + Coming' = 0
    BY <1>2, <1>3, <1>5, <1>7
  <2>. QED
    BY <1>5, <1>7, <2>1 DEF LedgerInv
<1>10. AnswersInv' /\ InboxInv' /\ RepliesInv'
  BY <1>1, <1>2, <1>6, <1>7 DEF AnswersInv, InboxInv, RepliesInv
<1>11. GammaInv' /\ DraftsInv'
  BY <1>1, <1>2, <1>7 DEF GammaInv, DraftsInv
<1>12. SnapInv'
  BY <1>2 DEF SnapInv, SnapshotIsExact, SnapshotGamma, Deciding
<1>. QED
  BY <1>8, <1>9, <1>10, <1>11, <1>12 DEF IInv

LEMMA MovePreserves ==
  ASSUME IInv, NEW g \in Gammas, Move(g)
  PROVE  IInv'
<1>1. /\ TypeInv /\ LedgerInv /\ AnswersInv /\ InboxInv /\ RepliesInv /\ GammaInv
      /\ DraftsInv /\ SnapInv
  BY DEF IInv
<1>2. /\ phase = "deciding" /\ phase' = "moving"
      /\ inbox' = Append(inbox, ForceSetGamma(g))
      /\ UNCHANGED <<active, finishedIds, gamma, toggled, steps, wire, queue, handling, acc,
                     rollout, sent, answered, snap, rolloutGamma, verified, hasToggled>>
  BY DEF Move, clientVars, historyVars
<1>3. inbox = <<>> /\ inbox' = <<ForceSetGamma(g)>> /\ inbox' # <<>>
      /\ inbox' \in Seq(InMessages)
  BY <1>1, <1>2 DEF InboxInv, InMessages
<1>4. Pending' = Pending /\ Held' = Held /\ Coming' = Coming
  BY <1>2 DEF Pending, Held, Coming
<1>5. handling = NotHandling
  BY <1>2, QuietPhase
<1>6. TypeInv'
  BY <1>1, <1>2, <1>3 DEF TypeInv
<1>7. LedgerInv' /\ AnswersInv'
  BY <1>1, <1>2, <1>4 DEF LedgerInv, AnswersInv
<1>8. InboxInv'
  BY <1>2, <1>3 DEF InboxInv
<1>9. RepliesInv'
  BY <1>1, <1>2, <1>3, <1>4 DEF RepliesInv
<1>10. GammaInv'
  <2>1. OfGammaSinceReply(Pending', gamma')
    BY <1>1, <1>2, <1>4, AllIsSinceReply DEF GammaInv
  <2>. QED
    BY <1>1, <1>2, <1>5, <2>1 DEF GammaInv
<1>11. DraftsInv' /\ SnapInv'
  BY <1>1, <1>2, <1>4
  DEF DraftsInv, SnapInv, SnapshotIsExact, SnapshotGamma, Deciding
<1>. QED
  BY <1>6, <1>7, <1>8, <1>9, <1>10, <1>11 DEF IInv

LEMMA StayPreserves == IInv /\ Stay => IInv'
<1>. SUFFICES ASSUME IInv, Stay PROVE IInv'
  OBVIOUS
<1>1. /\ TypeInv /\ LedgerInv /\ AnswersInv /\ InboxInv /\ RepliesInv /\ GammaInv
      /\ DraftsInv /\ SnapInv
  BY DEF IInv
<1>2. /\ phase = "deciding" /\ phase' = "resetting"
      /\ UNCHANGED <<inbox, active, finishedIds, gamma, toggled, steps, wire, queue,
                     handling, acc, rollout, sent, answered, snap, rolloutGamma, verified,
                     hasToggled>>
  BY DEF Stay, engineVars, clientVars, historyVars
<1>3. Pending' = Pending /\ Held' = Held /\ Coming' = Coming
  BY <1>2 DEF Pending, Held, Coming
<1>4. TypeInv' /\ LedgerInv' /\ AnswersInv' /\ InboxInv'
  BY <1>1, <1>2, <1>3 DEF TypeInv, LedgerInv, AnswersInv, InboxInv
<1>5. RepliesInv' /\ GammaInv' /\ DraftsInv' /\ SnapInv'
  BY <1>1, <1>2, <1>3
  DEF RepliesInv, GammaInv, DraftsInv, SnapInv, SnapshotIsExact, SnapshotGamma, Deciding
<1>. QED
  BY <1>4, <1>5 DEF IInv

LEMMA ResetStatsPreserves == IInv /\ ResetStats => IInv'
<1>. SUFFICES ASSUME IInv, ResetStats PROVE IInv'
  OBVIOUS
<1>1. /\ TypeInv /\ LedgerInv /\ AnswersInv /\ InboxInv /\ RepliesInv /\ GammaInv
      /\ DraftsInv /\ SnapInv
  BY DEF IInv
<1>2. /\ phase = "resetting" /\ phase' = "idle" /\ acc' = NoStats
      /\ UNCHANGED <<inbox, active, finishedIds, gamma, toggled, steps, wire, queue,
                     handling, rollout, sent, answered, snap, rolloutGamma, verified,
                     hasToggled>>
  BY DEF ResetStats, engineVars, historyVars
<1>3. Pending' = Pending /\ Held' = Held /\ Coming' = Coming
  BY <1>2 DEF Pending, Held, Coming
<1>4. acc' \in Stats /\ acc'.drafted = {} /\ acc'.gamma = -1
  BY <1>2 DEF NoStats, Stats
<1>5. TypeInv' /\ LedgerInv' /\ AnswersInv' /\ InboxInv'
  BY <1>1, <1>2, <1>3, <1>4 DEF TypeInv, LedgerInv, AnswersInv, InboxInv
<1>6. RepliesInv' /\ GammaInv' /\ DraftsInv'
  BY <1>1, <1>2, <1>3, <1>4 DEF RepliesInv, GammaInv, DraftsInv
<1>7. SnapInv'
  BY <1>2 DEF SnapInv, SnapshotIsExact, SnapshotGamma, Deciding
<1>. QED
  BY <1>5, <1>6, <1>7 DEF IInv

-------------------------------------------------------------------------------
(* Every step preserves it.                                                *)

LEMMA StutterPreserves ==
  ASSUME IInv, UNCHANGED vars
  PROVE  IInv'
<1>1. UNCHANGED <<inbox, active, finishedIds, gamma, toggled, steps, wire, queue, handling,
                  acc, phase, rollout, sent, answered, snap, rolloutGamma, verified,
                  hasToggled>>
  BY DEF vars, engineVars, clientVars, trainerVars, historyVars
<1>2. Pending' = Pending /\ Held' = Held /\ Coming' = Coming
  BY <1>1 DEF Pending, Held, Coming
<1>. QED
  BY <1>1, <1>2
  DEF IInv, TypeInv, LedgerInv, AnswersInv, InboxInv, RepliesInv, GammaInv, DraftsInv,
      SnapInv, SnapshotIsExact, SnapshotGamma, Deciding

LEMMA NextPreserves == IInv /\ [Next]_vars => IInv'
<1>. SUFFICES ASSUME IInv, [Next]_vars PROVE IInv'
  OBVIOUS
<1>1. CASE EngineReceives
  BY <1>1, EngineReceivesRequest, EngineReceivesUtility
<1>2. CASE EngineStep
  BY <1>2, EngineStepPreserves
<1>3. CASE ClientReceives
  BY <1>3, ClientReceivesOutput, ClientReceivesReply
<1>4. CASE HandleOutput
  BY <1>4, HandleOutputPreserves
<1>5. CASE HandleFirstSlice
  BY <1>5, HandleFirstSlicePreserves
<1>6. CASE HandleLastSlice
  BY <1>6, HandleLastSlicePreserves
<1>7. CASE CheckQueue
  BY <1>7, PollPreserves DEF CheckQueue
<1>8. CASE RecheckQueue
  <2>1. CASE phase = "rechecking" /\ queue = <<>> /\ TakeSnapshot
    BY <2>1, TakeSnapshotPreserves
  <2>2. CASE /\ phase = "rechecking" /\ queue # <<>>
             /\ phase' = "polling"
             /\ UNCHANGED <<engineVars, clientVars, rollout, sent, answered, snap,
                            historyVars>>
    BY <2>2, PollPreserves
  <2>. QED
    BY <1>8, <2>1, <2>2 DEF RecheckQueue
<1>9. CASE PollTimesOut
  BY <1>9, TakeSnapshotPreserves DEF PollTimesOut
<1>10. CASE StartRollout
  BY <1>10, StartRolloutPreserves
<1>11. CASE SendRequest
  BY <1>11, SendRequestPreserves
<1>12. CASE AskForStats
  BY <1>12, AskForStatsPreserves
<1>13. CASE \E g \in Gammas : Move(g)
  BY <1>13, MovePreserves
<1>14. CASE Stay
  BY <1>14, StayPreserves
<1>15. CASE ResetStats
  BY <1>15, ResetStatsPreserves
<1>16. CASE TrainingEnds
  BY <1>16, StutterPreserves DEF TrainingEnds
<1>17. CASE UNCHANGED vars
  BY <1>17, StutterPreserves
<1>. QED
  BY <1>1, <1>2, <1>3, <1>4, <1>5, <1>6, <1>7, <1>8, <1>9, <1>10, <1>11, <1>12, <1>13,
     <1>14, <1>15, <1>16, <1>17 DEF Next

\* The inductive invariant of the statistics path holds in every reachable state.
THEOREM InvHolds == Spec => []IInv
<1>1. Init => IInv
  BY InitIInv
<1>2. IInv /\ [Next]_vars => IInv'
  BY NextPreserves
<1>. QED
  BY <1>1, <1>2, PTL DEF Spec

LEMMA IInvTypes == IInv => TypeOK
<1>. SUFFICES ASSUME IInv PROVE TypeOK
  OBVIOUS
<1>1. TypeInv /\ LedgerInv /\ AnswersInv /\ Pending \in Seq(Messages)
  BY PendingTyped DEF IInv
<1>2. /\ active \in Nat /\ steps \in Nat /\ sent \in 0..MaxRequests /\ answered \in Nat
      /\ Coming \in Nat /\ Held \in Nat /\ MaxRequests \in Nat /\ MaxSteps \in Nat
  BY <1>1, NumberFacts DEF TypeInv
<1>3. /\ sent - answered - Held \in 0..MaxRequests
      /\ active + Coming \in 0..MaxRequests
  BY <1>1, LedgerBounds DEF LedgerInv
<1>4. active \in 0..MaxRequests /\ answered \in 0..sent
  BY <1>2, <1>3
<1>5. steps \in 0..(MaxSteps + MaxRequests)
  <2>1. steps + active + Coming <= MaxSteps + sent
    BY <1>1 DEF AnswersInv
  <2>. QED
    BY <2>1, <1>2
<1>6. /\ \A i \in DOMAIN wire : wire[i] \in Outputs \cup {UtilityReply}
      /\ \A i \in DOMAIN queue : queue[i] \in Outputs
  BY <1>1, LenProperties DEF TypeInv, Messages
<1>. QED
  BY <1>1, <1>2, <1>4, <1>5, <1>6 DEF TypeOK, TypeInv

\* Type correctness of the statistics path: the engine never holds more requests than the
\* trainer has sent, and never answers more (output_handler's answers are the requests').
THEOREM TypeCorrect == Spec => []TypeOK
<1>1. IInv => TypeOK
  BY IInvTypes
<1>. QED
  BY <1>1, InvHolds, PTL

\* The snapshot that get_sd_stats hands to the trainer counts all drafts of the rollout
\* and no others, even if the wait for the queue times out.
THEOREM SnapshotCorrect == Spec => []SnapshotIsExact
<1>1. IInv => SnapshotIsExact
  BY DEF IInv, SnapInv
<1>. QED
  BY <1>1, InvHolds, PTL

\* The gamma in the snapshot is that of the rollout, whatever force_set_gamma did before
\* and whatever statistics were late.
THEOREM SnapshotGammaCorrect == Spec => []SnapshotGamma
<1>1. IInv => SnapshotGamma
  BY DEF IInv, SnapInv
<1>. QED
  BY <1>1, InvHolds, PTL
===============================================================================
