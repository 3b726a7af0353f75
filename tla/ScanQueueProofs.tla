---------------------------- MODULE ScanQueueProofs ----------------------------
(***************************************************************************)
(* Proofs about the scan queue, for any number of requests and consumers and  *)
(* any capacity.  The inductive invariant is the conjunction of the named     *)
(* parts of ScanQueue and of HeldWasReceived, which ties what the consumers   *)
(* hold to what left the channel.                                             *)
(***************************************************************************)
EXTENDS ScanQueue, SequenceTheorems, FiniteSetTheorems, TLAPS

\* The type invariant: the state of the queue keeps its shape, and a consumer
\* holds a request exactly between the receive and its return from Dequeue.
THEOREM QueueTyping == QueueSpec => []QueueTypeOK
<1>1. QueueInit => QueueTypeOK
  <2> SUFFICES ASSUME QueueInit
               PROVE  QueueTypeOK
    OBVIOUS
  <2>1. <<>> \in Seq(Requests)
    BY EmptySeq
  <2>2. /\ enq \in [Requests -> EnqStates]
        /\ deq \in [Consumers -> DeqStates]
        /\ held \in [Consumers -> Requests \cup {NoRequest}]
        /\ \A c \in Consumers : held[c] # NoRequest <=> deq[c] \in {"received", "returned"}
    BY DEF QueueInit, EnqStates, DeqStates
  <2>3. /\ closed \in BOOLEAN
        /\ done \subseteq Requests \cup Consumers
        /\ depth \in Int
    <3>1. closed \in BOOLEAN
      BY DEF QueueInit
    <3>2. done \subseteq Requests \cup Consumers
      BY DEF QueueInit
    <3>3. depth \in Int
      BY DEF QueueInit
    <3>4. QED
      BY <3>1, <3>2, <3>3
  <2>4. /\ queue \in Seq(Requests)
        /\ sent \in Seq(Requests)
        /\ received \in Seq(Requests)
    BY <2>1 DEF QueueInit
  <2>5. QED
    BY <2>2, <2>3, <2>4 DEF QueueTypeOK
<1>2. QueueTypeOK /\ [QueueNext]_queueVars => QueueTypeOK'
  <2> SUFFICES ASSUME QueueTypeOK, [QueueNext]_queueVars
               PROVE  QueueTypeOK'
    OBVIOUS
  <2> USE QueueAssumption DEF QueueTypeOK, EnqStates, DeqStates, DeqErrors, Rejections
  <2>1. ASSUME NEW r \in Requests, EnqueueStep(r)
        PROVE  QueueTypeOK'
    <3>1. CASE EnqueueCheck(r)
      BY <3>1 DEF EnqueueCheck, EnqueueMoves
    <3>2. CASE EnqueueSend(r)
      BY <3>2 DEF EnqueueSend, EnqueueMoves
    <3>3. ASSUME NEW c \in Consumers, EnqueueHandOff(r, c)
          PROVE  QueueTypeOK'
      BY <3>3 DEF EnqueueHandOff, EnqueueMoves, Parked
    <3>4. CASE EnqueuePanic(r)
      BY <3>4 DEF EnqueuePanic, EnqueueMoves
    <3>5. CASE EnqueueCancelled(r)
      BY <3>5 DEF EnqueueCancelled, EnqueueMoves
    <3>6. CASE EnqueueFull(r)
      BY <3>6 DEF EnqueueFull, EnqueueMoves
    <3>7. CASE EnqueueCount(r)
      BY <3>7 DEF EnqueueCount, EnqueueMoves
    <3>8. QED
      BY <2>1, <3>1, <3>2, <3>3, <3>4, <3>5, <3>6, <3>7 DEF EnqueueStep
  <2>2. ASSUME NEW c \in Consumers, DequeueStep(c)
        PROVE  QueueTypeOK'
    <3>1. CASE DequeueReceive(c)
      <4>1. /\ Head(queue) \in Requests
            /\ Tail(queue) \in Seq(Requests)
        BY <3>1, HeadTailProperties DEF DequeueReceive
      <4>2. QED
        BY <3>1, <4>1 DEF DequeueReceive, DequeueMoves
    <3>2. CASE DequeuePark(c)
      BY <3>2 DEF DequeuePark, DequeueMoves
    <3>3. CASE DequeueClosed(c)
      BY <3>3 DEF DequeueClosed, DequeueMoves
    <3>4. CASE DequeueCancelled(c)
      BY <3>4 DEF DequeueCancelled, DequeueMoves
    <3>5. CASE DequeueCount(c)
      BY <3>5 DEF DequeueCount, DequeueMoves
    <3>6. QED
      BY <2>2, <3>1, <3>2, <3>3, <3>4, <3>5 DEF DequeueStep
  <2>3. ASSUME NEW c \in Consumers, DequeueReturn(c)
        PROVE  QueueTypeOK'
    BY <2>3 DEF DequeueReturn
  <2>4. CASE Close
    BY <2>4 DEF Close, WakeParked, Parked
  <2>5. ASSUME NEW C \in SUBSET Consumers, CancelConsumers(C)
        PROVE  QueueTypeOK'
    BY <2>5 DEF CancelConsumers, WakeParked, Parked
  <2>6. ASSUME NEW r \in Requests, CancelEnqueue(r)
        PROVE  QueueTypeOK'
    BY <2>6 DEF CancelEnqueue
  <2>7. CASE UNCHANGED queueVars
    BY <2>7 DEF queueVars
  <2>8. QED
    BY <2>1, <2>2, <2>3, <2>4, <2>5, <2>6, <2>7 DEF QueueNext
<1>3. QED
  BY <1>1, <1>2, PTL DEF QueueSpec

\* Moving the head of q to the end of s leaves their concatenation alone.
LEMMA MoveHead ==
  ASSUME NEW S, NEW s \in Seq(S), NEW q \in Seq(S), q # <<>>
  PROVE  Append(s, Head(q)) \o Tail(q) = s \o q
<1>1. /\ Head(q) \in S /\ Tail(q) \in Seq(S) /\ Len(Tail(q)) = Len(q) - 1
      /\ \A i \in 1 .. Len(Tail(q)) : Tail(q)[i] = q[i+1]
      /\ Head(q) = q[1]
  BY HeadTailProperties
<1> DEFINE a == Append(s, Head(q))
<1>2. /\ a \in Seq(S) /\ Len(a) = Len(s) + 1
      /\ \A i \in 1 .. Len(s) : a[i] = s[i]
      /\ a[Len(s) + 1] = q[1]
  BY <1>1, AppendProperties
<1> HIDE DEF a
<1>3. /\ a \o Tail(q) \in Seq(S)
      /\ Len(a \o Tail(q)) = Len(a) + Len(Tail(q))
      /\ \A i \in 1 .. Len(a) + Len(Tail(q)) :
            (a \o Tail(q))[i] = IF i <= Len(a) THEN a[i] ELSE Tail(q)[i - Len(a)]
  BY <1>1, <1>2, ConcatProperties
<1>4. /\ s \o q \in Seq(S)
      /\ Len(s \o q) = Len(s) + Len(q)
      /\ \A i \in 1 .. Len(s) + Len(q) :
            (s \o q)[i] = IF i <= Len(s) THEN s[i] ELSE q[i - Len(s)]
  BY ConcatProperties
<1>5. Len(s) \in Nat /\ Len(q) \in Nat
  BY LenProperties
<1>6. Len(a \o Tail(q)) = Len(s \o q)
  BY <1>1, <1>2, <1>3, <1>4, <1>5
<1>7. ASSUME NEW i \in 1 .. Len(s) + Len(q)
      PROVE  (a \o Tail(q))[i] = (s \o q)[i]
  <2>1. CASE i <= Len(s)
    BY <1>1, <1>2, <1>3, <1>4, <1>5, <2>1
  <2>2. CASE i = Len(s) + 1
    BY <1>1, <1>2, <1>3, <1>4, <1>5, <2>2
  <2>3. CASE i > Len(s) + 1
    <3>1. i - Len(a) \in 1 .. Len(Tail(q))
      BY <1>1, <1>2, <1>4, <1>5, <2>3
    <3>2. Tail(q)[i - Len(a)] = q[i - Len(s)]
      BY <1>1, <1>2, <1>5, <3>1
    <3>3. QED
      BY <1>1, <1>2, <1>3, <1>4, <1>5, <2>3, <3>1, <3>2
  <2>4. i <= Len(s) \/ i = Len(s) + 1 \/ i > Len(s) + 1
    BY <1>5
  <2>5. QED
    BY <2>1, <2>2, <2>3, <2>4
<1>8. QED
  BY <1>3, <1>4, <1>6, <1>7, SeqEqual DEF a

\* Appending to the second part of a concatenation appends to the whole.
LEMMA AppendAfterConcat ==
  ASSUME NEW S, NEW s \in Seq(S), NEW q \in Seq(S), NEW x \in S
  PROVE  s \o Append(q, x) = Append(s \o q, x)
<1>1. <<x>> \in Seq(S) /\ s \o q \in Seq(S)
  BY ConcatProperties
<1>2. Append(s \o q, x) = (s \o q) \o <<x>>
  BY <1>1, AppendIsConcat
<1>3. (s \o q) \o <<x>> = s \o (q \o <<x>>)
  BY <1>1, ConcatAssociative
<1>4. Append(q, x) = q \o <<x>>
  BY AppendIsConcat
<1>5. QED
  BY <1>2, <1>3, <1>4

\* Appending a new element keeps a sequence free of repetitions.
LEMMA AppendFresh ==
  ASSUME NEW S, NEW s \in Seq(S), NEW x \in S, IsInjective(s), x \notin Range(s)
  PROVE  IsInjective(Append(s, x)) /\ Range(Append(s, x)) = Range(s) \cup {x}
<1> DEFINE a == Append(s, x)
<1>1. /\ Len(s) \in Nat /\ DOMAIN s = 1 .. Len(s)
      /\ DOMAIN a = 1 .. Len(s) + 1
      /\ \A i \in 1 .. Len(s) : a[i] = s[i]
      /\ a[Len(s) + 1] = x
  BY AppendProperties, LenProperties
<1> HIDE DEF a
<1>2. \A i \in DOMAIN a : i = Len(s) + 1 \/ (i \in DOMAIN s /\ a[i] = s[i])
  BY <1>1
<1>3. IsInjective(a)
  BY <1>1, <1>2 DEF IsInjective, Range
<1>4. Range(a) = Range(s) \cup {x}
  BY <1>1, <1>2 DEF Range
<1>5. QED
  BY <1>3, <1>4 DEF a

\* The steps that move requests; every other step leaves the channel alone.
LEMMA ChannelSteps ==
  ASSUME [QueueNext]_queueVars
  PROVE  \/ \E r \in Requests : EnqueueSend(r)
         \/ \E r \in Requests, c \in Consumers : EnqueueHandOff(r, c)
         \/ \E c \in Consumers : DequeueReceive(c)
         \/ UNCHANGED <<queue, sent, received>>
BY DEF QueueNext, queueVars, EnqueueStep, DequeueStep, EnqueueCheck, EnqueuePanic,
       EnqueueCancelled, EnqueueFull, EnqueueCount, DequeuePark, DequeueClosed,
       DequeueCancelled, DequeueCount, DequeueReturn, CancelConsumers, CancelEnqueue, Close

\* The steps that can end or begin a wait, close the queue or cancel a consumer.
LEMMA ParkingSteps ==
  ASSUME [QueueNext]_queueVars
  PROVE  \/ \E r \in Requests : EnqueueSend(r)
         \/ \E r \in Requests, c \in Consumers : EnqueueHandOff(r, c)
         \/ \E c \in Consumers : DequeueStep(c)
         \/ \E c \in Consumers : DequeueReturn(c)
         \/ Close
         \/ \E C \in SUBSET Consumers : CancelConsumers(C)
         \/ \E r \in Requests : CancelEnqueue(r)
         \/ UNCHANGED <<queue, closed, deq, done>>
BY DEF QueueNext, queueVars, EnqueueStep, EnqueueCheck, EnqueuePanic,
       EnqueueCancelled, EnqueueFull, EnqueueCount

\* No lost wakeup: a consumer is parked only while its queue is empty and open
\* and its context live, because every send, Close and cancellation wakes it.
THEOREM NoLostWakeup == QueueSpec => []ParkedHasNothingToDo
<1>1. QueueInit => ParkedHasNothingToDo
  BY DEF QueueInit, ParkedHasNothingToDo, Parked
<1>2. QueueTypeOK /\ ParkedHasNothingToDo /\ [QueueNext]_queueVars => ParkedHasNothingToDo'
  <2> SUFFICES ASSUME QueueTypeOK, ParkedHasNothingToDo, [QueueNext]_queueVars
               PROVE  ParkedHasNothingToDo'
    OBVIOUS
  <2> USE QueueAssumption DEF ParkedHasNothingToDo, Parked, QueueTypeOK
  <2>1. ASSUME NEW r \in Requests, EnqueueSend(r)
        PROVE  ParkedHasNothingToDo'
    BY <2>1 DEF EnqueueSend
  <2>2. ASSUME NEW r \in Requests, NEW c \in Consumers, EnqueueHandOff(r, c)
        PROVE  ParkedHasNothingToDo'
    BY <2>2 DEF EnqueueHandOff
  <2>3. ASSUME NEW c \in Consumers, DequeueStep(c)
        PROVE  ParkedHasNothingToDo'
    BY <2>3 DEF DequeueStep, DequeueMoves, DequeueReceive, DequeuePark, DequeueClosed,
                DequeueCancelled, DequeueCount
  <2>4. ASSUME NEW c \in Consumers, DequeueReturn(c)
        PROVE  ParkedHasNothingToDo'
    BY <2>4 DEF DequeueReturn
  <2>5. CASE Close
    BY <2>5 DEF Close, WakeParked
  <2>6. ASSUME NEW C \in SUBSET Consumers, CancelConsumers(C)
        PROVE  ParkedHasNothingToDo'
    BY <2>6 DEF CancelConsumers, WakeParked
  <2>7. ASSUME NEW r \in Requests, CancelEnqueue(r)
        PROVE  ParkedHasNothingToDo'
    BY <2>7 DEF CancelEnqueue
  <2>8. CASE UNCHANGED <<queue, closed, deq, done>>
    BY <2>8
  <2>9. QED
    BY <2>1, <2>2, <2>3, <2>4, <2>5, <2>6, <2>7, <2>8, ParkingSteps
<1>3. QED
  BY <1>1, <1>2, QueueTyping, PTL DEF QueueSpec

\* Dequeue reports a closed queue only when nothing accepted is left in it.
THEOREM DrainedBeforeClosed == QueueSpec => []ClosedMeansDrained
<1>1. QueueInit => ClosedMeansDrained
  BY DEF QueueInit, ClosedMeansDrained
<1>2. QueueTypeOK /\ ParkedHasNothingToDo /\ ClosedMeansDrained /\ [QueueNext]_queueVars
        => ClosedMeansDrained'
  <2> SUFFICES ASSUME QueueTypeOK, ParkedHasNothingToDo, ClosedMeansDrained,
                      [QueueNext]_queueVars
               PROVE  ClosedMeansDrained'
    OBVIOUS
  <2> USE DEF ClosedMeansDrained, QueueTypeOK
  <2>1. ASSUME NEW r \in Requests, EnqueueSend(r)
        PROVE  ClosedMeansDrained'
    BY <2>1 DEF EnqueueSend
  <2>2. ASSUME NEW r \in Requests, NEW c \in Consumers, EnqueueHandOff(r, c)
        PROVE  ClosedMeansDrained'
    BY <2>2 DEF EnqueueHandOff
  <2>3. ASSUME NEW c \in Consumers, DequeueStep(c)
        PROVE  ClosedMeansDrained'
    BY <2>3 DEF DequeueStep, DequeueMoves, DequeueReceive, DequeuePark, DequeueClosed,
                DequeueCancelled, DequeueCount
  <2>4. ASSUME NEW c \in Consumers, DequeueReturn(c)
        PROVE  ClosedMeansDrained'
    BY <2>4 DEF DequeueReturn
  <2>5. CASE Close
    BY <2>5 DEF Close, WakeParked, Parked, ParkedHasNothingToDo
  <2>6. ASSUME NEW C \in SUBSET Consumers, CancelConsumers(C)
        PROVE  ClosedMeansDrained'
    BY <2>6 DEF CancelConsumers, WakeParked, Parked
  <2>7. ASSUME NEW r \in Requests, CancelEnqueue(r)
        PROVE  ClosedMeansDrained'
    BY <2>7 DEF CancelEnqueue
  <2>8. CASE UNCHANGED <<queue, closed, deq, done>>
    BY <2>8
  <2>9. QED
    BY <2>1, <2>2, <2>3, <2>4, <2>5, <2>6, <2>7, <2>8, ParkingSteps
<1>3. QED
  BY <1>1, <1>2, QueueTyping, NoLostWakeup, PTL DEF QueueSpec

\* First in, first out, nothing lost.  A hand-off does not overtake, because a
\* consumer is parked only while the buffer is empty.
THEOREM FirstInFirstOut == QueueSpec => []FifoOrder
<1>1. QueueInit => FifoOrder
  <2>1. <<>> \in Seq(Requests)
    BY EmptySeq
  <2>2. <<>> \o <<>> = <<>>
    BY <2>1, ConcatEmptySeq
  <2>3. QED
    BY <2>2 DEF QueueInit, FifoOrder
<1>2. QueueTypeOK /\ ParkedHasNothingToDo /\ FifoOrder /\ [QueueNext]_queueVars => FifoOrder'
  <2> SUFFICES ASSUME QueueTypeOK, ParkedHasNothingToDo, FifoOrder, [QueueNext]_queueVars
               PROVE  FifoOrder'
    OBVIOUS
  <2>0. received \in Seq(Requests) /\ queue \in Seq(Requests)
    BY DEF QueueTypeOK
  <2>a. sent = received \o queue
    BY DEF FifoOrder
  <2>1. ASSUME NEW r \in Requests, EnqueueSend(r)
        PROVE  FifoOrder'
    <3>1. received \o Append(queue, r) = Append(received \o queue, r)
      BY <2>0, AppendAfterConcat
    <3>2. QED
      BY <2>a, <2>1, <3>1 DEF EnqueueSend, FifoOrder
  <2>2. ASSUME NEW r \in Requests, NEW c \in Consumers, EnqueueHandOff(r, c)
        PROVE  FifoOrder'
    <3>1. queue = <<>>
      BY <2>2 DEF EnqueueHandOff, ParkedHasNothingToDo
    <3>2. sent = received /\ Append(received, r) \in Seq(Requests)
      BY <2>0, <2>a, <3>1, ConcatEmptySeq, AppendProperties
    <3>3. Append(received, r) \o <<>> = Append(received, r)
      BY <3>2, ConcatEmptySeq
    <3>4. QED
      BY <2>2, <3>1, <3>2, <3>3 DEF EnqueueHandOff, FifoOrder
  <2>3. ASSUME NEW c \in Consumers, DequeueReceive(c)
        PROVE  FifoOrder'
    <3>1. Append(received, Head(queue)) \o Tail(queue) = received \o queue
      BY <2>0, <2>3, MoveHead DEF DequeueReceive
    <3>2. QED
      BY <2>a, <2>3, <3>1 DEF DequeueReceive, FifoOrder
  <2>4. CASE UNCHANGED <<queue, sent, received>>
    BY <2>4 DEF FifoOrder
  <2>5. QED
    BY <2>1, <2>2, <2>3, <2>4, ChannelSteps
<1>3. QED
  BY <1>1, <1>2, QueueTyping, NoLostWakeup, PTL DEF QueueSpec

\* The steps of Enqueue; every other step leaves its states and sent alone.
LEMMA EnqueueSteps ==
  ASSUME [QueueNext]_queueVars
  PROVE  (\E r \in Requests : EnqueueStep(r)) \/ UNCHANGED <<enq, sent>>
BY DEF QueueNext, queueVars, DequeueStep, DequeueReceive, DequeuePark, DequeueClosed,
       DequeueCancelled, DequeueCount, DequeueReturn, CancelConsumers, CancelEnqueue, Close

\* A request enters the channel once, and exactly if Enqueue returns nil for it:
\* an error never hides a request that will be scanned all the same.
THEOREM AcceptedOnce == QueueSpec => []AcceptedExactlyOnce
<1>1. QueueInit => AcceptedExactlyOnce
  BY DEF QueueInit, AcceptedExactlyOnce, IsInjective, Range
<1>2. QueueTypeOK /\ AcceptedExactlyOnce /\ [QueueNext]_queueVars => AcceptedExactlyOnce'
  <2> SUFFICES ASSUME QueueTypeOK, AcceptedExactlyOnce, [QueueNext]_queueVars
               PROVE  AcceptedExactlyOnce'
    OBVIOUS
  <2>1. ASSUME NEW r \in Requests, EnqueueStep(r)
        PROVE  AcceptedExactlyOnce'
    <3>1. CASE sent' = Append(sent, r) /\ enq[r] = "checked" /\ enq' = [enq EXCEPT ![r] = "sent"]
      <4>1. sent \in Seq(Requests) /\ IsInjective(sent) /\ r \notin Range(sent)
        BY <3>1 DEF AcceptedExactlyOnce, QueueTypeOK
      <4>2. IsInjective(sent') /\ Range(sent') = Range(sent) \cup {r}
        BY <3>1, <4>1, AppendFresh
      <4>3. {q \in Requests : enq'[q] \in {"sent", "accepted"}}
              = {q \in Requests : enq[q] \in {"sent", "accepted"}} \cup {r}
        BY <3>1 DEF QueueTypeOK
      <4>4. QED
        BY <4>2, <4>3 DEF AcceptedExactlyOnce
    <3>2. CASE /\ UNCHANGED sent
               /\ \E to \in EnqStates : enq' = [enq EXCEPT ![r] = to]
               /\ \/ enq[r] \in {"idle", "checked"} /\ enq'[r] \in {"checked"} \cup Rejections
                  \/ enq[r] = "sent" /\ enq'[r] = "accepted"
      <4>1. {q \in Requests : enq'[q] \in {"sent", "accepted"}}
              = {q \in Requests : enq[q] \in {"sent", "accepted"}}
        BY <3>2 DEF QueueTypeOK, Rejections
      <4>2. QED
        BY <3>2, <4>1 DEF AcceptedExactlyOnce
    <3>3. QED
      BY <2>1, <3>1, <3>2 DEF EnqueueStep, EnqueueMoves, EnqueueCheck, EnqueueSend,
            EnqueueHandOff, EnqueuePanic, EnqueueCancelled, EnqueueFull, EnqueueCount,
            QueueTypeOK, EnqStates, Rejections
  <2>2. CASE UNCHANGED <<enq, sent>>
    BY <2>2 DEF AcceptedExactlyOnce
  <2>3. QED
    BY <2>1, <2>2, EnqueueSteps
<1>3. QED
  BY <1>1, <1>2, QueueTyping, PTL DEF QueueSpec

\* What the runs check of the queue as one invariant: its types, that it is first in, first
\* out and loses nothing, and that a request is in it exactly if Enqueue says so.
THEOREM QueueInvariant == QueueSpec => []QueueInv
BY QueueTyping, FirstInFirstOut, AcceptedOnce, PTL DEF QueueInv

\* The next request to leave the channel has not left it before.
LEMMA HeadIsNew ==
  ASSUME QueueTypeOK, FifoOrder, AcceptedExactlyOnce, queue # <<>>
  PROVE  Head(queue) \notin Range(received)
<1>1. /\ received \in Seq(Requests) /\ queue \in Seq(Requests)
      /\ IsInjective(received \o queue)
  BY DEF QueueTypeOK, FifoOrder, AcceptedExactlyOnce
<1>2. /\ Len(received) \in Nat /\ Len(queue) \in Nat \ {0}
      /\ DOMAIN received = 1 .. Len(received)
      /\ Head(queue) = queue[1]
  BY <1>1, LenProperties, EmptySeq
<1>3. /\ DOMAIN (received \o queue) = 1 .. Len(received) + Len(queue)
      /\ \A i \in 1 .. Len(received) + Len(queue) : (received \o queue)[i] =
            IF i <= Len(received) THEN received[i] ELSE queue[i - Len(received)]
  BY <1>1, ConcatProperties, LenProperties
<1>4. (received \o queue)[Len(received) + 1] = Head(queue)
  BY <1>2, <1>3
<1>5. ASSUME NEW i \in DOMAIN received, received[i] = Head(queue)
      PROVE  FALSE
  <2>1. (received \o queue)[i] = Head(queue) /\ i # Len(received) + 1
    BY <1>2, <1>3, <1>5
  <2>2. i \in DOMAIN (received \o queue) /\ Len(received) + 1 \in DOMAIN (received \o queue)
    BY <1>2, <1>3
  <2>3. QED
    BY <1>1, <1>4, <2>1, <2>2 DEF IsInjective
<1>6. QED
  BY <1>5 DEF Range

\* Nothing leaves the channel that did not enter it.
LEMMA ReceivedWasSent ==
  ASSUME QueueTypeOK, FifoOrder
  PROVE  Range(received) \subseteq Range(sent)
<1>1. received \in Seq(Requests) /\ queue \in Seq(Requests)
  BY DEF QueueTypeOK
<1>2. /\ Len(received) \in Nat /\ Len(queue) \in Nat
      /\ DOMAIN received = 1 .. Len(received)
      /\ DOMAIN (received \o queue) = 1 .. Len(received) + Len(queue)
      /\ \A i \in 1 .. Len(received) + Len(queue) : (received \o queue)[i] =
            IF i <= Len(received) THEN received[i] ELSE queue[i - Len(received)]
  BY <1>1, ConcatProperties, LenProperties
<1>3. \A i \in DOMAIN received :
        i \in DOMAIN (received \o queue) /\ (received \o queue)[i] = received[i]
  BY <1>2
<1>4. QED
  BY <1>3 DEF Range, FifoOrder

\* The steps that change what the consumers hold.
LEMMA HoldingSteps ==
  ASSUME [QueueNext]_queueVars
  PROVE  \/ \E r \in Requests, c \in Consumers : EnqueueHandOff(r, c)
         \/ \E c \in Consumers : DequeueReceive(c)
         \/ \E c \in Consumers : DequeueReturn(c)
         \/ UNCHANGED <<held, received>>
BY DEF QueueNext, queueVars, EnqueueStep, DequeueStep, EnqueueCheck, EnqueueSend,
       EnqueuePanic, EnqueueCancelled, EnqueueFull, EnqueueCount, DequeuePark,
       DequeueClosed, DequeueCancelled, DequeueCount, CancelConsumers, CancelEnqueue, Close

\* A request is in the hands of one consumer at most: it leaves the channel once,
\* and who takes it held nothing before.
THEOREM OneHolder == QueueSpec => [](NoSharedRequest /\ HeldWasReceived)
<1> DEFINE Holding == NoSharedRequest /\ HeldWasReceived
<1>1. QueueInit => Holding
  BY DEF QueueInit, NoSharedRequest, HeldWasReceived
<1>2. QueueTypeOK /\ FifoOrder /\ AcceptedExactlyOnce /\ Holding /\ [QueueNext]_queueVars
        => Holding'
  <2> SUFFICES ASSUME QueueTypeOK, FifoOrder, AcceptedExactlyOnce, Holding,
                      [QueueNext]_queueVars
               PROVE  Holding'
    OBVIOUS
  <2>1. ASSUME NEW c \in Consumers, NEW x \in Requests, x \notin Range(received),
               held' = [held EXCEPT ![c] = x], received' = Append(received, x)
        PROVE  Holding'
    <3>1. Range(received') = Range(received) \cup {x}
      <4>1. received \in Seq(Requests)
        BY DEF QueueTypeOK
      <4>2. /\ DOMAIN received = 1 .. Len(received) /\ Len(received) \in Nat
            /\ DOMAIN received' = 1 .. Len(received) + 1
            /\ \A i \in 1 .. Len(received) : received'[i] = received[i]
            /\ received'[Len(received) + 1] = x
        BY <2>1, <4>1, AppendProperties, LenProperties
      <4>3. \A i \in DOMAIN received' :
              i = Len(received) + 1 \/ (i \in DOMAIN received /\ received'[i] = received[i])
        BY <4>2
      <4>4. QED
        BY <4>2, <4>3 DEF Range
    <3>2. QED
      BY <2>1, <3>1 DEF NoSharedRequest, HeldWasReceived, QueueTypeOK
  <2>2. ASSUME NEW r \in Requests, NEW c \in Consumers, EnqueueHandOff(r, c)
        PROVE  Holding'
    <3>1. r \notin Range(sent)
      BY <2>2 DEF EnqueueHandOff, EnqueueMoves, AcceptedExactlyOnce
    <3>2. Range(received) \subseteq Range(sent)
      BY ReceivedWasSent
    <3>3. QED
      BY <2>1, <2>2, <3>1, <3>2 DEF EnqueueHandOff
  <2>3. ASSUME NEW c \in Consumers, DequeueReceive(c)
        PROVE  Holding'
    <3>1. Head(queue) \in Requests /\ Head(queue) \notin Range(received)
      BY <2>3, HeadIsNew, HeadTailProperties DEF DequeueReceive, QueueTypeOK
    <3>2. QED
      BY <2>1, <2>3, <3>1 DEF DequeueReceive
  <2>4. ASSUME NEW c \in Consumers, DequeueReturn(c)
        PROVE  Holding'
    BY <2>4 DEF DequeueReturn, NoSharedRequest, HeldWasReceived, QueueTypeOK
  <2>5. CASE UNCHANGED <<held, received>>
    BY <2>5 DEF NoSharedRequest, HeldWasReceived
  <2>6. QED
    BY <2>2, <2>3, <2>4, <2>5, HoldingSteps
<1>3. QED
  BY <1>1, <1>2, QueueTyping, FirstInFirstOut, AcceptedOnce, PTL DEF QueueSpec

\* One more element, one more to count; one element less, one less.
LEMMA CountChange ==
  ASSUME NEW S, IsFiniteSet(S), NEW x
  PROVE  /\ Cardinality(S) \in Nat
         /\ x \notin S => Cardinality(S \cup {x}) = Cardinality(S) + 1
         /\ x \in S => Cardinality(S \ {x}) = Cardinality(S) - 1
BY FS_CardinalityType, FS_AddElement, FS_RemoveElement

LEMMA CountersFinite ==
  /\ IsFiniteSet(Uncounted) /\ Cardinality(Uncounted) \in Nat
  /\ IsFiniteSet(Undiscounted) /\ Cardinality(Undiscounted) \in Nat
<1>1. Uncounted \subseteq Requests /\ Undiscounted \subseteq Consumers
  BY DEF Uncounted, Undiscounted
<1>2. QED
  BY <1>1, QueueAssumption, FS_Subset, FS_CardinalityType

\* The steps that the counter and its accounting depend on.
LEMMA CountingSteps ==
  ASSUME [QueueNext]_queueVars, QueueTypeOK
  PROVE  \/ \E r \in Requests : EnqueueSend(r)
         \/ \E r \in Requests, c \in Consumers : EnqueueHandOff(r, c)
         \/ \E r \in Requests : EnqueueCount(r)
         \/ \E c \in Consumers : DequeueReceive(c)
         \/ \E c \in Consumers : DequeueCount(c)
         \/ UNCHANGED <<queue, depth, Uncounted, Undiscounted>>
<1> USE DEF Uncounted, Undiscounted, QueueTypeOK
<1>1. ASSUME NEW r \in Requests, \/ EnqueueCheck(r) \/ EnqueuePanic(r)
                                 \/ EnqueueCancelled(r) \/ EnqueueFull(r)
      PROVE  UNCHANGED <<queue, depth, Uncounted, Undiscounted>>
  BY <1>1 DEF EnqueueMoves, EnqueueCheck, EnqueuePanic, EnqueueCancelled, EnqueueFull
<1>2. ASSUME NEW c \in Consumers, \/ DequeuePark(c) \/ DequeueClosed(c)
                                  \/ DequeueCancelled(c) \/ DequeueReturn(c)
      PROVE  UNCHANGED <<queue, depth, Uncounted, Undiscounted>>
  BY <1>2 DEF DequeueMoves, DequeuePark, DequeueClosed, DequeueCancelled, DequeueReturn,
              DeqErrors
<1>3. CASE Close
  BY <1>3 DEF Close, WakeParked, Parked
<1>4. ASSUME NEW C \in SUBSET Consumers, CancelConsumers(C)
      PROVE  UNCHANGED <<queue, depth, Uncounted, Undiscounted>>
  BY <1>4 DEF CancelConsumers, WakeParked, Parked
<1>5. ASSUME NEW r \in Requests, CancelEnqueue(r)
      PROVE  UNCHANGED <<queue, depth, Uncounted, Undiscounted>>
  BY <1>5 DEF CancelEnqueue
<1>6. CASE UNCHANGED queueVars
  BY <1>6 DEF queueVars
<1>7. QED
  BY <1>1, <1>2, <1>3, <1>4, <1>5, <1>6 DEF QueueNext, EnqueueStep, DequeueStep

\* The counter never drifts from the channel: it is off by the calls that are
\* between their channel operation and their atomic addition, and by no more.
THEOREM CounterNeverDrifts == QueueSpec => []DepthAccounting
<1>1. QueueInit => DepthAccounting
  <2> SUFFICES ASSUME QueueInit
               PROVE  DepthAccounting
    OBVIOUS
  <2>1. Uncounted = {} /\ Undiscounted = {}
    BY DEF QueueInit, Uncounted, Undiscounted
  <2>2. Cardinality({}) = 0
    BY FS_EmptySet
  <2>3. Len(queue) = 0 /\ depth = 0
    BY EmptySeq DEF QueueInit
  <2>4. QED
    BY <2>1, <2>2, <2>3 DEF DepthAccounting
<1>2. QueueTypeOK /\ DepthAccounting /\ [QueueNext]_queueVars => DepthAccounting'
  <2> SUFFICES ASSUME QueueTypeOK, DepthAccounting, [QueueNext]_queueVars
               PROVE  DepthAccounting'
    OBVIOUS
  <2>0. /\ depth \in Int /\ Len(queue) \in Nat /\ queue \in Seq(Requests)
        /\ enq \in [Requests -> EnqStates] /\ deq \in [Consumers -> DeqStates]
    BY LenProperties DEF QueueTypeOK
  <2>1. ASSUME NEW r \in Requests, EnqueueSend(r)
        PROVE  DepthAccounting'
    <3>1. Uncounted' = Uncounted \cup {r} /\ r \notin Uncounted /\ Undiscounted' = Undiscounted
      BY <2>0, <2>1 DEF EnqueueSend, EnqueueMoves, Uncounted, Undiscounted
    <3>2. Len(queue') = Len(queue) + 1 /\ depth' = depth
      BY <2>0, <2>1, AppendProperties DEF EnqueueSend
    <3>3. QED
      BY <2>0, <3>1, <3>2, CountersFinite, CountChange DEF DepthAccounting
  <2>2. ASSUME NEW r \in Requests, NEW c \in Consumers, EnqueueHandOff(r, c)
        PROVE  DepthAccounting'
    <3>1. /\ Uncounted' = Uncounted \cup {r} /\ r \notin Uncounted
          /\ Undiscounted' = Undiscounted \cup {c} /\ c \notin Undiscounted
      BY <2>0, <2>2 DEF EnqueueHandOff, EnqueueMoves, Uncounted, Undiscounted, Parked
    <3>2. queue' = queue /\ depth' = depth
      BY <2>2 DEF EnqueueHandOff
    <3>3. QED
      BY <2>0, <3>1, <3>2, CountersFinite, CountChange DEF DepthAccounting
  <2>3. ASSUME NEW r \in Requests, EnqueueCount(r)
        PROVE  DepthAccounting'
    <3>1. Uncounted' = Uncounted \ {r} /\ r \in Uncounted /\ Undiscounted' = Undiscounted
      BY <2>0, <2>3 DEF EnqueueCount, EnqueueMoves, Uncounted, Undiscounted
    <3>2. queue' = queue /\ depth' = depth + 1
      BY <2>3 DEF EnqueueCount
    <3>3. QED
      BY <2>0, <3>1, <3>2, CountersFinite, CountChange DEF DepthAccounting
  <2>4. ASSUME NEW c \in Consumers, DequeueReceive(c)
        PROVE  DepthAccounting'
    <3>1. /\ Undiscounted' = Undiscounted \cup {c} /\ c \notin Undiscounted
          /\ Uncounted' = Uncounted
      BY <2>0, <2>4 DEF DequeueReceive, DequeueMoves, Uncounted, Undiscounted
    <3>2. Len(queue') = Len(queue) - 1 /\ depth' = depth
      BY <2>0, <2>4, HeadTailProperties DEF DequeueReceive
    <3>3. QED
      BY <2>0, <3>1, <3>2, CountersFinite, CountChange DEF DepthAccounting
  <2>5. ASSUME NEW c \in Consumers, DequeueCount(c)
        PROVE  DepthAccounting'
    <3>1. /\ Undiscounted' = Undiscounted \ {c} /\ c \in Undiscounted
          /\ Uncounted' = Uncounted
      BY <2>0, <2>5 DEF DequeueCount, DequeueMoves, Uncounted, Undiscounted
    <3>2. queue' = queue /\ depth' = depth - 1
      BY <2>5 DEF DequeueCount
    <3>3. QED
      BY <2>0, <3>1, <3>2, CountersFinite, CountChange DEF DepthAccounting
  <2>6. CASE UNCHANGED <<queue, depth, Uncounted, Undiscounted>>
    BY <2>6 DEF DepthAccounting
  <2>7. QED
    BY <2>1, <2>2, <2>3, <2>4, <2>5, <2>6, CountingSteps
<1>3. QED
  BY <1>1, <1>2, QueueTyping, PTL DEF QueueSpec

\* The buffer never exceeds its capacity.
LEMMA BufferBound == QueueSpec => [](Len(queue) <= Capacity)
<1>1. QueueInit => Len(queue) <= Capacity
  BY QueueAssumption, EmptySeq DEF QueueInit
<1>2. QueueTypeOK /\ Len(queue) <= Capacity /\ [QueueNext]_queueVars => (Len(queue) <= Capacity)'
  <2> SUFFICES ASSUME QueueTypeOK, Len(queue) <= Capacity, [QueueNext]_queueVars
               PROVE  Len(queue') <= Capacity
    OBVIOUS
  <2>0. queue \in Seq(Requests) /\ Len(queue) \in Nat /\ Capacity \in Nat
    BY QueueAssumption, LenProperties DEF QueueTypeOK
  <2>1. ASSUME NEW r \in Requests, EnqueueSend(r)
        PROVE  Len(queue') <= Capacity
    BY <2>0, <2>1, AppendProperties DEF EnqueueSend
  <2>2. ASSUME NEW c \in Consumers, DequeueReceive(c)
        PROVE  Len(queue') <= Capacity
    BY <2>0, <2>2, HeadTailProperties DEF DequeueReceive
  <2>3. CASE UNCHANGED queue
    BY <2>3
  <2>4. QED
    BY <2>1, <2>2, <2>3, ChannelSteps DEF EnqueueHandOff
<1>3. QED
  BY <1>1, <1>2, QueueTyping, PTL DEF QueueSpec

\* While no call is between its channel operation and its addition, IsFull and
\* IsEmpty are right; in between, Depth stays within what the calls explain.
THEOREM ReportsAreRightAtRest ==
  QueueSpec => []/\ Uncounted = {} /\ Undiscounted = {}
                     => (IsFull <=> Len(queue) = Capacity) /\ (IsEmpty <=> queue = <<>>)
                 /\ Depth >= -Cardinality(Uncounted)
                 /\ Depth <= Capacity + Cardinality(Undiscounted)
<1> DEFINE Reports ==
      /\ Uncounted = {} /\ Undiscounted = {}
           => (IsFull <=> Len(queue) = Capacity) /\ (IsEmpty <=> queue = <<>>)
      /\ Depth >= -Cardinality(Uncounted)
      /\ Depth <= Capacity + Cardinality(Undiscounted)
<1>1. QueueTypeOK /\ DepthAccounting /\ Len(queue) <= Capacity => Reports
  <2> SUFFICES ASSUME QueueTypeOK, DepthAccounting, Len(queue) <= Capacity
               PROVE  Reports
    OBVIOUS
  <2>1. /\ depth \in Int /\ Len(queue) \in Nat /\ Capacity \in Nat
        /\ queue = <<>> <=> Len(queue) = 0
    BY QueueAssumption, LenProperties, EmptySeq DEF QueueTypeOK
  <2>2. Cardinality({}) = 0
    BY FS_EmptySet
  <2>3. depth = Len(queue) - Cardinality(Uncounted) + Cardinality(Undiscounted)
    BY DEF DepthAccounting
  <2>4. ASSUME Uncounted = {}, Undiscounted = {}
        PROVE  (IsFull <=> Len(queue) = Capacity) /\ (IsEmpty <=> queue = <<>>)
    <3>1. depth = Len(queue)
      BY <2>1, <2>2, <2>3, <2>4
    <3>2. QED
      BY <2>1, <3>1 DEF IsFull, IsEmpty, Depth
  <2>5. Depth >= -Cardinality(Uncounted) /\ Depth <= Capacity + Cardinality(Undiscounted)
    BY <2>1, <2>3, CountersFinite DEF Depth
  <2>6. QED
    BY <2>4, <2>5
<1>2. QED
  BY <1>1, QueueTyping, CounterNeverDrifts, BufferBound, PTL

--------------------------------------------------------------------------------
(* Refinement: the scan queue implements BoundedFifo. *)

TurnedAway == {r \in Requests : enq[r] \in Rejections}

\* A request that is still being checked is new to the abstract buffer.
LEMMA CheckedIsFresh ==
  ASSUME AcceptedExactlyOnce, NEW r \in Requests, enq[r] \in {"idle", "checked"}
  PROVE  Fifo!Fresh(r)
BY DEF Fifo!Fresh, Fifo!Range, Range, AcceptedExactlyOnce, Rejections

\* The refinement mapping commutes with every step of the queue.
LEMMA StepsRefine ==
  ASSUME QueueTypeOK, ParkedHasNothingToDo, FifoOrder, AcceptedExactlyOnce,
         [QueueNext]_queueVars
  PROVE  [Fifo!FifoNext]_(Fifo!fifoVars)
<1>0. /\ sent \in Seq(Requests) /\ received \in Seq(Requests) /\ queue \in Seq(Requests)
      /\ Len(sent) \in Nat /\ Len(received) \in Nat /\ Len(queue) \in Nat
      /\ Capacity \in Nat
      /\ Len(sent) = Len(received) + Len(queue)
  BY QueueAssumption, LenProperties, ConcatProperties DEF QueueTypeOK, FifoOrder
<1>1. ASSUME NEW r \in Requests, EnqueueSend(r)
      PROVE  Fifo!FifoNext
  <2>1. Fifo!Fresh(r)
    BY <1>1, CheckedIsFresh DEF EnqueueSend, EnqueueMoves
  <2>2. Len(sent) - Len(received) < Capacity
    BY <1>0, <1>1 DEF EnqueueSend
  <2>3. TurnedAway' = TurnedAway
    BY <1>1 DEF EnqueueSend, EnqueueMoves, QueueTypeOK, TurnedAway, Rejections
  <2>4. Fifo!Put(r)
    BY <1>1, <2>1, <2>2, <2>3 DEF Fifo!Put, EnqueueSend, TurnedAway
  <2>5. QED
    BY <2>4 DEF Fifo!FifoNext
<1>2. ASSUME NEW r \in Requests, NEW c \in Consumers, EnqueueHandOff(r, c)
      PROVE  Fifo!FifoNext
  <2>1. Fifo!Fresh(r)
    BY <1>2, CheckedIsFresh DEF EnqueueHandOff, EnqueueMoves
  <2>2. queue = <<>> /\ Len(queue) = 0
    BY <1>2, EmptySeq DEF EnqueueHandOff, ParkedHasNothingToDo
  <2>3. Len(received) = Len(sent) /\ Len(received') = Len(received) + 1
    BY <1>0, <1>2, <2>2, AppendProperties DEF EnqueueHandOff
  <2>4. TurnedAway' = TurnedAway
    BY <1>2 DEF EnqueueHandOff, EnqueueMoves, QueueTypeOK, TurnedAway, Rejections
  <2>5. Fifo!PassThrough(r)
    BY <1>2, <2>1, <2>3, <2>4 DEF Fifo!PassThrough, EnqueueHandOff, TurnedAway
  <2>6. QED
    BY <2>5 DEF Fifo!FifoNext
<1>3. ASSUME NEW c \in Consumers, DequeueReceive(c)
      PROVE  Fifo!FifoNext
  <2>1. Len(queue) > 0
    BY <1>0, <1>3, EmptySeq DEF DequeueReceive
  <2>2. Head(queue) \in Requests
    BY <1>0, <1>3, HeadTailProperties DEF DequeueReceive
  <2>3. Len(received') = Len(received) + 1
    BY <1>0, <1>3, <2>2, AppendProperties DEF DequeueReceive
  <2>4. Fifo!Take
    BY <1>0, <1>3, <2>1, <2>3 DEF Fifo!Take, DequeueReceive
  <2>5. QED
    BY <2>4 DEF Fifo!FifoNext
<1>4. ASSUME NEW r \in Requests, NEW why \in Rejections, enq[r] \in {"idle", "checked"},
             enq' = [enq EXCEPT ![r] = why], UNCHANGED <<closed, sent, received>>
      PROVE  Fifo!FifoNext
  <2>1. Fifo!Fresh(r)
    BY <1>4, CheckedIsFresh
  <2>2. TurnedAway' = TurnedAway \cup {r}
    BY <1>4 DEF TurnedAway, QueueTypeOK
  <2>3. Fifo!Refuse(r)
    BY <1>4, <2>1, <2>2 DEF Fifo!Refuse, TurnedAway
  <2>4. QED
    BY <2>3 DEF Fifo!FifoNext
<1>5. ASSUME NEW r \in Requests, \/ EnqueuePanic(r) \/ EnqueueCancelled(r)
                                 \/ EnqueueFull(r) \/ (EnqueueCheck(r) /\ closed)
      PROVE  Fifo!FifoNext
  BY <1>4, <1>5 DEF EnqueuePanic, EnqueueCancelled, EnqueueFull, EnqueueCheck,
                    EnqueueMoves, Rejections
<1>6. ASSUME NEW r \in Requests, EnqueueCount(r) \/ (EnqueueCheck(r) /\ ~closed)
      PROVE  UNCHANGED Fifo!fifoVars
  <2>1. TurnedAway' = TurnedAway
    BY <1>6 DEF EnqueueCount, EnqueueCheck, EnqueueMoves, QueueTypeOK, TurnedAway, Rejections
  <2>2. QED
    BY <1>6, <2>1 DEF EnqueueCount, EnqueueCheck, Fifo!fifoVars, TurnedAway
<1>7. CASE Close
  BY <1>7 DEF Close, Fifo!Shut, Fifo!FifoNext
<1>8. CASE UNCHANGED <<sent, received, enq, closed>>
  BY <1>8 DEF Fifo!fifoVars
<1>9. ASSUME NEW r \in Requests, EnqueueStep(r)
      PROVE  Fifo!FifoNext \/ UNCHANGED Fifo!fifoVars
  <2>1. CASE EnqueueCheck(r)
    <3>1. CASE closed
      BY <1>5, <2>1, <3>1
    <3>2. CASE ~closed
      BY <1>6, <2>1, <3>2
    <3>3. QED
      BY <3>1, <3>2
  <2>2. CASE EnqueueSend(r)
    BY <1>1, <2>2
  <2>3. ASSUME NEW c \in Consumers, EnqueueHandOff(r, c)
        PROVE  Fifo!FifoNext
    BY <1>2, <2>3
  <2>4. CASE \/ EnqueuePanic(r) \/ EnqueueCancelled(r)
             \/ EnqueueFull(r) \/ (EnqueueCheck(r) /\ closed)
    BY <1>5, <2>4
  <2>5. CASE EnqueueCount(r)
    BY <1>6, <2>5
  <2>6. QED
    BY <1>9, <2>1, <2>2, <2>3, <2>4, <2>5 DEF EnqueueStep
<1>10. ASSUME NEW c \in Consumers, DequeueStep(c) \/ DequeueReturn(c)
       PROVE  Fifo!FifoNext \/ UNCHANGED <<sent, received, enq, closed>>
  BY <1>3, <1>10 DEF DequeueStep, DequeuePark, DequeueClosed, DequeueCancelled,
                     DequeueCount, DequeueReturn
<1>11. ASSUME NEW C \in SUBSET Consumers, CancelConsumers(C)
       PROVE  UNCHANGED <<sent, received, enq, closed>>
  BY <1>11 DEF CancelConsumers
<1>12. ASSUME NEW r \in Requests, CancelEnqueue(r)
       PROVE  UNCHANGED <<sent, received, enq, closed>>
  BY <1>12 DEF CancelEnqueue
<1>13. UNCHANGED queueVars => UNCHANGED <<sent, received, enq, closed>>
  BY DEF queueVars
<1>14. Fifo!FifoNext \/ UNCHANGED Fifo!fifoVars
  BY <1>7, <1>8, <1>9, <1>10, <1>11, <1>12, <1>13 DEF QueueNext
<1>15. QED
  BY <1>14

\* The queue is a bounded first-in-first-out buffer that refuses for good, hands
\* each item out once, and takes nothing after it is shut.
THEOREM QueueIsFifo == QueueSpec => ImplementsFifo
<1>1. QueueInit => Fifo!FifoInit
  <2> SUFFICES ASSUME QueueInit
               PROVE  Fifo!FifoInit
    OBVIOUS
  <2>1. Len(received) = 0
    BY EmptySeq DEF QueueInit
  <2>2. {r \in Requests : enq[r] \in Rejections} = {}
    BY DEF QueueInit, Rejections
  <2>3. QED
    BY <2>1, <2>2 DEF QueueInit, Fifo!FifoInit
<1>2. QED
  BY <1>1, StepsRefine, QueueTyping, NoLostWakeup, FirstInFirstOut, AcceptedOnce, PTL
     DEF QueueSpec, ImplementsFifo, Fifo!FifoSpec
================================================================================
