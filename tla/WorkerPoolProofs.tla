---------------------------- MODULE WorkerPoolProofs ----------------------------
(***************************************************************************)
(* Proofs about the worker pool, for any number of requests, workers and      *)
(* callers of Stop.  Every step of the pool is a step of its queue, so that    *)
(* the theorems about the queue hold in the pool; the parts of PoolInv follow  *)
(* one after the other from them.                                            *)
(***************************************************************************)
EXTENDS WorkerPool, ScanQueueProofs

\* A step of the pool is a step of the queue, or leaves the queue alone.
LEMMA PoolStepsQueue == [PoolNext]_poolVars => [QueueNext]_queueVars
<1> SUFFICES ASSUME [PoolNext]_poolVars
             PROVE  [QueueNext]_queueVars
  OBVIOUS
<1>1. ASSUME NEW w \in Consumers, WorkerStep(w)
      PROVE  [QueueNext]_queueVars
  <2>1. CASE DequeueStep(w) \/ DequeueReturn(w)
    BY <2>1 DEF QueueNext
  <2>2. CASE UNCHANGED queueVars
    BY <2>2
  <2>3. QED
    BY <1>1, <2>1, <2>2 DEF WorkerStep, StartWorker, LoopCheck, WorkerDequeues,
          DequeueFailed, StartScan, EndScan
<1>2. ASSUME NEW s \in Stoppers, StopCall(s) \/ StopStep(s)
      PROVE  [QueueNext]_queueVars
  <2>1. CASE StopCancel(s)
    BY <2>1 DEF StopCancel, QueueNext
  <2>2. CASE UNCHANGED queueVars
    BY <2>2
  <2>3. QED
    BY <1>2, <2>1, <2>2 DEF StopCall, StopStep, StopGraceful, StopTimeout, StopUnblock
<1>3. CASE WaitReturns
  BY <1>3 DEF WaitReturns
<1>4. CASE ClientStep
  BY <1>4 DEF ClientStep, QueueNext
<1>5. CASE UNCHANGED poolVars
  BY <1>5 DEF poolVars
<1>6. QED
  BY <1>1, <1>2, <1>3, <1>4, <1>5 DEF PoolNext

\* The pool uses the queue as the queue allows: workers are consumers that come back for
\* more, and Stop is a cancellation.  What is proved of the queue holds in the pool.
THEOREM PoolUsesQueue == PoolSpec => QueueSpec
<1>1. PoolInit => QueueInit
  BY DEF PoolInit
<1>2. QED
  BY <1>1, PoolStepsQueue, PTL DEF PoolSpec, QueueSpec

\* The steps of the pool's own variables.
LEMMA PoolSteps ==
  ASSUME [PoolNext]_poolVars
  PROVE  \/ \E w \in Consumers : \/ StartWorker(w) \/ LoopCheck(w) \/ DequeueFailed(w)
                                 \/ StartScan(w) \/ EndScan(w)
         \/ \E s \in Stoppers : \/ StopCall(s) \/ StopCancel(s) \/ StopGraceful(s)
                                \/ StopTimeout(s) \/ StopUnblock(s)
         \/ WaitReturns
         \/ UNCHANGED poolOnly
BY DEF PoolNext, poolVars, WorkerStep, WorkerDequeues, StopStep, ClientStep

\* The types of the pool, and that a worker runs a handler exactly while it is in
\* processScan.
THEOREM PoolTyping == PoolSpec => []PoolTypeOK
<1>1. PoolInit /\ QueueTypeOK => PoolTypeOK
  BY EmptySeq DEF PoolInit, PoolTypeOK, WorkerStates, HandlerOutcomes, StopStates, StopResults
<1>2. PoolTypeOK /\ QueueTypeOK' /\ [PoolNext]_poolVars => PoolTypeOK'
  <2> SUFFICES ASSUME PoolTypeOK, QueueTypeOK', [PoolNext]_poolVars
               PROVE  PoolTypeOK'
    OBVIOUS
  <2> USE QueueAssumption, PoolAssumption
      DEF PoolTypeOK, WorkerStates, HandlerOutcomes, StopStates, StopResults
  <2>1. ASSUME NEW w \in Consumers, StartWorker(w)
        PROVE  PoolTypeOK'
    BY <2>1 DEF StartWorker, WorkerMoves
  <2>2. ASSUME NEW w \in Consumers, LoopCheck(w)
        PROVE  PoolTypeOK'
    BY <2>2 DEF LoopCheck, WorkerMoves
  <2>3. ASSUME NEW w \in Consumers, DequeueFailed(w)
        PROVE  PoolTypeOK'
    BY <2>3 DEF DequeueFailed, WorkerMoves
  <2>4. ASSUME NEW w \in Consumers, StartScan(w)
        PROVE  PoolTypeOK'
    <3>1. held[w] \in Requests
      BY <2>4 DEF StartScan, QueueTypeOK
    <3>2. [worker |-> w, request |-> held[w], late |-> w \in done] \in ScanEntries
      BY <3>1 DEF ScanEntries
    <3>3. started' \in Seq(ScanEntries)
      BY <2>4, <3>2, AppendProperties DEF StartScan
    <3>4. QED
      BY <2>4, <3>1, <3>3 DEF StartScan, WorkerMoves
  <2>5. ASSUME NEW w \in Consumers, EndScan(w)
        PROVE  PoolTypeOK'
    <3>1. scanning[w] \in Requests
      BY <2>5 DEF EndScan, WorkerMoves
    <3>2. QED
      BY <2>5, <3>1 DEF EndScan, WorkerMoves
  <2>6. ASSUME NEW s \in Stoppers, StopCall(s)
        PROVE  PoolTypeOK'
    BY <2>6 DEF StopCall, StopMoves
  <2>7. ASSUME NEW s \in Stoppers,
               StopCancel(s) \/ StopGraceful(s) \/ StopTimeout(s) \/ StopUnblock(s)
        PROVE  PoolTypeOK'
    BY <2>7 DEF StopCancel, StopGraceful, StopTimeout, StopUnblock, StopMoves
  <2>8. CASE WaitReturns
    BY <2>8 DEF WaitReturns
  <2>9. CASE UNCHANGED poolOnly
    BY <2>9 DEF poolOnly
  <2>10. QED
    BY <2>1, <2>2, <2>3, <2>4, <2>5, <2>6, <2>7, <2>8, <2>9, PoolSteps
<1>3. QED
  BY <1>1, <1>2, QueueTyping, PoolUsesQueue, PTL DEF PoolSpec

\* The contexts that are done stay done, and a closed queue that is drained stays so.
LEMMA NothingComesBack ==
  ASSUME [QueueNext]_queueVars
  PROVE  /\ done \subseteq done' /\ (closed => closed')
         /\ closed /\ queue = <<>> => closed' /\ queue' = <<>>
<1>1. ASSUME NEW r \in Requests, EnqueueStep(r)
      PROVE  UNCHANGED done /\ (closed => UNCHANGED <<closed, queue>>)
  BY <1>1 DEF EnqueueStep, EnqueueCheck, EnqueueSend, EnqueueHandOff, EnqueuePanic,
        EnqueueCancelled, EnqueueFull, EnqueueCount
<1>2. ASSUME NEW c \in Consumers, DequeueStep(c)
      PROVE  UNCHANGED <<done, closed>> /\ (queue = <<>> => UNCHANGED queue)
  BY <1>2 DEF DequeueStep, DequeueReceive, DequeuePark, DequeueClosed, DequeueCancelled,
        DequeueCount
<1>3. QED
  BY <1>1, <1>2 DEF QueueNext, queueVars, DequeueReturn, CancelConsumers, CancelEnqueue, Close

\* What appending to a sequence does to the set of its indices and to its elements.
LEMMA AppendIndices ==
  ASSUME NEW S, NEW s \in Seq(S), NEW x \in S
  PROVE  /\ \A i \in DOMAIN Append(s, x) :
                \/ i = Len(s) + 1 /\ Append(s, x)[i] = x
                \/ i \in DOMAIN s /\ Append(s, x)[i] = s[i]
         /\ \A i \in DOMAIN s : i \in DOMAIN Append(s, x) /\ Append(s, x)[i] = s[i]
         /\ Len(s) + 1 \in DOMAIN Append(s, x) /\ Append(s, x)[Len(s) + 1] = x
<1>1. /\ Len(s) \in Nat /\ DOMAIN s = 1 .. Len(s)
      /\ DOMAIN Append(s, x) = 1 .. Len(s) + 1
      /\ \A i \in 1 .. Len(s) : Append(s, x)[i] = s[i]
      /\ Append(s, x)[Len(s) + 1] = x
  BY AppendProperties, LenProperties
<1>2. QED
  BY <1>1

\* The entries of the history are of workers and requests.
LEMMA EntryFields ==
  ASSUME PoolTypeOK, NEW i \in DOMAIN started
  PROVE  started[i].worker \in Consumers /\ started[i].request \in Requests
<1>1. started \in Seq(ScanEntries)
  BY DEF PoolTypeOK
<1>2. i \in 1 .. Len(started)
  BY <1>1, LenProperties
<1>3. started[i] \in ScanEntries
  BY <1>1, <1>2, ElementOfSeq
<1>4. QED
  BY <1>3 DEF ScanEntries

\* After the cancellation a worker starts one scan more at most: its next look at the
\* context ends its loop.
THEOREM LateScans == PoolSpec => [](LateWorkersLeave /\ OneLateScan)
<1> DEFINE Late == LateWorkersLeave /\ OneLateScan
<1>1. PoolInit => Late
  BY DEF PoolInit, LateWorkersLeave, OneLateScan
<1>2. PoolTypeOK /\ Late /\ [PoolNext]_poolVars => Late'
  <2> SUFFICES ASSUME PoolTypeOK, Late, [PoolNext]_poolVars
               PROVE  Late'
    OBVIOUS
  <2>0. done \subseteq done'
    BY PoolStepsQueue, NothingComesBack
  <2> USE DEF PoolTypeOK, LateWorkersLeave, OneLateScan, ScanEntries
  <2>1. ASSUME NEW w \in Consumers, StartScan(w)
        PROVE  Late'
    <3> DEFINE e == [worker |-> w, request |-> held[w], late |-> w \in done]
    <3>1. started' = Append(started, e) /\ UNCHANGED done
      BY <2>1 DEF StartScan, DequeueReturn
    <3>2. e \in ScanEntries
      BY <2>1 DEF StartScan, QueueTypeOK
    <3>3. /\ \A i \in DOMAIN started' :
                \/ i = Len(started) + 1 /\ started'[i] = e
                \/ i \in DOMAIN started /\ started'[i] = started[i]
      BY <3>1, <3>2, AppendIndices
    <3>4. \A i \in DOMAIN started : started[i].late => started[i].worker # w
      BY <2>1 DEF StartScan, WorkerMoves
    <3>5. worker' = [worker EXCEPT ![w] = "scanning"]
      BY <2>1 DEF StartScan, WorkerMoves
    <3>6. e.worker = w /\ (e.late => w \in done)
      OBVIOUS
    <3> HIDE DEF e
    <3>7. LateWorkersLeave'
      BY <3>1, <3>3, <3>4, <3>5, <3>6
    <3>8. OneLateScan'
      BY <3>3, <3>4, <3>6
    <3>9. QED
      BY <3>7, <3>8
  <2>2. ASSUME UNCHANGED started,
               \A w \in Consumers \cap done : worker[w] \in {"scanning", "loop", "exited"}
                   => worker'[w] \in {"scanning", "loop", "exited"}
        PROVE  Late'
    <3>1. \A i \in DOMAIN started : started[i].worker \in Consumers
      BY EntryFields
    <3>2. LateWorkersLeave'
      BY <2>0, <2>2, <3>1
    <3>3. OneLateScan'
      BY <2>2
    <3>4. QED
      BY <3>2, <3>3
  <2>3. ASSUME NEW w \in Consumers,
               StartWorker(w) \/ LoopCheck(w) \/ DequeueFailed(w) \/ EndScan(w)
        PROVE  Late'
    <3>1. UNCHANGED started
      BY <2>3 DEF StartWorker, LoopCheck, DequeueFailed, EndScan
    <3>2. \A v \in Consumers \cap done : worker[v] \in {"scanning", "loop", "exited"}
             => worker'[v] \in {"scanning", "loop", "exited"}
      BY <2>3 DEF StartWorker, LoopCheck, DequeueFailed, EndScan, WorkerMoves
    <3>3. QED
      BY <2>2, <3>1, <3>2
  <2>4. CASE UNCHANGED <<worker, started>>
    BY <2>2, <2>4
  <2>5. QED
    BY <2>1, <2>3, <2>4, PoolSteps DEF poolOnly, StopCall, StopCancel, StopGraceful,
          StopTimeout, StopUnblock, WaitReturns
<1>3. QED
  BY <1>1, <1>2, PoolTyping, PTL DEF PoolSpec

\* Dequeue says "cancelled" only to a consumer whose context is done.
LEMMA CancelledIsDone ==
  QueueSpec => [](\A c \in Consumers : deq[c] = "cancelled" => c \in done)
<1> DEFINE Cancelled == \A c \in Consumers : deq[c] = "cancelled" => c \in done
<1>1. QueueInit => Cancelled
  BY DEF QueueInit
<1>2. QueueTypeOK /\ Cancelled /\ [QueueNext]_queueVars => Cancelled'
  <2> SUFFICES ASSUME QueueTypeOK, Cancelled, [QueueNext]_queueVars
               PROVE  Cancelled'
    OBVIOUS
  <2> USE DEF QueueTypeOK
  <2>1. ASSUME NEW r \in Requests, EnqueueSend(r)
        PROVE  Cancelled'
    BY <2>1 DEF EnqueueSend
  <2>2. ASSUME NEW r \in Requests, NEW c \in Consumers, EnqueueHandOff(r, c)
        PROVE  Cancelled'
    BY <2>2 DEF EnqueueHandOff
  <2>3. ASSUME NEW c \in Consumers, DequeueStep(c)
        PROVE  Cancelled'
    BY <2>3 DEF DequeueStep, DequeueMoves, DequeueReceive, DequeuePark, DequeueClosed,
          DequeueCancelled, DequeueCount
  <2>4. ASSUME NEW c \in Consumers, DequeueReturn(c)
        PROVE  Cancelled'
    BY <2>4 DEF DequeueReturn
  <2>5. CASE Close
    BY <2>5 DEF Close, WakeParked
  <2>6. ASSUME NEW C \in SUBSET Consumers, CancelConsumers(C)
        PROVE  Cancelled'
    BY <2>6 DEF CancelConsumers, WakeParked
  <2>7. ASSUME NEW r \in Requests, CancelEnqueue(r)
        PROVE  Cancelled'
    BY <2>7 DEF CancelEnqueue
  <2>8. CASE UNCHANGED <<queue, closed, deq, done>>
    BY <2>8
  <2>9. QED
    BY <2>1, <2>2, <2>3, <2>4, <2>5, <2>6, <2>7, <2>8, ParkingSteps
<1>3. QED
  BY <1>1, <1>2, QueueTyping, PTL DEF QueueSpec

\* A worker leaves because the pool is stopping or nothing can come any more, and for no
\* other reason: neither an error nor a panic of a handler costs the pool a worker.
THEOREM ExitsHaveReasons == PoolSpec => []ExitHasReason
<1> DEFINE Cancelled == \A c \in Consumers : deq[c] = "cancelled" => c \in done
<1>1. PoolInit => ExitHasReason
  BY DEF PoolInit, ExitHasReason
<1>2. PoolTypeOK /\ ClosedMeansDrained /\ Cancelled /\ ExitHasReason /\ [PoolNext]_poolVars
        => ExitHasReason'
  <2> SUFFICES ASSUME PoolTypeOK, ClosedMeansDrained, Cancelled, ExitHasReason,
                      [PoolNext]_poolVars
               PROVE  ExitHasReason'
    OBVIOUS
  <2>0. done \subseteq done' /\ (closed /\ queue = <<>> => closed' /\ queue' = <<>>)
    BY PoolStepsQueue, NothingComesBack
  <2> USE DEF PoolTypeOK, ExitHasReason
  <2>1. ASSUME NEW w \in Consumers,
               \A v \in Consumers : worker'[v] = "exited" => v = w \/ worker[v] = "exited",
               worker'[w] = "exited" => w \in done \/ (closed /\ queue = <<>>)
        PROVE  ExitHasReason'
    BY <2>0, <2>1
  <2>2. ASSUME NEW w \in Consumers, StartWorker(w) \/ LoopCheck(w) \/ StartScan(w) \/ EndScan(w)
        PROVE  ExitHasReason'
    BY <2>1, <2>2 DEF StartWorker, LoopCheck, StartScan, EndScan, WorkerMoves
  <2>3. ASSUME NEW w \in Consumers, DequeueFailed(w)
        PROVE  ExitHasReason'
    <3>1. w \in done \/ (closed /\ queue = <<>>)
      BY <2>3 DEF DequeueFailed, DeqErrors, ClosedMeansDrained
    <3>2. QED
      BY <2>1, <2>3, <3>1 DEF DequeueFailed, WorkerMoves
  <2>4. CASE UNCHANGED worker
    BY <2>0, <2>4
  <2>5. QED
    BY <2>2, <2>3, <2>4, PoolSteps DEF poolOnly, StopCall, StopCancel, StopGraceful,
          StopTimeout, StopUnblock, WaitReturns
<1>3. QED
  BY <1>1, <1>2, PoolTyping, PoolUsesQueue, DrainedBeforeClosed, CancelledIsDone, PTL
     DEF PoolSpec

\* One caller of Stop runs its function; it returns nil only when all workers are gone.
THEOREM StopIsOne == PoolSpec => []OneStopRuns
<1>1. PoolInit => OneStopRuns
  BY PoolAssumption DEF PoolInit, OneStopRuns
<1>2. PoolTypeOK /\ OneStopRuns /\ [PoolNext]_poolVars => OneStopRuns'
  <2> SUFFICES ASSUME PoolTypeOK, OneStopRuns, [PoolNext]_poolVars
               PROVE  OneStopRuns'
    OBVIOUS
  <2> USE PoolAssumption DEF PoolTypeOK, OneStopRuns, AllExited
  <2>1. ASSUME NEW w \in Consumers,
               StartWorker(w) \/ LoopCheck(w) \/ DequeueFailed(w) \/ StartScan(w) \/ EndScan(w)
        PROVE  OneStopRuns'
    BY <2>1 DEF StartWorker, LoopCheck, DequeueFailed, StartScan, EndScan, WorkerMoves
  <2>2. ASSUME NEW s \in Stoppers, StopCall(s)
        PROVE  OneStopRuns'
    <3>1. CASE first = NoStopper
      BY <2>2, <3>1 DEF StopCall, StopMoves
    <3>2. CASE first # NoStopper
      <4>1. first \in Stoppers /\ s # first
        BY <2>2, <3>2 DEF StopCall, StopMoves
      <4>2. QED
        BY <2>2, <3>2, <4>1 DEF StopCall, StopMoves
    <3>3. QED
      BY <3>1, <3>2
  <2>3. ASSUME NEW s \in Stoppers, StopCancel(s) \/ StopGraceful(s) \/ StopTimeout(s)
        PROVE  OneStopRuns'
    BY <2>3 DEF StopCancel, StopGraceful, StopTimeout, StopMoves
  <2>4. ASSUME NEW s \in Stoppers, StopUnblock(s)
        PROVE  OneStopRuns'
    BY <2>4 DEF StopUnblock, StopMoves
  <2>5. CASE WaitReturns
    BY <2>5 DEF WaitReturns
  <2>6. CASE UNCHANGED poolOnly
    BY <2>6 DEF poolOnly
  <2>7. QED
    BY <2>1, <2>2, <2>3, <2>4, <2>5, <2>6, PoolSteps
<1>3. QED
  BY <1>1, <1>2, PoolTyping, PTL DEF PoolSpec

\* When Stop returns nil to the caller that stopped the pool, no worker and no scan is left.
GracefulStopIsQuiet ==
    OnceIsDone /\ stopper[first] = "nil" =>
        \A w \in Consumers : worker[w] = "exited" /\ scanning[w] = NoRequest

LEMMA NilStopIsQuiet == PoolSpec => []GracefulStopIsQuiet
<1>1. PoolTypeOK /\ OneStopRuns => GracefulStopIsQuiet
  BY DEF PoolTypeOK, OneStopRuns, GracefulStopIsQuiet, OnceIsDone, AllExited
<1>2. QED
  BY <1>1, PoolTyping, StopIsOne, PTL

\* The steps that move a request from the channel to a worker or into a scan.
LEMMA HandSteps ==
  ASSUME [PoolNext]_poolVars
  PROVE  \/ \E r \in Requests, c \in Consumers : EnqueueHandOff(r, c) /\ UNCHANGED poolOnly
         \/ \E c \in Consumers : DequeueReceive(c) /\ UNCHANGED poolOnly
         \/ \E w \in Consumers : DequeueFailed(w) \/ StartScan(w)
         \/ UNCHANGED <<held, received, started>>
<1>1. ASSUME NEW w \in Consumers, WorkerDequeues(w)
      PROVE  UNCHANGED poolOnly /\ DequeueStep(w)
  BY <1>1 DEF WorkerDequeues
<1>2. ASSUME NEW w \in Consumers, DequeueStep(w)
      PROVE  DequeueReceive(w) \/ UNCHANGED <<held, received>>
  BY <1>2 DEF DequeueStep, DequeuePark, DequeueClosed, DequeueCancelled, DequeueCount
<1>3. CASE ClientStep
  <2>1. \/ \E r \in Requests, c \in Consumers : EnqueueHandOff(r, c)
        \/ UNCHANGED <<held, received>>
    BY <1>3 DEF ClientStep, EnqueueStep, CancelEnqueue, Close, EnqueueCheck, EnqueueSend,
          EnqueuePanic, EnqueueCancelled, EnqueueFull, EnqueueCount
  <2>2. QED
    BY <1>3, <2>1 DEF ClientStep, poolOnly
<1>4. QED
  BY <1>1, <1>2, <1>3 DEF PoolNext, poolVars, poolOnly, queueVars, WorkerStep, StartWorker,
     LoopCheck, EndScan, StopCall, StopStep, StopCancel, CancelConsumers, StopGraceful,
     StopTimeout, StopUnblock, WaitReturns

\* The elements of a sequence to which one is appended.
LEMMA AppendRange ==
  ASSUME NEW S, NEW s \in Seq(S), NEW x \in S
  PROVE  Range(Append(s, x)) = Range(s) \cup {x}
BY AppendIndices DEF Range

\* No request vanishes between the channel and its handler, and none is handled twice: what
\* has left the channel is in the hands of one worker or its scan was started.
THEOREM EachIsScannedOnce == PoolSpec => []ReceivedIsScanned
<1>1. PoolInit => ReceivedIsScanned
  <2> SUFFICES ASSUME PoolInit
               PROVE  ReceivedIsScanned
    OBVIOUS
  <2>1. Range(received) = {} /\ StartedRequests = {} /\ DOMAIN started = {}
    BY DEF PoolInit, QueueInit, Range, StartedRequests
  <2>2. {held[w] : w \in Consumers} \ {NoRequest} = {}
    BY DEF PoolInit, QueueInit
  <2>3. QED
    BY <2>1, <2>2 DEF ReceivedIsScanned
<1>2. PoolTypeOK /\ FifoOrder /\ AcceptedExactlyOnce /\ NoSharedRequest
        /\ ReceivedIsScanned /\ [PoolNext]_poolVars => ReceivedIsScanned'
  <2> SUFFICES ASSUME PoolTypeOK, FifoOrder, AcceptedExactlyOnce, NoSharedRequest,
                      ReceivedIsScanned, [PoolNext]_poolVars
               PROVE  ReceivedIsScanned'
    OBVIOUS
  <2> DEFINE InHands == {held[w] : w \in Consumers} \ {NoRequest}
  <2>0. /\ QueueTypeOK
        /\ held \in [Consumers -> Requests \cup {NoRequest}] /\ NoRequest \notin Requests
        /\ received \in Seq(Requests) /\ started \in Seq(ScanEntries)
    BY QueueAssumption DEF PoolTypeOK, QueueTypeOK
  <2>a. /\ Range(received) = StartedRequests \cup InHands
        /\ \A i, j \in DOMAIN started : started[i].request = started[j].request => i = j
        /\ \A w \in Consumers : held[w] \notin StartedRequests
    BY DEF ReceivedIsScanned
  <2>1. ASSUME NEW c \in Consumers, NEW x \in Requests, x \notin Range(received),
               held[c] = NoRequest, held' = [held EXCEPT ![c] = x],
               received' = Append(received, x), UNCHANGED started
        PROVE  ReceivedIsScanned'
    <3>1. Range(received') = Range(received) \cup {x}
      BY <2>0, <2>1, AppendRange
    <3>2. InHands' = InHands \cup {x}
      BY <2>0, <2>1
    <3>3. StartedRequests' = StartedRequests
      BY <2>1 DEF StartedRequests
    <3>4. \A w \in Consumers : held'[w] \notin StartedRequests
      BY <2>0, <2>a, <2>1
    <3>5. QED
      BY <2>a, <2>1, <3>1, <3>2, <3>3, <3>4 DEF ReceivedIsScanned
  <2>2. ASSUME NEW r \in Requests, NEW c \in Consumers, EnqueueHandOff(r, c), UNCHANGED poolOnly
        PROVE  ReceivedIsScanned'
    <3>1. r \notin Range(sent)
      BY <2>2 DEF EnqueueHandOff, EnqueueMoves, AcceptedExactlyOnce
    <3>2. Range(received) \subseteq Range(sent)
      BY <2>0, ReceivedWasSent
    <3>3. held[c] = NoRequest
      BY <2>0, <2>2 DEF EnqueueHandOff, Parked, QueueTypeOK
    <3>4. QED
      BY <2>1, <2>2, <3>1, <3>2, <3>3 DEF EnqueueHandOff, poolOnly
  <2>3. ASSUME NEW c \in Consumers, DequeueReceive(c), UNCHANGED poolOnly
        PROVE  ReceivedIsScanned'
    <3>1. Head(queue) \in Requests /\ Head(queue) \notin Range(received)
      BY <2>0, <2>3, HeadIsNew, HeadTailProperties DEF DequeueReceive, QueueTypeOK
    <3>2. held[c] = NoRequest
      BY <2>0, <2>3 DEF DequeueReceive, DequeueMoves, QueueTypeOK
    <3>3. QED
      BY <2>1, <2>3, <3>1, <3>2 DEF DequeueReceive, poolOnly
  <2>4. ASSUME UNCHANGED <<held, received, started>>
        PROVE  ReceivedIsScanned'
    BY <2>4 DEF ReceivedIsScanned, StartedRequests
  <2>5. ASSUME NEW w \in Consumers, DequeueFailed(w)
        PROVE  ReceivedIsScanned'
    <3>1. held[w] = NoRequest
      BY <2>0, <2>5 DEF DequeueFailed, DeqErrors, QueueTypeOK
    <3>2. held' = held
      BY <2>0, <2>5, <3>1 DEF DequeueFailed, DequeueReturn
    <3>3. QED
      BY <2>4, <2>5, <3>2 DEF DequeueFailed, DequeueReturn
  <2>6. ASSUME NEW w \in Consumers, StartScan(w)
        PROVE  ReceivedIsScanned'
    <3> DEFINE e == [worker |-> w, request |-> held[w], late |-> w \in done]
    <3>1. held[w] \in Requests
      BY <2>0, <2>6 DEF StartScan, QueueTypeOK
    <3>2. e \in ScanEntries /\ e.request = held[w]
      BY <3>1 DEF ScanEntries
    <3>3. /\ started' = Append(started, e)
          /\ held' = [held EXCEPT ![w] = NoRequest] /\ UNCHANGED received
      BY <2>6 DEF StartScan, DequeueReturn
    <3> HIDE DEF e
    <3>4. /\ \A i \in DOMAIN started' :
                \/ i = Len(started) + 1 /\ started'[i] = e
                \/ i \in DOMAIN started /\ started'[i] = started[i]
          /\ \A i \in DOMAIN started : i \in DOMAIN started' /\ started'[i] = started[i]
          /\ Len(started) + 1 \in DOMAIN started' /\ started'[Len(started) + 1] = e
      BY <2>0, <3>2, <3>3, AppendIndices
    <3>5. StartedRequests' = StartedRequests \cup {held[w]}
      BY <3>2, <3>4 DEF StartedRequests
    <3>6. \A v \in Consumers : v # w => held[v] # held[w]
      BY <2>0, <3>1 DEF NoSharedRequest
    <3>7. InHands' = InHands \ {held[w]} /\ held[w] \in InHands
      BY <2>0, <3>1, <3>3, <3>6
    <3>8. \A i \in DOMAIN started : started[i].request \in StartedRequests
      BY DEF StartedRequests
    <3>9. \A i, j \in DOMAIN started' : started'[i].request = started'[j].request => i = j
      BY <2>a, <3>2, <3>4, <3>8
    <3>10. NoRequest \notin StartedRequests
      BY <2>0, EntryFields DEF StartedRequests
    <3>11. \A v \in Consumers : held'[v] \notin StartedRequests'
      BY <2>0, <2>a, <3>1, <3>3, <3>5, <3>6, <3>10
    <3>12. Range(received') = StartedRequests' \cup InHands'
      BY <2>a, <3>3, <3>5, <3>7
    <3>13. QED
      BY <3>9, <3>11, <3>12 DEF ReceivedIsScanned
  <2>7. QED
    BY <2>2, <2>3, <2>4, <2>5, <2>6, HandSteps
<1>3. QED
  BY <1>1, <1>2, PoolTyping, PoolUsesQueue, FirstInFirstOut, AcceptedOnce, OneHolder, PTL
     DEF PoolSpec

\* A scan that was started runs in a worker until it has an outcome.
THEOREM EachScanEnds == PoolSpec => []StartedRunsOrEnded
<1>1. PoolInit => StartedRunsOrEnded
  BY DEF PoolInit, StartedRunsOrEnded, StartedRequests
<1>2. PoolTypeOK /\ StartedRunsOrEnded /\ [PoolNext]_poolVars => StartedRunsOrEnded'
  <2> SUFFICES ASSUME PoolTypeOK, StartedRunsOrEnded, [PoolNext]_poolVars
               PROVE  StartedRunsOrEnded'
    OBVIOUS
  <2> DEFINE Ran == {r \in Requests : outcome[r] # "pending"}
             Running == {scanning[w] : w \in Consumers} \ {NoRequest}
  <2>0. /\ scanning \in [Consumers -> Requests \cup {NoRequest}]
        /\ \A w \in Consumers : scanning[w] # NoRequest <=> worker[w] = "scanning"
        /\ outcome \in [Requests -> {"pending"} \cup HandlerOutcomes]
        /\ NoRequest \notin Requests /\ StartedRequests = Ran \cup Running
        /\ started \in Seq(ScanEntries)
    BY QueueAssumption DEF PoolTypeOK, StartedRunsOrEnded
  <2>1. ASSUME NEW w \in Consumers, StartScan(w)
        PROVE  StartedRunsOrEnded'
    <3> DEFINE e == [worker |-> w, request |-> held[w], late |-> w \in done]
    <3>1. held[w] \in Requests
      BY <2>1 DEF StartScan, PoolTypeOK, QueueTypeOK
    <3>2. e \in ScanEntries /\ e.request = held[w]
      BY <3>1 DEF ScanEntries
    <3>3. /\ started' = Append(started, e)
          /\ scanning' = [scanning EXCEPT ![w] = held[w]] /\ UNCHANGED outcome
          /\ worker[w] = "dequeue"
      BY <2>1 DEF StartScan, WorkerMoves
    <3> HIDE DEF e
    <3>4. /\ \A i \in DOMAIN started' :
                \/ i = Len(started) + 1 /\ started'[i] = e
                \/ i \in DOMAIN started /\ started'[i] = started[i]
          /\ \A i \in DOMAIN started : i \in DOMAIN started' /\ started'[i] = started[i]
          /\ Len(started) + 1 \in DOMAIN started' /\ started'[Len(started) + 1] = e
      BY <2>0, <3>2, <3>3, AppendIndices
    <3>5. StartedRequests' = StartedRequests \cup {held[w]}
      BY <3>2, <3>4 DEF StartedRequests
    <3>6. Running' = Running \cup {held[w]}
      BY <2>0, <3>1, <3>3
    <3>7. Ran' = Ran
      BY <3>3
    <3>8. QED
      BY <2>0, <3>5, <3>6, <3>7 DEF StartedRunsOrEnded
  <2>2. ASSUME NEW w \in Consumers, EndScan(w)
        PROVE  StartedRunsOrEnded'
    <3>1. scanning[w] \in Requests
      BY <2>0, <2>2 DEF EndScan, WorkerMoves
    <3>2. /\ \E how \in HandlerOutcomes : outcome' = [outcome EXCEPT ![scanning[w]] = how]
          /\ scanning' = [scanning EXCEPT ![w] = NoRequest] /\ UNCHANGED started
      BY <2>2 DEF EndScan
    <3>3. Ran' = Ran \cup {scanning[w]}
      BY <2>0, <3>1, <3>2 DEF HandlerOutcomes
    <3>4. Running = Running' \cup {scanning[w]}
      BY <2>0, <3>1, <3>2
    <3>5. QED
      BY <2>0, <3>2, <3>3, <3>4 DEF StartedRunsOrEnded, StartedRequests
  <2>3. CASE UNCHANGED <<started, scanning, outcome>>
    BY <2>3 DEF StartedRunsOrEnded, StartedRequests
  <2>4. QED
    BY <2>1, <2>2, <2>3, PoolSteps DEF poolOnly, StartWorker, LoopCheck, DequeueFailed,
       StopCall, StopCancel, StopGraceful, StopTimeout, StopUnblock, WaitReturns
<1>3. QED
  BY <1>1, <1>2, PoolTyping, PTL DEF PoolSpec

\* Only a worker that is in Dequeue has a call of Dequeue under way.
THEOREM OnlyDequeueReceives ==
  PoolSpec => [](\A w \in Consumers : deq[w] # "idle" => worker[w] = "dequeue")
<1> DEFINE Inside == \A w \in Consumers : deq[w] # "idle" => worker[w] = "dequeue"
<1>1. PoolInit => Inside
  BY DEF PoolInit, QueueInit
<1>2. PoolTypeOK /\ Inside /\ [PoolNext]_poolVars => Inside'
  <2> SUFFICES ASSUME PoolTypeOK, Inside, [PoolNext]_poolVars
               PROVE  Inside'
    OBVIOUS
  <2> USE DEF PoolTypeOK, QueueTypeOK
  <2>1. ASSUME NEW w \in Consumers, StartWorker(w) \/ LoopCheck(w) \/ EndScan(w)
        PROVE  Inside'
    BY <2>1 DEF StartWorker, LoopCheck, EndScan, WorkerMoves, queueVars
  <2>2. ASSUME NEW w \in Consumers, WorkerDequeues(w)
        PROVE  Inside'
    BY <2>2 DEF WorkerDequeues, poolOnly, DequeueStep, DequeueMoves, DequeueReceive,
          DequeuePark, DequeueClosed, DequeueCancelled, DequeueCount
  <2>3. ASSUME NEW w \in Consumers, DequeueFailed(w) \/ StartScan(w)
        PROVE  Inside'
    BY <2>3 DEF DequeueFailed, StartScan, WorkerMoves, DequeueReturn
  <2>4. ASSUME NEW s \in Stoppers, StopCall(s) \/ StopStep(s)
        PROVE  Inside'
    BY <2>4 DEF StopCall, StopStep, StopCancel, CancelConsumers, WakeParked, Parked,
          StopGraceful, StopTimeout, StopUnblock, queueVars
  <2>5. ASSUME ClientStep
        PROVE  Inside'
    <3>1. ASSUME NEW r \in Requests, EnqueueStep(r)
          PROVE  deq' = deq \/ \E c \in Consumers : EnqueueHandOff(r, c)
      BY <3>1 DEF EnqueueStep, EnqueueCheck, EnqueueSend, EnqueuePanic, EnqueueCancelled,
            EnqueueFull, EnqueueCount
    <3>2. ASSUME NEW r \in Requests, NEW c \in Consumers, EnqueueHandOff(r, c)
          PROVE  \A w \in Consumers : deq'[w] # "idle" => deq[w] # "idle"
      BY <3>2 DEF EnqueueHandOff, Parked
    <3>3. CASE Close
      BY <2>5, <3>3 DEF ClientStep, poolOnly, Close, WakeParked, Parked
    <3>4. QED
      BY <2>5, <3>1, <3>2, <3>3 DEF ClientStep, poolOnly, CancelEnqueue
  <2>6. CASE WaitReturns \/ UNCHANGED poolVars
    BY <2>6 DEF WaitReturns, poolVars, poolOnly, queueVars
  <2>7. QED
    BY <2>1, <2>2, <2>3, <2>4, <2>5, <2>6 DEF PoolNext, WorkerStep
<1>3. QED
  BY <1>1, <1>2, PoolTyping, PTL DEF PoolSpec

\* What the runs check of the pool as one invariant, for any number of workers: a request
\* is at one place on its way, and no worker is lost or stays.
THEOREM PoolInvariant == PoolSpec => []PoolInv
BY PoolTyping, EachIsScannedOnce, EachScanEnds, ExitsHaveReasons, LateScans, StopIsOne, PTL
   DEF PoolInv
================================================================================
