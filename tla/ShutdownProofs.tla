------------------------------ MODULE ShutdownProofs ------------------------------
(***************************************************************************)
(* Proofs about the two ways the repository has to shut down, for any number   *)
(* of workers, requests, HTTP calls, callers and handlers: the shutdown         *)
(* manager, the process of main.go that uses it, and the coordinator.          *)
(*                                                                         *)
(* ManagerInv is inductive: that there is one shutdown needs the flag, which   *)
(* ManagerTypeOK ties to the callers, and that its wait is over needs that      *)
(* there is one, because a second would launch handlers again.                *)
(*                                                                         *)
(* The process is a pool and a manager, so that what is proved of each holds in *)
(* it; HandlersDoTheirWork then says what the end of each handler means for the *)
(* component the handler stops.                                             *)
(*                                                                         *)
(* With the coordinator the pool is the same; StepsInOrder says how far each    *)
(* step has got: when the queue is closed, the calls of Enqueue that passed the *)
(* check before are over.                                                   *)
(***************************************************************************)
EXTENDS ScannerService, CoordinatedService, WorkerPoolProofs

--------------------------------------------------------------------------------
(* The shutdown manager *)

\* The initial state of the manager is one of the invariant.
LEMMA ManagerStarts == ManagerInit => ManagerInv
<1> SUFFICES ASSUME ManagerInit
             PROVE  ManagerInv
  OBVIOUS
<1> USE DEF ManagerInit
<1>0. signals \in 0 .. SignalBuffer /\ registered \subseteq Handlers /\ plan \subseteq registered
  BY DEF SignalBuffer
<1>1. shuttingDown = FALSE /\ expired = FALSE /\ allRun = FALSE
  OBVIOUS
<1>2. /\ call \in [Callers -> CallStates]
      /\ trigger \in [Triggers -> {"idle", "sent"}]
      /\ run \in [Handlers -> RunStates]
  BY DEF CallStates, RunStates
<1>3. \A c \in Callers :
          call[c] \notin {"begun", "waiting", "completed", "timeout"} \cup ShutdownResults
  BY DEF ShutdownResults
<1> HIDE DEF ManagerInit
<1>4. ManagerTypeOK
  BY <1>0, <1>1, <1>2, <1>3 DEF ManagerTypeOK
<1>5. OneRunner /\ DoneMeansEnded
  BY <1>1, <1>3 DEF OneRunner, DoneMeansEnded
<1>6. QED
  BY <1>4, <1>5 DEF ManagerInv

\* The steps of one caller, whatever it calls.
LEMMA CallerSteps ==
  ASSUME NEW c \in Callers, WaitForShutdown(c) \/ ShutdownBegins(c) \/ CallStep(c)
  PROVE  \/ WaitForShutdown(c) \/ ReceiveSignal(c) \/ ShutdownBegins(c)
         \/ LaunchHandlers(c) \/ ShutdownCompletes(c) \/ ShutdownTimesOut(c)
BY DEF CallStep

\* Every step of the manager keeps its invariant.
LEMMA ManagerSteps == ManagerInv /\ [ManagerNext]_managerVars => ManagerInv'
<1> SUFFICES ASSUME ManagerInv, [ManagerNext]_managerVars
             PROVE  ManagerInv'
  OBVIOUS
<1> USE DEF ManagerInv, ManagerTypeOK, OneRunner, DoneMeansEnded, Ended
<1>1. ASSUME NEW h \in Handlers, RegisterHandler(h)
      PROVE  ManagerInv'
  BY <1>1 DEF RegisterHandler
<1>2. ASSUME NEW h \in Handlers, HandlerStarts(h)
      PROVE  ManagerInv'
  BY <1>2 DEF HandlerStarts, RunMoves, RunStates, HandlerEnds
<1>3. ASSUME NEW h \in Handlers, HandlerReturns(h)
      PROVE  ManagerInv'
  BY <1>3 DEF HandlerReturns, RunMoves, RunStates, HandlerEnds
<1>4. ASSUME NEW c \in Callers, WaitForShutdown(c)
      PROVE  ManagerInv'
  BY <1>4 DEF WaitForShutdown, CallMoves, CallStates, ShutdownResults
<1>5. ASSUME NEW c \in Callers, ReceiveSignal(c)
      PROVE  ManagerInv'
  BY <1>5 DEF ReceiveSignal, CallMoves, CallStates, ShutdownResults, SignalBuffer
<1>6. ASSUME NEW c \in Callers, ShutdownBegins(c)
      PROVE  ManagerInv'
  <2>1. CASE shuttingDown
    BY <1>6, <2>1 DEF ShutdownBegins, CallMoves, CallStates, ShutdownResults
  <2>2. CASE ~shuttingDown
    \* Nobody has gone past the flag, so that the caller is alone.
    <3>1. \A d \in Callers : call[d] \notin {"begun", "waiting"} \cup ShutdownResults
      BY <2>2
    <3>2. QED
      BY <1>6, <2>2, <3>1 DEF ShutdownBegins, CallMoves, CallStates, ShutdownResults
  <2>3. QED
    BY <2>1, <2>2
<1>7. ASSUME NEW c \in Callers, LaunchHandlers(c)
      PROVE  ManagerInv'
  \* The caller is the only one past the flag, so that no wait is over yet.
  <2>1. ~allRun
    BY <1>7 DEF LaunchHandlers, CallMoves
  <2>2. ManagerTypeOK'
    BY <1>7 DEF LaunchHandlers, CallMoves, CallStates, RunStates, ShutdownResults
  <2>3. OneRunner' /\ DoneMeansEnded'
    BY <1>7, <2>1 DEF LaunchHandlers, CallMoves, CallStates
  <2>4. QED
    BY <2>2, <2>3
<1>8. ASSUME NEW c \in Callers, ShutdownCompletes(c)
      PROVE  ManagerInv'
  BY <1>8 DEF ShutdownCompletes, CallMoves, CallStates, ShutdownResults
<1>9. ASSUME NEW c \in Callers, ShutdownTimesOut(c)
      PROVE  ManagerInv'
  BY <1>9 DEF ShutdownTimesOut, CallMoves, CallStates, ShutdownResults
<1>10. ASSUME NEW t \in Triggers, TriggerShutdown(t)
       PROVE  ManagerInv'
  BY <1>10 DEF TriggerShutdown, SignalBuffer
<1>11. CASE SignalArrives
  BY <1>11 DEF SignalArrives, SignalBuffer
<1>12. CASE ContextExpires
  BY <1>12 DEF ContextExpires
<1>13. CASE AllHandlersRan
  BY <1>13 DEF AllHandlersRan
<1>14. CASE UNCHANGED managerVars
  BY <1>14 DEF managerVars
<1>15. QED
  BY <1>1, <1>2, <1>3, <1>4, <1>5, <1>6, <1>7, <1>8, <1>9, <1>10, <1>11, <1>12, <1>13,
     <1>14, CallerSteps DEF ManagerNext

\* However many goroutines race for the shutdown, there is one, and its wait for its
\* handlers is over before it completes.
THEOREM ManagerInvariant == ManagerSpec => []ManagerInv
BY ManagerStarts, ManagerSteps, PTL DEF ManagerSpec

--------------------------------------------------------------------------------
(* The process of main.go *)

\* The handlers main has registered are the ones the shutdown runs, main is the one that
\* shuts down, and a handler that has ended has done what it was registered for.
HandlersDoTheirWork ==
    /\ registered = Handlers
    /\ call[main] \in {"waiting", "completed", "timeout"} => plan = Handlers
    /\ call[main] \notin {"listening", "signalled", "already"}
    /\ run[PoolHandler] = "ok" => stopper[PoolHandler] = "nil"
    /\ Ended(QueueHandler) => closed
    /\ run[ServerHandler] = "ok" => stop = "returned" /\ CallsDone
    /\ exited => call[main] \in {"completed", "timeout"}

\* Each kind of step of the process, as steps of its three parts.
LEMMA ServiceSteps ==
  ASSUME [ServiceNext]_serviceVars
  PROVE  \/ PoolRuns /\ UNCHANGED exited
         \/ ServerRuns /\ UNCHANGED exited
         \/ MainServes /\ UNCHANGED exited
         \/ MainShutsDown /\ UNCHANGED exited
         \/ ManagerRuns /\ UNCHANGED exited
         \/ StopPoolHandler /\ UNCHANGED exited
         \/ CloseQueueHandler /\ UNCHANGED exited
         \/ StopServerHandler /\ UNCHANGED exited
         \/ MainExits
         \/ UNCHANGED <<poolVars, managerVars, webVars, exited>>
BY DEF ServiceNext, ServiceStep, serviceVars

\* What the process does to the pool is what the pool and its clients may do.
LEMMA ServiceStepsPool == [ServiceNext]_serviceVars => [PoolNext]_poolVars
<1> SUFFICES ASSUME [ServiceNext]_serviceVars
             PROVE  [PoolNext]_poolVars
  OBVIOUS
<1>1. CASE PoolRuns
  BY <1>1 DEF PoolRuns, PoolNext, ClientStep
<1>2. CASE StopPoolHandler
  BY <1>2, ServiceAssumption DEF StopPoolHandler, PoolNext
<1>3. CASE CloseQueueHandler
  BY <1>3 DEF CloseQueueHandler, PoolNext, ClientStep
<1>4. CASE UNCHANGED poolVars
  BY <1>4
<1>5. QED
  BY <1>1, <1>2, <1>3, <1>4, ServiceSteps DEF ServerRuns, MainServes, MainShutsDown,
     ManagerRuns, StopServerHandler, MainExits

\* What the process does to the manager is what its callers and handlers may do.
LEMMA ServiceStepsManager == [ServiceNext]_serviceVars => [ManagerNext]_managerVars
<1> SUFFICES ASSUME [ServiceNext]_serviceVars
             PROVE  [ManagerNext]_managerVars
  OBVIOUS
<1>0. /\ main \in Callers
      /\ PoolHandler \in Handlers /\ QueueHandler \in Handlers /\ ServerHandler \in Handlers
  BY ServiceAssumption
<1>1. CASE MainShutsDown
  BY <1>0, <1>1 DEF MainShutsDown, ManagerNext
<1>2. CASE ManagerRuns
  BY <1>0, <1>2 DEF ManagerRuns, ManagerNext
<1>3. CASE StopPoolHandler
  BY <1>0, <1>3 DEF StopPoolHandler, ManagerNext
<1>4. CASE CloseQueueHandler
  BY <1>0, <1>4 DEF CloseQueueHandler, ManagerNext
<1>5. CASE StopServerHandler
  BY <1>0, <1>5 DEF StopServerHandler, ManagerNext
<1>6. CASE UNCHANGED managerVars
  BY <1>6
<1>7. QED
  BY <1>1, <1>2, <1>3, <1>4, <1>5, <1>6, ServiceSteps DEF PoolRuns, ServerRuns, MainServes,
     MainExits

\* The pool in the process is a pool: every theorem about it holds in the process.
THEOREM ServiceUsesPool == ServiceSpec => PoolSpec
<1>1. ServiceInit => PoolInit
  BY DEF ServiceInit
<1>2. QED
  BY <1>1, ServiceStepsPool, PTL DEF ServiceSpec, PoolSpec

\* main starts with its handlers registered, which the manager alone would do later.
LEMMA ServiceStartsManager == ServiceInit => ManagerInv
<1> SUFFICES ASSUME ServiceInit
             PROVE  ManagerInv
  OBVIOUS
<1>1. /\ registered = Handlers /\ plan = {}
      /\ shuttingDown = FALSE /\ expired = FALSE /\ allRun = FALSE
      /\ signals \in 0 .. SignalBuffer
  BY DEF ServiceInit, SignalBuffer
<1>2. /\ call \in [Callers -> CallStates]
      /\ trigger \in [Triggers -> {"idle", "sent"}]
      /\ run \in [Handlers -> RunStates]
  BY DEF ServiceInit, CallStates, RunStates
<1>3. \A c \in Callers :
          call[c] \notin {"begun", "waiting", "completed", "timeout"} \cup ShutdownResults
  BY DEF ServiceInit, ShutdownResults
<1>4. ManagerTypeOK
  BY <1>1, <1>2, <1>3 DEF ManagerTypeOK
<1>5. OneRunner /\ DoneMeansEnded
  BY <1>1, <1>3 DEF OneRunner, DoneMeansEnded
<1>6. QED
  BY <1>4, <1>5 DEF ManagerInv

\* The manager in the process keeps its invariant.
THEOREM ServiceKeepsManager == ServiceSpec => []ManagerInv
BY ServiceStartsManager, ServiceStepsManager, ManagerSteps, PTL DEF ServiceSpec

\* What a concatenation holds is in one part or the other.
LEMMA RangeOfConcat ==
  ASSUME NEW S, NEW s \in Seq(S), NEW t \in Seq(S)
  PROVE  Range(s \o t) \subseteq Range(s) \cup Range(t)
<1>1. /\ Len(s) \in Nat /\ Len(t) \in Nat
      /\ DOMAIN s = 1 .. Len(s) /\ DOMAIN t = 1 .. Len(t)
      /\ DOMAIN (s \o t) = 1 .. Len(s) + Len(t)
      /\ \A i \in 1 .. Len(s) + Len(t) : (s \o t)[i] =
            IF i <= Len(s) THEN s[i] ELSE t[i - Len(s)]
  BY ConcatProperties, LenProperties
<1>2. ASSUME NEW i \in 1 .. Len(s) + Len(t)
      PROVE  (s \o t)[i] \in Range(s) \cup Range(t)
  <2>1. CASE i <= Len(s)
    BY <1>1, <2>1 DEF Range
  <2>2. CASE i > Len(s)
    <3>1. i - Len(s) \in 1 .. Len(t)
      BY <1>1, <2>2
    <3>2. QED
      BY <1>1, <2>2, <3>1 DEF Range
  <2>3. QED
    BY <1>1, <2>1, <2>2
<1>3. QED
  BY <1>1, <1>2 DEF Range

--------------------------------------------------------------------------------

\* What the pool never takes back: a started pool, a Stop that returned nil, a closed
\* queue; and nobody calls Stop before somebody is first.
LEMMA PoolKeeps ==
  ASSUME [PoolNext]_poolVars, PoolTypeOK
  PROVE  /\ AllStarted => AllStarted'
         /\ \A s \in Stoppers : stopper[s] = "nil" => stopper'[s] = "nil"
         /\ closed => closed'
<1>1. closed => closed'
  BY PoolStepsQueue, NothingComesBack
<1>2. AllStarted => AllStarted'
  BY PoolSteps DEF PoolTypeOK, AllStarted, poolOnly, StartWorker, LoopCheck, DequeueFailed,
     StartScan, EndScan, WorkerMoves, StopCall, StopCancel, StopGraceful, StopTimeout,
     StopUnblock, WaitReturns
<1>3. \A s \in Stoppers : stopper[s] = "nil" => stopper'[s] = "nil"
  BY PoolSteps DEF PoolTypeOK, poolOnly, StartWorker, LoopCheck, DequeueFailed, StartScan,
     EndScan, StopMoves, StopCall, StopCancel, StopGraceful, StopTimeout, StopUnblock,
     WaitReturns
<1>4. QED
  BY <1>1, <1>2, <1>3

\* Whoever calls Stop, somebody is the first.
LEMMA StopHasFirst == PoolSpec => [](first = NoStopper => \A s \in Stoppers : stopper[s] = "idle")
<1> DEFINE Idle == first = NoStopper => \A s \in Stoppers : stopper[s] = "idle"
<1>1. PoolInit => Idle
  BY DEF PoolInit
<1>2. PoolTypeOK /\ Idle /\ [PoolNext]_poolVars => Idle'
  <2> SUFFICES ASSUME PoolTypeOK, Idle, [PoolNext]_poolVars
               PROVE  Idle'
    OBVIOUS
  <2> USE PoolAssumption DEF PoolTypeOK
  <2>1. ASSUME NEW s \in Stoppers, StopCall(s)
        PROVE  Idle'
    BY <2>1 DEF StopCall
  <2>2. ASSUME NEW s \in Stoppers,
               StopCancel(s) \/ StopGraceful(s) \/ StopTimeout(s) \/ StopUnblock(s)
        PROVE  Idle'
    BY <2>2 DEF StopCancel, StopGraceful, StopTimeout, StopUnblock, StopMoves
  <2>3. CASE UNCHANGED <<first, stopper>>
    BY <2>3
  <2>4. QED
    BY <2>1, <2>2, <2>3, PoolSteps DEF poolOnly, StartWorker, LoopCheck, DequeueFailed,
       StartScan, EndScan, WaitReturns
<1>3. QED
  BY <1>1, <1>2, PoolTyping, PTL DEF PoolSpec

\* The server takes no request once it is shut down, and one that is answered stays so.
LEMMA WebKeeps ==
  ASSUME WebStep
  PROVE  /\ UNCHANGED stop
         /\ stop = "returned" /\ CallsDone => CallsDone'
<1>1. ASSUME NEW h \in Calls, CallArrives(h) \/ CallAnswered(h)
      PROVE  UNCHANGED stop /\ (stop = "returned" /\ CallsDone => CallsDone')
  BY <1>1 DEF CallArrives, CallAnswered, Closing, CallsDone, Answers
<1>2. CASE StartSetsReady \/ ServerListens \/ ServerFails \/ StartReturns
  BY <1>2 DEF StartSetsReady, ServerListens, ServerFails, StartReturns, CallsDone
<1>3. QED
  BY <1>1, <1>2 DEF WebStep

\* A handler of the shutdown that has ended has done its work.
THEOREM HandlersWork == ServiceSpec => []HandlersDoTheirWork
<1>0. /\ main \in Callers
      /\ PoolHandler \in Handlers /\ QueueHandler \in Handlers /\ ServerHandler \in Handlers
      /\ PoolHandler # QueueHandler /\ PoolHandler # ServerHandler /\ QueueHandler # ServerHandler
  BY ServiceAssumption DEF PoolHandler, QueueHandler, ServerHandler
<1>1. ServiceInit => HandlersDoTheirWork
  BY <1>0 DEF ServiceInit, HandlersDoTheirWork, Ended, HandlerEnds
<1>2. PoolTypeOK /\ ManagerInv /\ HandlersDoTheirWork /\ [ServiceNext]_serviceVars
        => HandlersDoTheirWork'
  <2> SUFFICES ASSUME PoolTypeOK, ManagerInv, HandlersDoTheirWork, [ServiceNext]_serviceVars
               PROVE  HandlersDoTheirWork'
    OBVIOUS
  <2>0. /\ closed => closed'
        /\ stopper[PoolHandler] = "nil" => stopper'[PoolHandler] = "nil"
    BY ServiceStepsPool, PoolKeeps, ServiceAssumption
  <2> USE <1>0, <2>0, ServiceAssumption
      DEF HandlersDoTheirWork, Ended, HandlerEnds, ManagerInv, ManagerTypeOK
  <2>1. CASE PoolRuns /\ UNCHANGED exited
    BY <2>1 DEF PoolRuns, managerVars, webVars, CallsDone
  <2>2. CASE ServerRuns /\ UNCHANGED exited
    BY <2>2, WebKeeps DEF ServerRuns, managerVars
  <2>3. CASE MainServes /\ UNCHANGED exited
    BY <2>3 DEF MainServes, ServerSpawned, managerVars, CallsDone
  <2>4. CASE MainShutsDown /\ UNCHANGED exited
    \* main is the only caller, and it has not begun a shutdown before.
    <3>1. call[main] = "idle" /\ ~shuttingDown
      BY <2>4 DEF MainShutsDown, ShutdownBegins, CallMoves, ShutdownResults
    <3>2. QED
      BY <2>4, <3>1 DEF MainShutsDown, ShutdownBegins, CallMoves, webVars, CallsDone
  <2>5. CASE ManagerRuns /\ UNCHANGED exited
    <3>1. UNCHANGED <<webVars, exited, registered>>
      BY <2>5 DEF ManagerRuns, CallStep, ReceiveSignal, ShutdownBegins, LaunchHandlers,
         ShutdownCompletes, ShutdownTimesOut, ContextExpires, AllHandlersRan, HandlerStarts
    <3>2. CASE LaunchHandlers(main)
      BY <3>1, <3>2 DEF LaunchHandlers, CallMoves, webVars, CallsDone
    <3>3. CASE ShutdownCompletes(main) \/ ShutdownTimesOut(main)
      BY <3>1, <3>3 DEF ShutdownCompletes, ShutdownTimesOut, CallMoves, webVars, CallsDone
    <3>4. ASSUME NEW h \in Handlers, HandlerStarts(h)
          PROVE  HandlersDoTheirWork'
      BY <3>1, <3>4 DEF HandlerStarts, RunMoves, webVars, CallsDone
    <3>5. CASE ContextExpires \/ AllHandlersRan
      BY <3>1, <3>5 DEF ContextExpires, AllHandlersRan, webVars, CallsDone
    <3>6. QED
      BY <2>5, <3>2, <3>3, <3>4, <3>5 DEF ManagerRuns, CallStep, ReceiveSignal, CallMoves
  <2>6. CASE StopPoolHandler /\ UNCHANGED exited
    <3>1. CASE UNCHANGED managerVars
      BY <2>6, <3>1 DEF StopPoolHandler, managerVars, webVars, CallsDone
    <3>2. CASE HandlerReturns(PoolHandler) /\ UNCHANGED poolVars /\ UNCHANGED webVars
                 /\ (run'[PoolHandler] = "ok" => stopper[PoolHandler] = "nil")
      BY <2>6, <3>2 DEF HandlerReturns, RunMoves, webVars, CallsDone
    <3>3. QED
      BY <2>6, <3>1, <3>2 DEF StopPoolHandler
  <2>7. CASE CloseQueueHandler /\ UNCHANGED exited
    BY <2>7 DEF CloseQueueHandler, Close, HandlerReturns, RunMoves, webVars, CallsDone, poolOnly
  <2>8. CASE StopServerHandler /\ UNCHANGED exited
    <3>1. CASE UNCHANGED managerVars
      BY <2>8, <3>1 DEF StopServerHandler, managerVars, ShutdownClearsReady, ShutdownCloses
    <3>2. CASE ShutdownReturnsNil /\ HandlerReturns(ServerHandler)
      BY <2>8, <3>2 DEF ShutdownReturnsNil, HandlerReturns, RunMoves, CallsDone
    <3>3. CASE HandlerReturns(ServerHandler) /\ run'[ServerHandler] = "failed"
      BY <2>8, <3>3 DEF StopServerHandler, HandlerReturns, RunMoves, CallsDone
    <3>4. QED
      BY <2>8, <3>1, <3>2, <3>3 DEF StopServerHandler
  <2>9. CASE MainExits
    BY <2>9 DEF MainExits, managerVars, webVars, CallsDone, ShutdownResults
  <2>10. CASE UNCHANGED <<poolVars, managerVars, webVars, exited>>
    BY <2>10 DEF managerVars, webVars, CallsDone
  <2>11. QED
    BY <2>1, <2>2, <2>3, <2>4, <2>5, <2>6, <2>7, <2>8, <2>9, <2>10, ServiceSteps
<1>3. ServiceSpec => []PoolTypeOK
  BY ServiceUsesPool, PoolTyping, PTL
<1>4. QED
  BY <1>1, <1>2, <1>3, ServiceKeepsManager, PTL DEF ServiceSpec
--------------------------------------------------------------------------------

\* When the process exits after a complete shutdown whose pool stopped in time, no worker
\* and no scan is left and nothing accepted is lost but what the queue still holds; when
\* the server stopped in time, no request is left.
THEOREM ExitIsQuiet == ServiceSpec => []CleanExitIsQuiet
<1> DEFINE Idle == first = NoStopper => \A s \in Stoppers : stopper[s] = "idle"
           Inside == \A w \in Consumers : deq[w] # "idle" => worker[w] = "dequeue"
<1>1. /\ PoolInv /\ GracefulStopIsQuiet /\ Idle /\ Inside
      /\ ManagerInv /\ HandlersDoTheirWork /\ FifoOrder /\ AcceptedExactlyOnce
      => CleanExitIsQuiet
  <2> SUFFICES ASSUME PoolInv, GracefulStopIsQuiet, Idle, Inside, ManagerInv,
                      HandlersDoTheirWork, FifoOrder, AcceptedExactlyOnce, exited
               PROVE  CleanExitIsQuiet
    BY DEF CleanExitIsQuiet
  <2>1. call[main] \in {"completed", "timeout"}
    BY DEF HandlersDoTheirWork
  <2>2. run[ServerHandler] = "ok" => CallsDone
    BY DEF HandlersDoTheirWork
  <2>3. ASSUME call[main] = "completed", run[PoolHandler] = "ok"
        PROVE  /\ closed
               /\ \A w \in Consumers : worker[w] = "exited" /\ scanning[w] = NoRequest
               /\ \A r \in Requests : enq[r] = "accepted" =>
                      outcome[r] # "pending" \/ r \in Range(queue)
    <3>1. closed
      BY <2>3, ServiceAssumption DEF HandlersDoTheirWork, ManagerInv, DoneMeansEnded
    <3>2. OnceIsDone /\ stopper[first] = "nil"
      <4>1. stopper[PoolHandler] = "nil" /\ Stoppers = {PoolHandler}
        BY <2>3, ServiceAssumption DEF HandlersDoTheirWork
      <4>2. first = PoolHandler /\ first # NoStopper
        BY <4>1, PoolAssumption DEF PoolInv, PoolTypeOK
      <4>3. QED
        BY <4>1, <4>2 DEF OnceIsDone, StopResults
    <3>3. \A w \in Consumers : worker[w] = "exited" /\ scanning[w] = NoRequest
      BY <3>2 DEF GracefulStopIsQuiet
    <3>4. ASSUME NEW r \in Requests, enq[r] = "accepted", r \notin Range(queue)
          PROVE  outcome[r] # "pending"
      <4>1. r \in Range(received)
        <5>1. r \in Range(received \o queue)
          BY <3>4 DEF AcceptedExactlyOnce, FifoOrder
        <5>2. received \in Seq(Requests) /\ queue \in Seq(Requests)
          BY DEF PoolInv, PoolTypeOK, QueueTypeOK
        <5>3. QED
          BY <3>4, <5>1, <5>2, RangeOfConcat
      \* Whoever still holds a request is inside Dequeue, and every worker has left it.
      <4>2. \A w \in Consumers : held[w] = NoRequest
        <5>1. \A w \in Consumers : deq[w] = "idle"
          BY <3>3
        <5>2. QED
          BY <5>1 DEF PoolInv, PoolTypeOK, QueueTypeOK
      <4>3. r \in StartedRequests
        BY <4>1, <4>2, QueueAssumption DEF PoolInv, ReceivedIsScanned
      <4>4. r # NoRequest
        BY QueueAssumption
      <4>5. QED
        BY <3>3, <4>3, <4>4 DEF PoolInv, StartedRunsOrEnded
    <3>5. QED
      BY <3>1, <3>3, <3>4
  <2>4. QED
    BY <2>1, <2>2, <2>3 DEF CleanExitIsQuiet
<1>2. PoolSpec => [](PoolInv /\ GracefulStopIsQuiet /\ Idle /\ Inside)
  BY PoolInvariant, NilStopIsQuiet, StopHasFirst, OnlyDequeueReceives, PTL
<1>3. PoolSpec => [](FifoOrder /\ AcceptedExactlyOnce)
  BY PoolUsesQueue, FirstInFirstOut, AcceptedOnce, PTL
<1>4. QED
  BY <1>1, <1>2, <1>3, ServiceUsesPool, ServiceKeepsManager, HandlersWork, PTL

\* Nobody is told "ready", and no webhook is accepted, before every worker was started.
THEOREM AnswersNeedThePool == ServiceSpec => []AnsweredByStartedPool
<1> DEFINE Served == /\ WebTypeOK
                     /\ server # "none" => AllStarted
                     /\ \A h \in Calls : http[h] # "none" => server # "none"
<1>1. ServiceInit => Served
  BY DEF ServiceInit, WebInit, WebTypeOK
<1>2. PoolTypeOK /\ Served /\ [ServiceNext]_serviceVars => Served'
  <2> SUFFICES ASSUME PoolTypeOK, Served, [ServiceNext]_serviceVars
               PROVE  Served'
    OBVIOUS
  <2>0. AllStarted => AllStarted'
    BY ServiceStepsPool, PoolKeeps
  <2> USE <2>0 DEF WebTypeOK, Answers
  <2>1. CASE UNCHANGED webVars
    BY <2>1 DEF webVars
  <2>2. CASE MainServes
    BY <2>2 DEF MainServes, ServerSpawned
  <2>3. CASE StartSetsReady \/ ServerListens \/ ServerFails \/ StartReturns
    BY <2>3 DEF StartSetsReady, ServerListens, ServerFails, StartReturns
  <2>4. ASSUME NEW h \in Calls, CallArrives(h)
        PROVE  Served'
    BY <2>4 DEF CallArrives
  <2>5. ASSUME NEW h \in Calls, CallAnswered(h)
        PROVE  Served'
    BY <2>5 DEF CallAnswered
  <2>6. CASE StopServerHandler
    BY <2>6 DEF StopServerHandler, ShutdownClearsReady, ShutdownCloses, ShutdownReturnsNil,
       ShutdownReturnsError
  <2>7. QED
    BY <2>1, <2>2, <2>3, <2>4, <2>5, <2>6, ServiceSteps DEF PoolRuns, ServerRuns, WebStep,
       MainShutsDown, ManagerRuns, StopPoolHandler, CloseQueueHandler, MainExits
<1>3. Served => AnsweredByStartedPool
  BY DEF AnsweredByStartedPool, WebTypeOK
<1>4. ServiceSpec => []PoolTypeOK
  BY ServiceUsesPool, PoolTyping, PTL
<1>5. QED
  BY <1>1, <1>2, <1>3, <1>4, PTL DEF ServiceSpec

--------------------------------------------------------------------------------
(* The shutdown by ShutdownCoordinator *)

\* What the coordinator and the clients it lets in do is what the pool may do.
LEMMA CoordinatedStepsPool == [CoordinatedNext]_coordinatedVars => [PoolNext]_poolVars
<1> SUFFICES ASSUME [CoordinatedNext]_coordinatedVars
             PROVE  [PoolNext]_poolVars
  OBVIOUS
<1>1. CASE PoolAtWork
  BY <1>1 DEF PoolAtWork, PoolNext, ClientStep
<1>2. CASE StopWorkerPool
  BY <1>2, CoordinatorAssumption DEF StopWorkerPool, PoolNext
<1>3. CASE CloseTheQueue
  BY <1>3 DEF CloseTheQueue, PoolNext, ClientStep
<1>4. CASE UNCHANGED poolVars
  BY <1>4
<1>5. QED
  BY <1>1, <1>2, <1>3, <1>4
     DEF CoordinatedNext, CoordinatorStep, ExecuteShutdown, SkipStep, StopAcceptingRequests,
         CleanupResources, coordinatedVars

\* The coordinator uses the pool as the pool allows, whatever of it is configured: what is
\* proved of the pool holds under the coordinator.
THEOREM CoordinatorUsesPool == CoordinatedSpec => PoolSpec
<1>1. CoordinatedInit => PoolInit
  BY DEF CoordinatedInit
<1>2. QED
  BY <1>1, CoordinatedStepsPool, PTL DEF CoordinatedSpec, PoolSpec

\* How far each step has got: the queue is open until its turn and closed after it, nobody
\* is let in once requests were stopped, the pool's Stop has returned once its turn is over,
\* nothing is cleaned up before the end, and it is the coordinator's call that stops the pool.
StepsInOrder ==
    /\ step \in 0 .. 5 /\ accepting \in BOOLEAN
    /\ step <= 4 => ~cleaned
    /\ step <= 3 => ~closed
    /\ "stopAcceptingRequests" \in configured /\ step > 1 => ~accepting
    /\ "stopWorkerPool" \in configured /\ step > 2 => stopper[coordinator] \in StopResults
    /\ "closeQueue" \in configured /\ step > 3 => closed
    /\ stopper[coordinator] # "idle" => first = coordinator

LEMMA Turns ==
  /\ DOMAIN Order = {1, 2, 3, 4}
  /\ Order[1] = "stopAcceptingRequests" /\ Order[2] = "stopWorkerPool"
  /\ Order[3] = "closeQueue" /\ Order[4] = "cleanupResources"
BY DEF Order

\* The pool and its clients do not close the queue, and do not take Stop's answer back.
LEMMA PoolKeepsOrder ==
  ASSUME PoolTypeOK, PoolAtWork
  PROVE  /\ UNCHANGED <<closed, first, configured, step, accepting, cleaned>>
         /\ stopper'[coordinator] # "idle" => stopper[coordinator] # "idle"
         /\ stopper[coordinator] \in StopResults => stopper'[coordinator] = stopper[coordinator]
<1>1. ASSUME NEW w \in Consumers, WorkerStep(w)
      PROVE  UNCHANGED <<closed, first, stopper>>
  BY <1>1 DEF WorkerStep, StartWorker, LoopCheck, WorkerDequeues, DequeueFailed, StartScan,
     EndScan, DequeueStep, DequeueReceive, DequeuePark, DequeueClosed, DequeueCancelled,
     DequeueCount, DequeueReturn, queueVars, poolOnly
<1>2. ASSUME NEW s \in Stoppers, StopStep(s)
      PROVE  /\ UNCHANGED <<closed, first>>
             /\ stopper'[coordinator] # "idle" => stopper[coordinator] # "idle"
             /\ stopper[coordinator] \in StopResults => stopper'[coordinator] = stopper[coordinator]
  BY <1>2, CoordinatorAssumption DEF StopStep, StopCancel, StopGraceful, StopTimeout,
     StopUnblock, StopMoves, StopResults, CancelConsumers, queueVars, PoolTypeOK
<1>3. WaitReturns => UNCHANGED <<closed, first, stopper>>
  BY DEF WaitReturns, queueVars
<1>4. ASSUME NEW r \in Requests, EnqueueStep(r), UNCHANGED poolOnly
      PROVE  UNCHANGED <<closed, first, stopper>>
  BY <1>4 DEF EnqueueStep, EnqueueCheck, EnqueueSend, EnqueueHandOff, EnqueuePanic,
     EnqueueCancelled, EnqueueFull, EnqueueCount, poolOnly
<1>5. UNCHANGED <<configured, step, accepting, cleaned>>
  BY DEF PoolAtWork, coordinatorOnly
<1>6. QED
  BY <1>1, <1>2, <1>3, <1>4, <1>5 DEF PoolAtWork

\* The steps of the coordinator keep their own order.
LEMMA CoordinatorInOrder ==
  ASSUME PoolTypeOK, StepsInOrder, ExecuteShutdown \/ CoordinatorStep
  PROVE  StepsInOrder'
<1> USE CoordinatorAssumption, PoolAssumption, Turns DEF StepsInOrder, Turn
<1>1. CASE ExecuteShutdown
  BY <1>1 DEF ExecuteShutdown, poolVars, queueVars, poolOnly
<1>2. CASE SkipStep
  BY <1>2 DEF SkipStep, poolVars, queueVars, poolOnly
<1>3. CASE StopAcceptingRequests
  <2>1. step = 1 /\ step' = 2 /\ accepting' = FALSE
        /\ UNCHANGED <<closed, first, stopper, configured, cleaned>>
    BY <1>3 DEF StopAcceptingRequests, poolVars, queueVars, poolOnly
  <2>2. accepting' \in BOOLEAN
    BY <2>1, Zenon
  <2>3. QED
    BY <2>1, <2>2
<1>4. CASE StopWorkerPool
  <2>1. step = 2 /\ UNCHANGED <<configured, accepting, cleaned>>
    BY <1>4 DEF StopWorkerPool
  <2>2. CASE StopCall(coordinator) /\ UNCHANGED step
    BY <2>1, <2>2 DEF StopCall, StopMoves, PoolTypeOK, queueVars
  <2>3. CASE stopper[coordinator] \in StopResults /\ step' = step + 1 /\ UNCHANGED poolVars
    BY <2>1, <2>3 DEF poolVars, queueVars, poolOnly
  <2>4. QED
    BY <1>4, <2>2, <2>3 DEF StopWorkerPool
<1>5. CASE CloseTheQueue
  BY <1>5 DEF CloseTheQueue, Close, poolOnly
<1>6. CASE CleanupResources
  BY <1>6 DEF CleanupResources, poolVars, queueVars, poolOnly
<1>7. QED
  BY <1>1, <1>2, <1>3, <1>4, <1>5, <1>6 DEF CoordinatorStep

\* The steps of the shutdown are taken in order, whichever of them are configured.
THEOREM StepsAreInOrder == CoordinatedSpec => []StepsInOrder
<1>1. CoordinatedInit => StepsInOrder
  BY CoordinatorAssumption DEF CoordinatedInit, PoolInit, QueueInit, StepsInOrder
<1>2. PoolTypeOK /\ StepsInOrder /\ [CoordinatedNext]_coordinatedVars => StepsInOrder'
  <2> SUFFICES ASSUME PoolTypeOK, StepsInOrder, [CoordinatedNext]_coordinatedVars
               PROVE  StepsInOrder'
    OBVIOUS
  <2>1. CASE PoolAtWork
    BY <2>1, PoolKeepsOrder DEF StepsInOrder
  <2>2. CASE ExecuteShutdown \/ CoordinatorStep
    BY <2>2, CoordinatorInOrder
  <2>3. CASE UNCHANGED coordinatedVars
    BY <2>3 DEF coordinatedVars, poolVars, queueVars, poolOnly, coordinatorOnly, StepsInOrder
  <2>4. QED
    BY <2>1, <2>2, <2>3 DEF CoordinatedNext
<1>3. QED
  BY <1>1, <1>2, CoordinatorUsesPool, PoolTyping, PTL DEF CoordinatedSpec

\* Once the queue is closed, the workers have gone or Stop has given up.
LEMMA ClosedAfterStop ==
  StepsInOrder /\ GracefulStopIsQuiet /\ (closed \/ step > 2)
    /\ "stopWorkerPool" \in configured
      =>  \/ stopper[coordinator] = "timeout"
          \/ stopper[coordinator] = "nil" /\ \A w \in Consumers : worker[w] = "exited"
<1> SUFFICES ASSUME StepsInOrder, GracefulStopIsQuiet, closed \/ step > 2,
                    "stopWorkerPool" \in configured
             PROVE  \/ stopper[coordinator] = "timeout"
                    \/ stopper[coordinator] = "nil" /\ \A w \in Consumers : worker[w] = "exited"
  OBVIOUS
<1>1. step > 2
  BY DEF StepsInOrder
<1>2. stopper[coordinator] \in StopResults /\ first = coordinator
  BY <1>1 DEF StepsInOrder, StopResults
<1>3. first # NoStopper
  BY <1>2, CoordinatorAssumption, PoolAssumption
<1>4. QED
  BY <1>2, <1>3 DEF GracefulStopIsQuiet, OnceIsDone, StopResults

\* Nobody who was let in is refused by a closed queue, if letting in is ended first.
ClientsServed ==
    "stopAcceptingRequests" \in configured => \A r \in Requests : enq[r] # "closed"

LEMMA ClientsStayServed ==
  PoolTypeOK /\ StepsInOrder /\ ClientsServed /\ [CoordinatedNext]_coordinatedVars
    => ClientsServed'
<1> SUFFICES ASSUME PoolTypeOK, StepsInOrder, ClientsServed, [CoordinatedNext]_coordinatedVars,
                    "stopAcceptingRequests" \in configured', NEW r \in Requests
             PROVE  enq'[r] # "closed"
  BY DEF ClientsServed
<1> USE DEF PoolTypeOK, QueueTypeOK
<1>0. configured' = configured /\ enq[r] # "closed"
  BY DEF CoordinatedNext, PoolAtWork, ExecuteShutdown, CoordinatorStep, SkipStep,
     StopAcceptingRequests, StopWorkerPool, CloseTheQueue, CleanupResources,
     coordinatedVars, coordinatorOnly, ClientsServed
<1>1. ASSUME NEW q \in Requests, EnqueueStep(q), enq[q] = "idle" => accepting
      PROVE  enq'[r] # "closed"
  <2>1. enq[q] = "idle" => ~closed
    <3>1. accepting => step <= 3
      BY <1>0 DEF StepsInOrder
    <3>2. QED
      BY <1>1, <3>1 DEF StepsInOrder
  <2>2. \E to \in EnqStates \ {"closed"} : enq' = [enq EXCEPT ![q] = to]
    BY <1>1, <2>1 DEF EnqueueStep, EnqueueCheck, EnqueueSend, EnqueueHandOff, EnqueuePanic,
       EnqueueCancelled, EnqueueFull, EnqueueCount, EnqueueMoves, EnqStates, Rejections
  <2>3. QED
    BY <1>0, <2>2
<1>2. CASE UNCHANGED enq
  BY <1>0, <1>2
<1>3. ASSUME NEW w \in Consumers, WorkerStep(w)
      PROVE  UNCHANGED enq
  BY <1>3 DEF WorkerStep, StartWorker, LoopCheck, WorkerDequeues, DequeueFailed, StartScan,
     EndScan, DequeueStep, DequeueReceive, DequeuePark, DequeueClosed, DequeueCancelled,
     DequeueCount, DequeueReturn, queueVars
<1>4. ASSUME NEW s \in Stoppers, StopStep(s) \/ StopCall(s)
      PROVE  UNCHANGED enq
  BY <1>4 DEF StopStep, StopCall, StopCancel, StopGraceful, StopTimeout, StopUnblock,
     CancelConsumers, queueVars
<1>5. CASE PoolAtWork
  BY <1>1, <1>2, <1>3, <1>4, <1>5 DEF PoolAtWork, WaitReturns, queueVars
<1>6. CASE ExecuteShutdown \/ CoordinatorStep
  BY <1>2, <1>4, <1>6, CoordinatorAssumption DEF ExecuteShutdown, CoordinatorStep, SkipStep,
     StopAcceptingRequests, StopWorkerPool, CloseTheQueue, CleanupResources, Close, poolVars,
     queueVars
<1>7. QED
  BY <1>2, <1>5, <1>6 DEF CoordinatedNext, coordinatedVars, poolVars, queueVars

\* Whichever functions are set and however Stop, the scans and the calls of Enqueue race:
\* nobody who was served before the shutdown meets the closed queue, except a worker that
\* Stop has given up.
THEOREM NobodyMeetsTheClosedQueue == CoordinatedSpec => []QueueClosesBehindItsUsers
<1> DEFINE Inside == \A w \in Consumers : deq[w] # "idle" => worker[w] = "dequeue"
<1>1. CoordinatedInit => ClientsServed
  BY DEF CoordinatedInit, PoolInit, QueueInit, ClientsServed
<1>2. StepsInOrder /\ GracefulStopIsQuiet /\ ClosedMeansDrained /\ Inside /\ ClientsServed
        => QueueClosesBehindItsUsers
  <2> SUFFICES ASSUME StepsInOrder, GracefulStopIsQuiet, ClosedMeansDrained, Inside,
                      "stopWorkerPool" \in configured, NEW w \in Consumers, deq[w] = "closed"
               PROVE  stopper[coordinator] = "timeout"
    BY DEF QueueClosesBehindItsUsers, ClientsServed
  <2>1. closed /\ worker[w] = "dequeue"
    BY DEF ClosedMeansDrained
  <2>2. QED
    BY <2>1, ClosedAfterStop
<1>3. PoolSpec => []ClosedMeansDrained
  BY PoolUsesQueue, DrainedBeforeClosed, PTL
<1>4. QED
  BY <1>1, <1>2, <1>3, ClientsStayServed, StepsAreInOrder, CoordinatorUsesPool, PoolTyping,
     NilStopIsQuiet, OnlyDequeueReceives, PTL DEF CoordinatedSpec

\* The resources are cleaned up under nobody's feet but a worker's that Stop has given up,
\* and after the queue was closed.
THEOREM CleanupComesLast == CoordinatedSpec => []CleanupIsLast
<1>1. StepsInOrder /\ GracefulStopIsQuiet => CleanupIsLast
  <2> SUFFICES ASSUME StepsInOrder, GracefulStopIsQuiet, cleaned
               PROVE  CleanupIsLast
    BY DEF CleanupIsLast
  <2>1. step > 2 /\ step > 3
    BY DEF StepsInOrder
  <2>2. QED
    BY <2>1, ClosedAfterStop DEF StepsInOrder, CleanupIsLast
<1>2. QED
  BY <1>1, StepsAreInOrder, CoordinatorUsesPool, NilStopIsQuiet, PTL
==================================================================================
