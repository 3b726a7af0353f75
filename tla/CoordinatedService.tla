--------------------------- MODULE CoordinatedService ---------------------------
(***************************************************************************)
(* The other way to shut the service down: ShutdownCoordinator of             *)
(* pkg/shutdown/shutdown.go, over the worker pool.  ExecuteShutdown calls, one *)
(* after the other, what was set of: stop accepting requests, stop the worker *)
(* pool, close the queue, clean up.  It goes on when stopping the pool fails.  *)
(*                                                                         *)
(* What the coordinator calls is external, and nothing in the repository sets  *)
(* it; it is taken to return.  stopAcceptingRequests ends the admission of new  *)
(* calls of Enqueue, as the comment of step 1 says; a call that was let in      *)
(* before goes on.  Stopping the pool is WorkerPool.Stop, closing the queue is  *)
(* ScanQueue.Close.                                                          *)
(***************************************************************************)
EXTENDS WorkerPool

CONSTANT coordinator    \* the goroutine that runs ExecuteShutdown

ASSUME CoordinatorAssumption == Stoppers = {coordinator}

VARIABLES
    configured,    \* the functions that were set before the shutdown
    step,          \* the step of ExecuteShutdown, 0 before it is called
    accepting,     \* new calls of Enqueue still come
    cleaned        \* cleanupResources has been called

coordinatorOnly == <<configured, step, accepting, cleaned>>
coordinatedVars == <<poolVars, coordinatorOnly>>

Configurable == {"stopAcceptingRequests", "stopWorkerPool", "closeQueue", "cleanupResources"}

\* Mutant of Order: the queue is closed before anybody is stopped.
QueueFirst == <<"closeQueue", "stopAcceptingRequests", "stopWorkerPool", "cleanupResources">>

\* Mutant of Order: the resources are cleaned up while the pool still works.
CleanupEarly == <<"stopAcceptingRequests", "cleanupResources", "stopWorkerPool", "closeQueue">>

\* The order of the calls in ExecuteShutdown.
Order == <<"stopAcceptingRequests", "stopWorkerPool", "closeQueue", "cleanupResources">>

Complete == Len(Order) + 1

CoordinatedInit ==
    /\ PoolInit
    /\ configured \in SUBSET Configurable
    /\ step = 0
    /\ accepting = TRUE
    /\ cleaned = FALSE

\* The pool, and the clients while they are let in.
PoolAtWork ==
    /\ \/ \E w \in Consumers : WorkerStep(w)
       \/ \E s \in Stoppers : StopStep(s)
       \/ WaitReturns
       \/ /\ \E r \in Requests : EnqueueStep(r) /\ (enq[r] = "idle" => accepting)
          /\ UNCHANGED poolOnly
    /\ UNCHANGED coordinatorOnly

ExecuteShutdown ==
    /\ step = 0
    /\ AllStarted
    /\ step' = 1
    /\ UNCHANGED <<poolVars, configured, accepting, cleaned>>

\* It is the turn of function f.
Turn(f) == step \in DOMAIN Order /\ Order[step] = f

\* A function that was not set is passed over.
SkipStep ==
    /\ step \in DOMAIN Order /\ Order[step] \notin configured
    /\ step' = step + 1
    /\ UNCHANGED <<poolVars, configured, accepting, cleaned>>

StopAcceptingRequests ==
    /\ Turn("stopAcceptingRequests") /\ "stopAcceptingRequests" \in configured
    /\ accepting' = FALSE
    /\ step' = step + 1
    /\ UNCHANGED <<poolVars, configured, cleaned>>

\* Mutant of StopWorkerPool: the shutdown is given up when Stop fails.
StopWorkerPoolOrAbort ==
    /\ Turn("stopWorkerPool") /\ "stopWorkerPool" \in configured
    /\ \/ /\ StopCall(coordinator)
          /\ UNCHANGED step
       \/ /\ stopper[coordinator] = "nil"
          /\ step' = step + 1
          /\ UNCHANGED poolVars
    /\ UNCHANGED <<configured, accepting, cleaned>>

\* Stop is called and has returned; its error is logged and nothing else.
StopWorkerPool ==
    /\ Turn("stopWorkerPool") /\ "stopWorkerPool" \in configured
    /\ \/ /\ StopCall(coordinator)
          /\ UNCHANGED step
       \/ /\ stopper[coordinator] \in StopResults
          /\ step' = step + 1
          /\ UNCHANGED poolVars
    /\ UNCHANGED <<configured, accepting, cleaned>>

CloseTheQueue ==
    /\ Turn("closeQueue") /\ "closeQueue" \in configured
    /\ Close /\ UNCHANGED poolOnly
    /\ step' = step + 1
    /\ UNCHANGED <<configured, accepting, cleaned>>

CleanupResources ==
    /\ Turn("cleanupResources") /\ "cleanupResources" \in configured
    /\ cleaned' = TRUE
    /\ step' = step + 1
    /\ UNCHANGED <<poolVars, configured, accepting>>

CoordinatorStep ==
    \/ SkipStep \/ StopAcceptingRequests \/ StopWorkerPool \/ CloseTheQueue \/ CleanupResources

CoordinatedNext == PoolAtWork \/ ExecuteShutdown \/ CoordinatorStep

CoordinatedSpec == CoordinatedInit /\ [][CoordinatedNext]_coordinatedVars

\* The coordinator and Stop are scheduled, and the timeout of Stop passes; scans need
\* not end.
CoordinatedFairness ==
    /\ WF_coordinatedVars(CoordinatorStep)
    /\ \A s \in Stoppers : WF_coordinatedVars(StopStep(s) /\ UNCHANGED coordinatorOnly)

FairCoordinatedSpec == CoordinatedSpec /\ CoordinatedFairness

--------------------------------------------------------------------------------
(* Correctness *)

\* The closed queue is met by nobody who was served before, because it is closed after
\* its users were stopped: a client that was let in is never refused by a closed queue,
\* and a worker finds it closed only if Stop has given up waiting for it.  (A call of
\* Enqueue that was let in and has made its check may still panic.)
QueueClosesBehindItsUsers ==
    /\ "stopAcceptingRequests" \in configured => \A r \in Requests : enq[r] # "closed"
    /\ "stopWorkerPool" \in configured =>
         \A w \in Consumers : deq[w] = "closed" => stopper[coordinator] = "timeout"

\* The resources are cleaned up last: by then the queue is closed, and a worker that is
\* still there is one that Stop has given up waiting for.
CleanupIsLast ==
    cleaned =>
        /\ "closeQueue" \in configured => closed
        /\ "stopWorkerPool" \in configured =>
             \A w \in Consumers : worker[w] = "exited" \/ stopper[coordinator] = "timeout"

\* The shutdown comes to its end, even if a scan does not.
ShutdownEnds == step > 0 ~> step = Complete
================================================================================
