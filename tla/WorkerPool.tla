------------------------------- MODULE WorkerPool -------------------------------
(***************************************************************************)
(* The pool of worker goroutines, pkg/queue/worker.go, on top of the scan    *)
(* queue: each consumer of ScanQueue is a worker.  Start, the worker loop,   *)
(* processScan with its recovery of panics, and Stop, which several          *)
(* goroutines may call.                                                      *)
(*                                                                         *)
(* The pool context is done exactly when the workers are in ScanQueue's done *)
(* set.  The handler of a scan gets a context of its own with a ten-minute   *)
(* timeout, which Stop does not touch: a scan ends by itself, sooner or      *)
(* later, whatever the pool does.                                            *)
(***************************************************************************)
EXTENDS ScanQueue

CONSTANTS Stoppers,    \* the goroutines that call Stop
          NoStopper    \* not a stopper: who runs stopOnce before anybody does

ASSUME PoolAssumption == NoStopper \notin Stoppers

VARIABLES
    worker,     \* where each worker goroutine is
    scanning,   \* the request whose handler the worker runs
    outcome,    \* how the handler of each request ended
    stopper,    \* where each call of Stop is, or what it returned
    first,      \* the call of Stop that got stopOnce
    waited,     \* Stop's done channel is closed: wg.Wait has returned
    started     \* history: the scans in the order they started

poolOnly == <<worker, scanning, outcome, stopper, first, waited, started>>
poolVars == <<queueVars, poolOnly>>

WorkerStates == {"new", "loop", "dequeue", "scanning", "exited"}
HandlerOutcomes == {"completed", "failed", "panicked"}
StopResults == {"nil", "timeout"}
StopStates == {"idle", "cancelling", "waiting", "blocked"} \cup StopResults

PoolCancelled == Consumers \cap done # {}
AllStarted == \A w \in Consumers : worker[w] # "new"
AllExited == \A w \in Consumers : worker[w] = "exited"
OnceIsDone == first # NoStopper /\ stopper[first] \in StopResults

PoolInit ==
    /\ QueueInit
    /\ worker = [w \in Consumers |-> "new"]
    /\ scanning = [w \in Consumers |-> NoRequest]
    /\ outcome = [r \in Requests |-> "pending"]
    /\ stopper = [s \in Stoppers |-> "idle"]
    /\ first = NoStopper
    /\ waited = FALSE
    /\ started = <<>>

--------------------------------------------------------------------------------
(* Start and the worker loop *)

WorkerMoves(w, from, to) ==
    /\ worker[w] = from
    /\ worker' = [worker EXCEPT ![w] = to]

\* One turn of the loop in Start: wg.Add(1) and the go statement.
StartWorker(w) ==
    /\ WorkerMoves(w, "new", "loop")
    /\ UNCHANGED <<queueVars, scanning, outcome, stopper, first, waited, started>>

\* Mutant of LoopCheck: the loop does not look at ctx before it dequeues.
LoopUnchecked(w) ==
    /\ WorkerMoves(w, "loop", "dequeue")
    /\ UNCHANGED <<queueVars, scanning, outcome, stopper, first, waited, started>>

\* The top of the loop: return (and wg.Done) when the pool is stopping.
LoopCheck(w) ==
    /\ WorkerMoves(w, "loop", IF w \in done THEN "exited" ELSE "dequeue")
    /\ UNCHANGED <<queueVars, scanning, outcome, stopper, first, waited, started>>

\* The steps of Dequeue, while the worker is in it.
WorkerDequeues(w) ==
    /\ worker[w] = "dequeue"
    /\ DequeueStep(w)
    /\ UNCHANGED poolOnly

\* Mutant of DequeueFailed: the request that was just received is given up
\* when the pool is stopping.
DequeueFailedOrStopping(w) ==
    /\ deq[w] \in DeqErrors \/ (deq[w] = "returned" /\ w \in done)
    /\ WorkerMoves(w, "dequeue", "exited")
    /\ DequeueReturn(w)
    /\ UNCHANGED <<scanning, outcome, stopper, first, waited, started>>

\* Dequeue returned an error: return, whether ctx is done or the queue is closed.
DequeueFailed(w) ==
    /\ deq[w] \in DeqErrors
    /\ WorkerMoves(w, "dequeue", "exited")
    /\ DequeueReturn(w)
    /\ UNCHANGED <<scanning, outcome, stopper, first, waited, started>>

\* Dequeue returned a request: processScan calls the handler.
StartScan(w) ==
    /\ deq[w] = "returned"
    /\ WorkerMoves(w, "dequeue", "scanning")
    /\ scanning' = [scanning EXCEPT ![w] = held[w]]
    /\ started' = Append(started, [worker |-> w, request |-> held[w], late |-> w \in done])
    /\ DequeueReturn(w)
    /\ UNCHANGED <<outcome, stopper, first, waited>>

\* Mutant of EndScan: the panic of a handler ends the worker.
EndScanUnrecovered(w) ==
    \E how \in HandlerOutcomes :
        /\ WorkerMoves(w, "scanning", IF how = "panicked" THEN "exited" ELSE "loop")
        /\ outcome' = [outcome EXCEPT ![scanning[w]] = how]
        /\ scanning' = [scanning EXCEPT ![w] = NoRequest]
        /\ UNCHANGED <<queueVars, stopper, first, waited, started>>

\* The handler returns, with or without an error, or panics and is recovered:
\* the worker goes back to the top of its loop in each case.
EndScan(w) ==
    \E how \in HandlerOutcomes :
        /\ WorkerMoves(w, "scanning", "loop")
        /\ outcome' = [outcome EXCEPT ![scanning[w]] = how]
        /\ scanning' = [scanning EXCEPT ![w] = NoRequest]
        /\ UNCHANGED <<queueVars, stopper, first, waited, started>>

WorkerStep(w) ==
    \/ StartWorker(w)
    \/ LoopCheck(w)
    \/ WorkerDequeues(w)
    \/ DequeueFailed(w)
    \/ StartScan(w)
    \/ EndScan(w)

--------------------------------------------------------------------------------
(* Stop *)

StopMoves(s, from, to) ==
    /\ stopper[s] = from
    /\ stopper' = [stopper EXCEPT ![s] = to]

\* stopOnce.Do: the first caller runs the function, a caller that comes while it
\* runs blocks, a later one falls through with stopErr still nil.  Stop is called
\* after Start has returned, as cmd/scanner-webhook/main.go does.
StopCall(s) ==
    /\ AllStarted
    /\ StopMoves(s, "idle", IF first = NoStopper THEN "cancelling"
                            ELSE IF OnceIsDone THEN "nil" ELSE "blocked")
    /\ first' = IF first = NoStopper THEN s ELSE first
    /\ UNCHANGED <<queueVars, worker, scanning, outcome, waited, started>>

\* wp.cancel(), then the goroutine that waits for the workers is started.
StopCancel(s) ==
    /\ StopMoves(s, "cancelling", "waiting")
    /\ CancelConsumers(Consumers)
    /\ UNCHANGED <<worker, scanning, outcome, first, waited, started>>

\* wg.Wait() returns in the waiting goroutine, which closes done.
WaitReturns ==
    /\ first # NoStopper /\ stopper[first] \notin {"idle", "cancelling"}
    /\ AllExited
    /\ ~waited
    /\ waited' = TRUE
    /\ UNCHANGED <<queueVars, worker, scanning, outcome, stopper, first, started>>

StopGraceful(s) ==
    /\ StopMoves(s, "waiting", "nil")
    /\ waited
    /\ UNCHANGED <<queueVars, worker, scanning, outcome, first, waited, started>>

StopTimeout(s) ==
    /\ StopMoves(s, "waiting", "timeout")
    /\ UNCHANGED <<queueVars, worker, scanning, outcome, first, waited, started>>

\* Mutant of StopUnblock: the callers that were blocked stay blocked.
StopUnblockNever(s) ==
    /\ StopMoves(s, "blocked", "blocked")
    /\ OnceIsDone
    /\ UNCHANGED <<queueVars, worker, scanning, outcome, first, waited, started>>

\* The first caller is through stopOnce: the others return nil.
StopUnblock(s) ==
    /\ StopMoves(s, "blocked", "nil")
    /\ OnceIsDone
    /\ UNCHANGED <<queueVars, worker, scanning, outcome, first, waited, started>>

StopStep(s) ==
    \/ StopCancel(s)
    \/ StopGraceful(s)
    \/ StopTimeout(s)
    \/ StopUnblock(s)

--------------------------------------------------------------------------------

\* The goroutines that enqueue, and whoever closes the queue.
ClientStep ==
    /\ (\E r \in Requests : EnqueueStep(r) \/ CancelEnqueue(r)) \/ Close
    /\ UNCHANGED poolOnly

PoolNext ==
    \/ \E w \in Consumers : WorkerStep(w)
    \/ \E s \in Stoppers : StopCall(s) \/ StopStep(s)
    \/ WaitReturns
    \/ ClientStep

PoolSpec == PoolInit /\ [][PoolNext]_poolVars

\* The scheduler runs every goroutine that can run, and every scan ends.  Nobody
\* has to enqueue, to cancel, to close the queue or to call Stop.
PoolFairness ==
    /\ \A w \in Consumers : WF_poolVars(WorkerStep(w))
    /\ \A r \in Requests : WF_poolVars(EnqueueCount(r) /\ UNCHANGED poolOnly)
    /\ \A s \in Stoppers : WF_poolVars(StopStep(s))
    /\ WF_poolVars(WaitReturns)

FairPoolSpec == PoolSpec /\ PoolFairness

--------------------------------------------------------------------------------
(* Correctness *)

ScanEntries == [worker : Consumers, request : Requests, late : BOOLEAN]
StartedRequests == {started[i].request : i \in DOMAIN started}

\* Types; a worker runs a handler exactly while it is in processScan.
PoolTypeOK ==
    /\ QueueTypeOK
    /\ worker \in [Consumers -> WorkerStates]
    /\ scanning \in [Consumers -> Requests \cup {NoRequest}]
    /\ \A w \in Consumers : scanning[w] # NoRequest <=> worker[w] = "scanning"
    /\ outcome \in [Requests -> {"pending"} \cup HandlerOutcomes]
    /\ stopper \in [Stoppers -> StopStates]
    /\ first \in Stoppers \cup {NoStopper}
    /\ waited \in BOOLEAN
    /\ started \in Seq(ScanEntries)

\* No request vanishes between the queue and the handler, also when the pool is
\* stopped in between: a request that left the channel is in the hands of one
\* worker or its handler was called, and the handler is called once.
ReceivedIsScanned ==
    /\ Range(received) =
         StartedRequests \cup ({held[w] : w \in Consumers} \ {NoRequest})
    /\ \A i, j \in DOMAIN started : started[i].request = started[j].request => i = j
    /\ \A w \in Consumers : held[w] \notin StartedRequests

\* A started scan runs in one worker until it has an outcome, and has one then.
StartedRunsOrEnded ==
    StartedRequests = {r \in Requests : outcome[r] # "pending"}
                        \cup ({scanning[w] : w \in Consumers} \ {NoRequest})

\* Once the pool is cancelled, each worker starts at most one more scan: the one
\* its Dequeue had received, or received because select chose it.
OneLateScan ==
    \A i, j \in DOMAIN started :
        started[i].late /\ started[j].late /\ started[i].worker = started[j].worker
            => i = j

\* A worker gives up only because the pool is stopping or nothing can come any
\* more; a failed or panicking scan never costs the pool a worker.
ExitHasReason ==
    \A w \in Consumers : worker[w] = "exited" => w \in done \/ (closed /\ queue = <<>>)

\* A worker that started a scan after the cancellation is in that scan or on its way out.
LateWorkersLeave ==
    \A i \in DOMAIN started : started[i].late =>
        started[i].worker \in done /\ worker[started[i].worker] \in {"scanning", "loop", "exited"}

\* One call of Stop runs the function of stopOnce, and it waits for all workers.
OneStopRuns ==
    /\ \A s \in Stoppers : stopper[s] \in {"cancelling", "waiting", "timeout"} => s = first
    /\ first # NoStopper => stopper[first] \notin {"idle", "blocked"}
    /\ waited => AllExited
    /\ first # NoStopper /\ stopper[first] = "nil" => waited

\* What every step of the pool keeps: the types, that a request is at one place on its
\* way from the channel to an outcome, that no worker leaves without a reason or stays
\* when it is late, and that one call of Stop waits for them.
PoolInv ==
    /\ PoolTypeOK /\ ReceivedIsScanned /\ StartedRunsOrEnded
    /\ ExitHasReason /\ LateWorkersLeave /\ OneStopRuns

\* An accepted request is scanned, unless the pool is stopped first.  Closing the
\* queue alone does not lose it.
AcceptedIsScanned ==
    \A r \in Requests : enq[r] = "accepted" ~> outcome[r] # "pending" \/ PoolCancelled

\* Every worker goes home after the pool is cancelled or the queue is closed.
WorkersGoHome == PoolCancelled \/ (closed /\ AllStarted) ~> AllExited

\* Every call of Stop returns.
StopReturns == \A s \in Stoppers : stopper[s] # "idle" ~> stopper[s] \in StopResults

\* The comment of Stop: "Waits for in-flight scans to complete with the given
\* timeout"; a nil result then means that they have.
NilStopMeansQuiet ==
    \A s \in Stoppers : stopper[s] = "nil" => \A w \in Consumers : scanning[w] = NoRequest

\* The specification of the graceful stop wants as many queued requests processed as
\* the grace period allows: one that waits when the pool is stopped is scanned, or
\* the period was too short.
StopDrains ==
    \A r \in Requests :
        (\E s \in Stoppers : stopper[s] = "cancelling") /\ r \in Range(queue)
            ~> outcome[r] # "pending" \/ \E s \in Stoppers : stopper[s] = "timeout"
================================================================================
