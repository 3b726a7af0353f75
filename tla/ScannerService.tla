----------------------------- MODULE ScannerService -----------------------------
(***************************************************************************)
(* The process of cmd/scanner-webhook/main.go: the worker pool and its queue  *)
(* under the shutdown manager.  main registers three handlers, starts the     *)
(* pool and the HTTP server, waits for a signal or an error of the server, calls *)
(* Shutdown and exits when it returns.  The handlers run at the same time: one *)
(* shuts the HTTP server down, one stops the pool, one closes the queue.       *)
(*                                                                         *)
(* In main.go nobody enqueues yet (handleWebhook answers and does nothing), so *)
(* the calls of Enqueue stand for whoever will, with a context nobody cancels. *)
(***************************************************************************)
EXTENDS WorkerPool, ShutdownManager, WebhookServer

CONSTANT main    \* the main goroutine, the one caller of Shutdown

ServerHandler == "webhook-server"
PoolHandler == "worker-pool"
QueueHandler == "scan-queue"

ASSUME ServiceAssumption ==
    /\ Callers = {main}
    /\ Handlers = {ServerHandler, PoolHandler, QueueHandler}
    /\ Stoppers = {PoolHandler}
    /\ Triggers = {}

VARIABLE exited    \* os.Exit was called: no goroutine runs any more

serviceVars == <<poolVars, managerVars, webVars, exited>>

\* main has registered its handlers and is about to start the pool.
ServiceInit ==
    /\ PoolInit
    /\ WebInit
    /\ registered = Handlers
    /\ shuttingDown = FALSE
    /\ signals = 0
    /\ call = [c \in Callers |-> "idle"]
    /\ trigger = [t \in Triggers |-> "idle"]
    /\ plan = {}
    /\ run = [h \in Handlers |-> "none"]
    /\ expired = FALSE
    /\ allRun = FALSE
    /\ exited = FALSE

\* The pool and its clients, left to themselves.  Only the handler calls Close.
PoolRuns ==
    /\ \/ \E w \in Consumers : WorkerStep(w)
       \/ \E s \in Stoppers : StopStep(s)
       \/ WaitReturns
       \/ (\E r \in Requests : EnqueueStep(r)) /\ UNCHANGED poolOnly
    /\ UNCHANGED <<managerVars, webVars>>

\* The server's goroutine and its requests.
ServerRuns == WebStep /\ UNCHANGED <<poolVars, managerVars>>

\* Mutant of MainServes: the server is started before the pool.
MainServesFirst ==
    /\ ServerSpawned
    /\ UNCHANGED <<poolVars, managerVars>>

\* workerPool.Start() has returned: the server is marked ready and started.
MainServes ==
    /\ AllStarted
    /\ ServerSpawned
    /\ UNCHANGED <<poolVars, managerVars>>

\* The select of main: a signal, at any time, or what the server left in serverErr.
MainShutsDown ==
    /\ server # "none"
    /\ ShutdownBegins(main)
    /\ UNCHANGED <<poolVars, webVars>>

\* The manager goes on with the shutdown, outside the handlers.
ManagerRuns ==
    /\ CallStep(main) \/ ContextExpires \/ AllHandlersRan \/ \E h \in Handlers : HandlerStarts(h)
    /\ UNCHANGED <<poolVars, webVars>>

\* The handler that calls workerPool.Stop(workerShutdownTimeout).
StopPoolHandler ==
    /\ run[PoolHandler] = "running"
    /\ \/ StopCall(PoolHandler) /\ UNCHANGED managerVars
       \/ /\ stopper[PoolHandler] \in StopResults
          /\ HandlerReturns(PoolHandler)
          /\ run'[PoolHandler] = IF stopper[PoolHandler] = "nil" THEN "ok" ELSE "failed"
          /\ UNCHANGED poolVars
    /\ UNCHANGED webVars

\* The handler that calls scanQueue.Close().
CloseQueueHandler ==
    /\ Close
    /\ HandlerReturns(QueueHandler)
    /\ run'[QueueHandler] = "ok"
    /\ UNCHANGED <<poolOnly, webVars>>

\* The handler that calls webhookServer.Shutdown(ctx).
StopServerHandler ==
    /\ run[ServerHandler] = "running"
    /\ \/ (ShutdownClearsReady \/ ShutdownCloses) /\ UNCHANGED managerVars
       \/ /\ ShutdownReturnsNil
          /\ HandlerReturns(ServerHandler)
          /\ run'[ServerHandler] = "ok"
       \/ /\ expired /\ ShutdownReturnsError
          /\ HandlerReturns(ServerHandler)
          /\ run'[ServerHandler] = "failed"
    /\ UNCHANGED poolVars

\* Shutdown has returned, with every handler done or too late: os.Exit.
MainExits ==
    /\ call[main] \in ShutdownResults
    /\ exited' = TRUE
    /\ UNCHANGED <<poolVars, managerVars, webVars>>

ServiceStep ==
    \/ PoolRuns \/ ServerRuns \/ MainServes \/ MainShutsDown \/ ManagerRuns
    \/ StopPoolHandler \/ CloseQueueHandler \/ StopServerHandler

ServiceNext == ~exited /\ ((ServiceStep /\ UNCHANGED exited) \/ MainExits)

ServiceSpec == ServiceInit /\ [][ServiceNext]_serviceVars

\* Only main, the manager and the clock: scans and requests need not end, and no
\* goroutine of the pool needs to run, for the process to exit.
ServiceFairness ==
    /\ WF_serviceVars(~exited /\ server = "failed" /\ MainShutsDown /\ UNCHANGED exited)
    /\ WF_serviceVars(~exited /\ ManagerRuns /\ UNCHANGED exited)
    /\ WF_serviceVars(~exited /\ MainExits)

FairServiceSpec == ServiceSpec /\ ServiceFairness

--------------------------------------------------------------------------------
(* Correctness *)

\* The process exits only when the shutdown is over, and if the pool stopped in time
\* then no worker and no scan is left, and the queue is closed; if the server did then
\* no HTTP request is left: nothing is cut off by os.Exit.  What such an exit loses is
\* in the queue: every other accepted request was scanned to an outcome.
CleanExitIsQuiet ==
    exited =>
        /\ call[main] \in {"completed", "timeout"}
        /\ call[main] = "completed" /\ run[PoolHandler] = "ok" =>
               /\ closed
               /\ \A w \in Consumers : worker[w] = "exited" /\ scanning[w] = NoRequest
               /\ \A r \in Requests : enq[r] = "accepted" =>
                      outcome[r] # "pending" \/ r \in Range(queue)
        /\ run[ServerHandler] = "ok" => CallsDone

\* Whoever is told "ready", or has a webhook accepted, is told so by a process whose
\* workers were all started before.
AnsweredByStartedPool ==
    WebTypeOK /\ ((\E h \in Calls : http[h] = "200") => AllStarted)

\* Once Shutdown is called, or the HTTP server has failed, the process exits, even if a
\* scan or a request never ends.
ServiceExits == shuttingDown \/ server = "failed" ~> exited

\* openspec webhook-receiver, "Readiness check when not ready": once the server shuts down
\* it does not become ready again.
NotReadyAfterShutdown == stop # "none" => ~ready

\* openspec event-processing, "SIGTERM received": the process "stops accepting new
\* webhooks, completes in-flight scans"; the pool goes on while webhooks are accepted.
StopsAcceptingFirst == PoolCancelled => server = "failed" \/ Closing
================================================================================
