----------------------------- MODULE HandlerPromise -----------------------------
(***************************************************************************)
(* What processScan of pkg/queue/worker.go takes for granted of the handler it *)
(* calls: the call ends, once, with nil, with an error or with a panic.        *)
(* WorkerPool models its handler so; ScanHandler shows that the handler of     *)
(* main.go, whichever backend it picks, keeps the promise.                    *)
(***************************************************************************)

VARIABLE result    \* what became of the call

PromiseInit == result = "none"

\* handler(ctx, req)
Called == result = "none" /\ result' = "running"

\* It returns nil or an error, or it panics and processScan recovers.
Ends == result = "running" /\ result' \in {"completed", "failed", "panicked"}

PromiseNext == Called \/ Ends

\* What the call may do, and in which order.
PromiseSpec == PromiseInit /\ [][PromiseNext]_result

\* A call that is made ends.  The caller need not call.
Promise == PromiseSpec /\ WF_result(Ends)
================================================================================
