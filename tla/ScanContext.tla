------------------------------ MODULE ScanContext ------------------------------
(***************************************************************************)
(* The context a scan runs in.  processScan gives the handler a deadline of    *)
(* ten minutes and cancels when it has returned; each backend adds the timeout *)
(* of the configuration for the part of its work that waits.                  *)
(***************************************************************************)

VARIABLES
    ctx,         \* the context of the handler: live, or what ended it
    timedOut     \* the configured timeout of the backend is over

contextVars == <<ctx, timedOut>>

ContextInit ==
    /\ ctx = "live"
    /\ timedOut = FALSE

\* The context the backend waits with is done.
Expired == ctx # "live" \/ timedOut

TimeoutPasses ==
    /\ ~timedOut
    /\ timedOut' = TRUE
    /\ UNCHANGED ctx

\* The deadline passes, or the pool or processScan cancels.
ContextDone ==
    /\ ctx = "live"
    /\ ctx' \in {"deadline", "cancelled"}
    /\ UNCHANGED timedOut

ContextTypeOK ==
    /\ ctx \in {"live", "deadline", "cancelled"}
    /\ timedOut \in BOOLEAN
================================================================================
