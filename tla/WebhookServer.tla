------------------------------ MODULE WebhookServer ------------------------------
(***************************************************************************)
(* The HTTP server of pkg/webhook/server.go: the goroutine of main that runs   *)
(* Start, the readiness flag, which Start, SetReady and Shutdown write and     *)
(* handleReadiness reads without a lock, and the requests under way.          *)
(*                                                                         *)
(* net/http is external: Shutdown closes the listeners at once, makes         *)
(* ListenAndServe return, and itself returns when no request is under way, or  *)
(* with the error of its context.  The stub handleWebhook accepts everything.  *)
(***************************************************************************)

CONSTANT Calls    \* the HTTP requests

VARIABLES
    ready,       \* Server.ready
    server,      \* where the goroutine that runs Start is
    stop,        \* where the call of Server.Shutdown is
    http         \* the state of each request, or its answer

webVars == <<ready, server, stop, http>>

Answers == {"200", "503"}

WebInit ==
    /\ ready = FALSE
    /\ server = "none"
    /\ stop = "none"
    /\ http = [h \in Calls |-> "none"]

\* http.Server.Shutdown has closed the listeners.
Closing == stop \in {"closed", "returned"}

\* main: SetReady(true), and the go statement.
ServerSpawned ==
    /\ server = "none"
    /\ ready' = TRUE
    /\ server' = "spawned"
    /\ UNCHANGED <<stop, http>>

\* Start up to ListenAndServe; Shutdown may have cleared the flag already.
StartSetsReady ==
    /\ server = "spawned"
    /\ ready' = TRUE
    /\ server' = "starting"
    /\ UNCHANGED <<stop, http>>

ServerListens ==
    /\ server = "starting" /\ ~Closing
    /\ server' = "listening"
    /\ UNCHANGED <<ready, stop, http>>

\* The port is taken, or the listener fails: the error goes into serverErr.
ServerFails ==
    /\ server \in {"starting", "listening"} /\ ~Closing
    /\ server' = "failed"
    /\ UNCHANGED <<ready, stop, http>>

\* ListenAndServe returns ErrServerClosed, which Start takes for no error.
StartReturns ==
    /\ server \in {"starting", "listening"} /\ Closing
    /\ server' = "returned"
    /\ UNCHANGED <<ready, stop, http>>

CallArrives(h) ==
    /\ server = "listening" /\ ~Closing
    /\ http[h] = "none"
    /\ \E kind \in {"webhook", "readiness"} : http' = [http EXCEPT ![h] = kind]
    /\ UNCHANGED <<ready, server, stop>>

\* handleWebhook and handleReadiness.
CallAnswered(h) ==
    /\ \/ http[h] = "webhook" /\ http' = [http EXCEPT ![h] = "200"]
       \/ /\ http[h] = "readiness"
          /\ http' = [http EXCEPT ![h] = IF ready THEN "200" ELSE "503"]
    /\ UNCHANGED <<ready, server, stop>>

WebStep ==
    \/ StartSetsReady \/ ServerListens \/ ServerFails \/ StartReturns
    \/ \E h \in Calls : CallArrives(h) \/ CallAnswered(h)

ShutdownClearsReady ==
    /\ stop = "none" /\ stop' = "cleared"
    /\ ready' = FALSE
    /\ UNCHANGED <<server, http>>

ShutdownCloses ==
    /\ stop = "cleared" /\ stop' = "closed"
    /\ UNCHANGED <<ready, server, http>>

CallsDone == \A h \in Calls : http[h] \in {"none"} \cup Answers

\* Mutant of ShutdownReturnsNil: the listeners are closed, the requests left alone.
ServerClosesOnly ==
    /\ stop = "closed" /\ stop' = "returned"
    /\ UNCHANGED <<ready, server, http>>

ShutdownReturnsNil ==
    /\ stop = "closed" /\ stop' = "returned"
    /\ CallsDone
    /\ UNCHANGED <<ready, server, http>>

\* The context of the shutdown is done first.
ShutdownReturnsError ==
    /\ stop = "closed" /\ stop' = "returned"
    /\ UNCHANGED <<ready, server, http>>

WebTypeOK ==
    /\ ready \in BOOLEAN
    /\ server \in {"none", "spawned", "starting", "listening", "failed", "returned"}
    /\ stop \in {"none", "cleared", "closed", "returned"}
    /\ http \in [Calls -> {"none", "webhook", "readiness"} \cup Answers]
================================================================================
