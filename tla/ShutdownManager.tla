---------------------------- MODULE ShutdownManager ----------------------------
(***************************************************************************)
(* The shutdown manager, pkg/shutdown/shutdown.go: handlers are registered,  *)
(* a signal or a call of TriggerShutdown wakes WaitForShutdown, and the first *)
(* call of Shutdown runs the handlers, each in a goroutine of its own, until  *)
(* all have ended or the context of the shutdown is done.                    *)
(*                                                                         *)
(* A handler may take for ever: nothing here makes it end.  Time is not       *)
(* counted; the timeout of the context may pass whenever it is running.       *)
(***************************************************************************)
EXTENDS Naturals

CONSTANTS Callers,     \* the goroutines that call Shutdown or WaitForShutdown
          Handlers,    \* the handlers that may be registered
          Triggers     \* the calls of TriggerShutdown

VARIABLES
    registered,     \* Manager.handlers
    shuttingDown,   \* Manager.isShuttingDown
    signals,        \* how many signals Manager.shutdownChan buffers
    call,           \* where each caller is, or how its call of Shutdown ended
    trigger,        \* which calls of TriggerShutdown have returned
    plan,           \* the handlers the shutdown has launched
    run,            \* where the goroutine of each handler is
    expired,        \* the timeout of the shutdown's context has passed
    allRun          \* the done channel is closed: wg.Wait has returned

managerVars == <<registered, shuttingDown, signals, call, trigger, plan, run, expired, allRun>>

SignalBuffer == 1    \* make(chan os.Signal, 1)

ShutdownResults == {"completed", "timeout", "already"}
CallStates == {"idle", "listening", "signalled", "begun", "waiting"} \cup ShutdownResults
HandlerEnds == {"ok", "failed"}
RunStates == {"none", "launched", "running"} \cup HandlerEnds

Ended(h) == run[h] \in HandlerEnds

ManagerInit ==
    /\ registered = {}
    /\ shuttingDown = FALSE
    /\ signals = 0
    /\ call = [c \in Callers |-> "idle"]
    /\ trigger = [t \in Triggers |-> "idle"]
    /\ plan = {}
    /\ run = [h \in Handlers |-> "none"]
    /\ expired = FALSE
    /\ allRun = FALSE

CallMoves(c, from, to) ==
    /\ call[c] = from
    /\ call' = [call EXCEPT ![c] = to]

--------------------------------------------------------------------------------
(* Handlers and signals *)

\* The lock is held, so a registration is one step; nothing forbids a late one.
RegisterHandler(h) ==
    /\ h \notin registered
    /\ registered' = registered \cup {h}
    /\ UNCHANGED <<shuttingDown, signals, call, trigger, plan, run, expired, allRun>>

\* WaitForShutdown has called signal.Notify and receives from the channel.
WaitForShutdown(c) ==
    /\ CallMoves(c, "idle", "listening")
    /\ UNCHANGED <<registered, shuttingDown, signals, trigger, plan, run, expired, allRun>>

\* The runtime relays a signal once Notify was called, and drops it when the
\* channel is full.
SignalArrives ==
    /\ \E c \in Callers : call[c] # "idle"
    /\ signals < SignalBuffer
    /\ signals' = signals + 1
    /\ UNCHANGED <<registered, shuttingDown, call, trigger, plan, run, expired, allRun>>

\* TriggerShutdown sends, and blocks while the channel is full.
TriggerShutdown(t) ==
    /\ trigger[t] = "idle"
    /\ signals < SignalBuffer
    /\ signals' = signals + 1
    /\ trigger' = [trigger EXCEPT ![t] = "sent"]
    /\ UNCHANGED <<registered, shuttingDown, call, plan, run, expired, allRun>>

\* Mutant of ReceiveSignal: the waiter goes on listening instead of shutting down.
ReceiveAndListen(c) ==
    /\ CallMoves(c, "listening", "listening")
    /\ signals > 0
    /\ signals' = signals - 1
    /\ UNCHANGED <<registered, shuttingDown, trigger, plan, run, expired, allRun>>

ReceiveSignal(c) ==
    /\ CallMoves(c, "listening", "signalled")
    /\ signals > 0
    /\ signals' = signals - 1
    /\ UNCHANGED <<registered, shuttingDown, trigger, plan, run, expired, allRun>>

--------------------------------------------------------------------------------
(* Shutdown *)

\* Mutant of ShutdownBegins: nobody looks at isShuttingDown.
ShutdownBeginsAgain(c) ==
    /\ \E from \in {"idle", "signalled"} : CallMoves(c, from, "begun")
    /\ shuttingDown' = TRUE
    /\ UNCHANGED <<registered, signals, trigger, plan, run, expired, allRun>>

\* The critical section: the first caller goes on, a later one returns at once.
ShutdownBegins(c) ==
    /\ \E from \in {"idle", "signalled"} :
           CallMoves(c, from, IF shuttingDown THEN "already" ELSE "begun")
    /\ shuttingDown' = TRUE
    /\ UNCHANGED <<registered, signals, trigger, plan, run, expired, allRun>>

\* The context is made, the handlers registered by now are launched, and so is
\* the goroutine that waits for them.  m.handlers is read without the lock.
LaunchHandlers(c) ==
    /\ CallMoves(c, "begun", "waiting")
    /\ plan' = registered
    /\ run' = [h \in Handlers |-> IF h \in registered THEN "launched" ELSE run[h]]
    /\ UNCHANGED <<registered, shuttingDown, signals, trigger, expired, allRun>>

RunMoves(h, from, to) ==
    /\ run[h] = from
    /\ run' = [run EXCEPT ![h] = to]

HandlerStarts(h) ==
    /\ RunMoves(h, "launched", "running")
    /\ UNCHANGED <<registered, shuttingDown, signals, call, trigger, plan, expired, allRun>>

\* The handler returns; its error, if any, only changes what is logged.
HandlerReturns(h) ==
    /\ \E how \in HandlerEnds : RunMoves(h, "running", how)
    /\ UNCHANGED <<registered, shuttingDown, signals, call, trigger, plan, expired, allRun>>

ContextExpires ==
    /\ \E c \in Callers : call[c] = "waiting"
    /\ ~expired
    /\ expired' = TRUE
    /\ UNCHANGED <<registered, shuttingDown, signals, call, trigger, plan, run, allRun>>

\* wg.Wait() returns and done is closed.
AllHandlersRan ==
    /\ \E c \in Callers : call[c] \in {"waiting", "completed", "timeout"}
    /\ \A h \in plan : Ended(h)
    /\ ~allRun
    /\ allRun' = TRUE
    /\ UNCHANGED <<registered, shuttingDown, signals, call, trigger, plan, run, expired>>

ShutdownCompletes(c) ==
    /\ CallMoves(c, "waiting", "completed")
    /\ allRun
    /\ UNCHANGED <<registered, shuttingDown, signals, trigger, plan, run, expired, allRun>>

\* Mutant of ShutdownTimesOut: the select has no case for the context.
ShutdownNeverTimesOut(c) ==
    /\ CallMoves(c, "waiting", "timeout")
    /\ expired /\ allRun
    /\ UNCHANGED <<registered, shuttingDown, signals, trigger, plan, run, expired, allRun>>

ShutdownTimesOut(c) ==
    /\ CallMoves(c, "waiting", "timeout")
    /\ expired
    /\ UNCHANGED <<registered, shuttingDown, signals, trigger, plan, run, expired, allRun>>

CallStep(c) ==
    \/ ReceiveSignal(c)
    \/ call[c] = "signalled" /\ ShutdownBegins(c)
    \/ LaunchHandlers(c)
    \/ ShutdownCompletes(c)
    \/ ShutdownTimesOut(c)

ManagerNext ==
    \/ \E h \in Handlers : RegisterHandler(h) \/ HandlerStarts(h) \/ HandlerReturns(h)
    \/ \E c \in Callers : WaitForShutdown(c) \/ ShutdownBegins(c) \/ CallStep(c)
    \/ \E t \in Triggers : TriggerShutdown(t)
    \/ SignalArrives \/ ContextExpires \/ AllHandlersRan

ManagerSpec == ManagerInit /\ [][ManagerNext]_managerVars

\* The scheduler runs every goroutine that can run, and the clock goes on.
\* Handlers need not return.
ManagerFairness ==
    /\ \A c \in Callers : WF_managerVars(CallStep(c))
    /\ \A h \in Handlers : WF_managerVars(HandlerStarts(h))
    /\ WF_managerVars(ContextExpires)
    /\ WF_managerVars(AllHandlersRan)

FairManagerSpec == ManagerSpec /\ ManagerFairness

--------------------------------------------------------------------------------
(* Correctness *)

\* Types; the shutdown has begun exactly if a caller has gone past the flag.
ManagerTypeOK ==
    /\ registered \subseteq Handlers
    /\ shuttingDown \in BOOLEAN
    /\ signals \in 0 .. SignalBuffer
    /\ call \in [Callers -> CallStates]
    /\ shuttingDown <=> \E c \in Callers : call[c] \in {"begun", "waiting"} \cup ShutdownResults
    /\ trigger \in [Triggers -> {"idle", "sent"}]
    /\ plan \subseteq registered
    /\ run \in [Handlers -> RunStates]
    /\ expired \in BOOLEAN
    /\ allRun \in BOOLEAN

\* One shutdown only: of all callers, however they race, one runs the handlers.
OneRunner ==
    \A c, d \in Callers :
        call[c] \in {"begun", "waiting", "completed", "timeout"} /\
        call[d] \in {"begun", "waiting", "completed", "timeout"} => c = d

\* The done channel is closed for the shutdown that was launched, when its handlers have
\* ended, and no handler is launched again.
DoneMeansEnded ==
    /\ allRun => /\ \A h \in plan : Ended(h)
                 /\ \E c \in Callers : call[c] \in {"waiting", "completed", "timeout"}
    /\ \A c \in Callers : call[c] = "completed" => allRun

\* What every step of the manager keeps: the types, that there is one shutdown, and that
\* its wait was over when it completed.
ManagerInv == ManagerTypeOK /\ OneRunner /\ DoneMeansEnded

\* Shutdown returns, even if a handler never does.
ShutdownReturns ==
    \A c \in Callers : call[c] \in {"begun", "waiting"} ~> call[c] \in ShutdownResults

\* A signal that is buffered while somebody listens leads to a shutdown.
SignalShutsDown ==
    (signals > 0 /\ \E c \in Callers : call[c] = "listening") ~> shuttingDown
================================================================================
