-------------------------------- MODULE CLIScan --------------------------------
(***************************************************************************)
(* One scan by the Sysdig CLI, pkg/scanner/cli_scanner.go: the scanner process, *)
(* the goroutine that waits for it, the context of the handler and the timeout  *)
(* of the configuration, and what Scan makes of the way the process ended.     *)
(*                                                                         *)
(* The process is external: it ends by itself with some exit code, or never.   *)
(* Of os/exec the module keeps that the process is killed when the context of  *)
(* the command, which is the handler's, is done; that the exit code of a killed *)
(* process is -1; and that cmd.Wait returns when the process has ended and its  *)
(* output, which is copied to a buffer meanwhile, has been read to the end.     *)
(***************************************************************************)
EXTENDS Integers, ScanContext

CONSTANT ExitCodes    \* the codes the scanner may exit with

ASSUME CLIAssumption == ExitCodes \subseteq 0 .. 255

VARIABLES
    cli,         \* where Scan is
    process,     \* the scanner process
    code,        \* the exit code it ended with, -1 for a killed one
    copying,     \* its output is not yet read to the end
    waiter,      \* the goroutine that waits for the process
    got,         \* what executeWithTimeout returned
    status,      \* ScanResult.Status
    failed,      \* Scan returned an error
    counted,     \* how often the metrics were recorded
    whole,       \* the output was complete when Scan captured it
    ontime       \* history: the process ended by itself before time was over

processVars == <<process, code, copying, ontime>>
captureVars == <<got, whole>>
resultVars == <<status, failed, counted>>
scanVars == <<cli, captureVars, resultVars>>

CLIPhases == {"new", "waiting", "captured", "returned"}
Errors == {"none", "nil", "exit", "setup", "timeout"}
Statuses == {"running", "success", "failed", "timeout"}

Killed == -1

CLIInit ==
    /\ ContextInit
    /\ cli = "new" /\ status = "running" /\ failed = FALSE /\ counted = 0
    /\ process = "none" /\ code = Killed /\ copying = FALSE /\ ontime = FALSE
    /\ waiter = "none"
    /\ got = "none" /\ whole = TRUE

--------------------------------------------------------------------------------
(* Scan *)

\* The timeout cannot be parsed, or the process cannot be started: the context of a
\* command that is done already keeps it from starting.
StartFails ==
    /\ cli = "new" /\ cli' = "captured"
    /\ got' = "setup"
    /\ UNCHANGED <<processVars, waiter, contextVars, resultVars, whole>>

StartSucceeds ==
    /\ cli = "new" /\ cli' = "waiting"
    /\ ctx = "live"
    /\ process' = "running" /\ copying' = TRUE /\ waiter' = "waiting"
    /\ UNCHANGED <<code, ontime, contextVars, captureVars, resultVars>>

\* Scan takes what the buffers hold, whether or not they are still written to.
Capture(error) ==
    /\ cli = "waiting" /\ cli' = "captured"
    /\ got' = error
    /\ whole' = ~copying
    /\ UNCHANGED <<code, copying, ontime, waiter, contextVars, resultVars>>

\* The select receives what the waiter sent.
WaitReceived ==
    /\ waiter \in {"nil", "exit", "timeout"}
    /\ Capture(waiter)
    /\ UNCHANGED process

\* The select takes the timeout: the process is killed and nobody waits for its end.
TimeoutKills ==
    /\ Expired
    /\ Capture("timeout")
    /\ process' = IF process = "running" THEN "killed" ELSE process

\* getExitCode: the code of an ExitError, -1 for every other error.
ExitCode == IF got = "exit" THEN code ELSE -1

\* Mutant of FoundVulnerabilities: the lower bound is forgotten.
FoundVulnerabilitiesBelow == ExitCode < 10

\* A scan that found vulnerabilities exits with 1 to 9.
FoundVulnerabilities == ExitCode > 0 /\ ExitCode < 10

Return(s, f, n) ==
    /\ cli = "captured" /\ cli' = "returned"
    /\ status' = s
    /\ failed' = f
    /\ counted' = counted + n
    /\ UNCHANGED <<processVars, waiter, contextVars, captureVars>>

\* The deadline of the handler's context is looked at before the exit code, that of
\* the configured timeout is not looked at; a timeout is not recorded.
ReturnResult ==
    \/ got = "nil" /\ Return("success", FALSE, 1)
    \/ got # "nil" /\ ctx = "deadline" /\ Return("timeout", TRUE, 0)
    \/ got # "nil" /\ ctx # "deadline" /\ FoundVulnerabilities /\ Return("success", FALSE, 1)
    \/ got # "nil" /\ ctx # "deadline" /\ ~FoundVulnerabilities /\ Return("failed", TRUE, 1)

CLIStep == StartFails \/ StartSucceeds \/ WaitReceived \/ TimeoutKills \/ ReturnResult

--------------------------------------------------------------------------------
(* The process, the waiter and the contexts *)

ProcessExits ==
    /\ process = "running"
    /\ process' = "ended"
    /\ code' \in ExitCodes
    /\ ontime' = ~Expired
    /\ UNCHANGED <<scanVars, copying, waiter, contextVars>>

\* A killed process ends, with exit code -1.
ProcessDies ==
    /\ process = "killed"
    /\ process' = "ended"
    /\ UNCHANGED <<scanVars, code, copying, ontime, waiter, contextVars>>

\* os/exec kills the process when the handler's context is done.
ContextKills ==
    /\ ctx # "live" /\ process = "running"
    /\ process' = "killed"
    /\ UNCHANGED <<scanVars, code, copying, ontime, waiter, contextVars>>

OutputEnds ==
    /\ process = "ended" /\ copying
    /\ copying' = FALSE
    /\ UNCHANGED <<scanVars, process, code, ontime, waiter, contextVars>>

\* What cmd.Wait returns: the exit code first, else the error of a context that was
\* done before the process was noticed to have ended.
WaitResults ==
    IF code # 0 THEN {"exit"} ELSE IF ctx = "live" THEN {"nil"} ELSE {"nil", "timeout"}

\* Mutant of WaiterSends: the done channel has no buffer.
WaiterHandsOver ==
    /\ waiter = "waiting" /\ process = "ended" /\ ~copying
    /\ cli = "waiting"
    /\ waiter' \in WaitResults
    /\ UNCHANGED <<scanVars, processVars, contextVars>>

\* cmd.Wait returns and its result goes into the buffer of the done channel.
WaiterSends ==
    /\ waiter = "waiting" /\ process = "ended" /\ ~copying
    /\ waiter' \in WaitResults
    /\ UNCHANGED <<scanVars, processVars, contextVars>>

CLITimesOut ==
    /\ cli = "waiting" /\ TimeoutPasses
    /\ UNCHANGED <<scanVars, processVars, waiter>>

\* What is left to do once the process has ended or is killed.
WindUp == ProcessDies \/ OutputEnds \/ WaiterSends
OutsideStep == ProcessExits \/ ContextKills \/ WindUp

--------------------------------------------------------------------------------
(* Correctness *)

\* Types; Scan has a status of its own and counts what it returns, but for timeouts.
CLITypeOK ==
    /\ ContextTypeOK
    /\ cli \in CLIPhases /\ got \in Errors /\ status \in Statuses
    /\ process \in {"none", "running", "killed", "ended"}
    /\ code \in ExitCodes \cup {Killed}
    /\ copying \in BOOLEAN /\ failed \in BOOLEAN /\ whole \in BOOLEAN /\ ontime \in BOOLEAN
    /\ waiter \in {"none", "waiting", "nil", "exit", "timeout"}
    /\ got = "none" <=> cli \in {"new", "waiting"}
    /\ status = "running" <=> cli # "returned"
    /\ counted = IF status \in {"success", "failed"} THEN 1 ELSE 0

\* A success is the word of a scanner that came to its own end, with an exit code of 0
\* to 9 and all of its output captured; a killed one is never a success.
SuccessIsWhole ==
    status = "success" => process = "ended" /\ code \in 0 .. 9 /\ whole

\* The worker learns of every failure: Scan returns no error exactly for a success.
ErrorMatchesStatus == cli = "returned" => (failed <=> status # "success")

\* Scan does not leave a scanner running, whichever way it ends.
NoScannerLeft == cli \in {"captured", "returned"} => process # "running"

\* What every step of a scan keeps: the types, that the worker learns of a failure, and
\* that a scan which is over has no process.
CLIInv == CLITypeOK /\ ErrorMatchesStatus /\ NoScannerLeft

\* "a scan completes before the configured timeout period: system processes the
\* result normally".
OnTimeIsNormal ==
    cli = "returned" /\ ontime /\ code \in 0 .. 9 => status = "success"

\* The help of scan_total: "Total number of scans".
EveryScanIsCounted == cli = "returned" => counted = 1
================================================================================
