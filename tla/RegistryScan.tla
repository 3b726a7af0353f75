------------------------------ MODULE RegistryScan ------------------------------
(***************************************************************************)
(* One scan through the Registry Scanner API, pkg/scanner/registry_scanner.go: *)
(* a POST starts a job at the server, then the job is polled, tick by tick,    *)
(* until it has ended or the timeout of the scan is over.                     *)
(*                                                                         *)
(* The server is external: it may create the job and lose its answer, a job    *)
(* goes on or not, and an answer says what the job was when it was asked.      *)
(* An HTTP request ends by itself, with an answer or an error, since the        *)
(* client gives it 30 seconds.                                                *)
(***************************************************************************)
EXTENDS Naturals, ScanContext

CONSTANTS Configs,    \* the configurations a scan may run with
          MaxPolls    \* bound of the number of polls

Durations == {"valid", "unparsable", "nonpositive"}

ASSUME RegistryAssumption ==
    /\ Configs \subseteq [present : BOOLEAN, interval : Durations, timeout : Durations]
    /\ MaxPolls \in Nat

VARIABLES
    config,      \* the configuration of this scan
    api,         \* where Scan is
    outcome,     \* how Scan ended
    reason,      \* why it failed
    tick,        \* the ticker's channel holds a tick
    reply,       \* the answer to the GET that is under way
    job,         \* the job at the server
    polls,       \* pollAttempts
    recorded,    \* the statuses given to the metrics
    errors,      \* history: transient errors of the API since its last answer
    latePolls    \* history: polls that started when time was over

answerVars == <<api, outcome, reason, recorded>>
pollVars == <<tick, polls, latePolls>>

RegistryPhases == {"new", "initiating", "initiated", "select", "fetching", "returned"}
Outcomes == {"none", "success", "failed", "panicked"}
Reasons == {"none", "configuration", "api", "transient", "timeout", "job", "status"}
JobStates == {"none", "pending", "running", "completed", "failed", "expired"}
JobEnds == {"completed", "failed", "expired"}    \* the client does not know the last one

RegistryInit ==
    /\ ContextInit
    /\ config \in Configs
    /\ api = "new" /\ outcome = "none" /\ reason = "none" /\ recorded = {}
    /\ tick = FALSE /\ polls = 0 /\ latePolls = 0
    /\ reply = "none" /\ job = "none" /\ errors = 0

--------------------------------------------------------------------------------
(* Scan *)

Goes(from, to) == api = from /\ api' = to

\* Return a failed result and the error; RecordScannerType, RecordScanDuration and
\* RecordScan get the status.
Fail(from, why) ==
    /\ Goes(from, "returned")
    /\ outcome' = "failed"
    /\ reason' = why
    /\ recorded' = recorded \cup {"failed"}

\* Without a configuration the scan fails at once, and no metric is recorded.
ScanStarts ==
    /\ IF config.present
       THEN Goes("new", "initiating") /\ UNCHANGED <<outcome, reason>>
       ELSE Goes("new", "returned") /\ outcome' = "failed" /\ reason' = "configuration"
    /\ UNCHANGED <<config, recorded, pollVars, reply, job, errors, contextVars>>

\* A 200 or 201 with a scan id.
InitiateSucceeds ==
    /\ Goes("initiating", "initiated")
    /\ job # "none"
    /\ UNCHANGED <<config, outcome, reason, recorded, pollVars, reply, job, errors, contextVars>>

\* Anything else: no connection, a time out, another status, no id in the answer.
InitiateFails ==
    /\ \E why \in {"api", "transient"} :
           /\ Fail("initiating", why)
           /\ errors' = IF why = "transient" THEN errors + 1 ELSE errors
    /\ UNCHANGED <<config, pollVars, reply, job, contextVars>>

\* pollScanStatus up to its loop: an interval that cannot be parsed is replaced by
\* five seconds, a timeout that cannot is an error, NewTicker panics unless the
\* interval is positive, and a timeout that is not positive is over at once.
PollingStarts ==
    /\ IF config.timeout = "unparsable"
       THEN Fail("initiated", "configuration") /\ UNCHANGED timedOut
       ELSE /\ timedOut' = (config.timeout = "nonpositive")
            /\ IF config.interval = "nonpositive"
               THEN Goes("initiated", "returned") /\ outcome' = "panicked"
               ELSE Goes("initiated", "select") /\ UNCHANGED outcome
            /\ UNCHANGED <<reason, recorded>>
    /\ UNCHANGED <<config, ctx, pollVars, reply, job, errors>>

\* Mutant of SelectTimeout: only the context of the handler ends the polling.
SelectContextOnly ==
    /\ ctx # "live"
    /\ Fail("select", "timeout")
    /\ UNCHANGED <<config, pollVars, reply, job, errors, contextVars>>

SelectTimeout ==
    /\ Expired
    /\ Fail("select", "timeout")
    /\ UNCHANGED <<config, pollVars, reply, job, errors, contextVars>>

\* The select takes a tick although the timeout may be over too.
SelectTick ==
    /\ Goes("select", "fetching")
    /\ tick /\ polls < MaxPolls
    /\ tick' = FALSE
    /\ polls' = polls + 1
    /\ reply' = "none"
    /\ latePolls' = latePolls + (IF Expired THEN 1 ELSE 0)
    /\ UNCHANGED <<config, outcome, reason, recorded, job, errors, contextVars>>

\* getScanResult returns an error: no connection, time over, a status that is not
\* 200, an answer that cannot be decoded.  One of them ends the scan.
GetFails ==
    /\ \E why \in {"api", "transient"} :
           /\ Fail("fetching", why)
           /\ errors' = IF why = "transient" THEN errors + 1 ELSE errors
    /\ UNCHANGED <<config, pollVars, reply, job, contextVars>>

\* getScanResult returns what the server said of the job.
GetAnswers ==
    /\ reply # "none"
    /\ \/ /\ reply = "completed"
          /\ Goes("fetching", "returned")
          /\ outcome' = "success"
          /\ recorded' = recorded \cup {"success"}
          /\ UNCHANGED reason
       \/ reply = "failed" /\ Fail("fetching", "job")
       \/ reply \notin {"completed", "failed", "running", "pending"} /\ Fail("fetching", "status")
       \/ /\ reply \in {"running", "pending"}
          /\ Goes("fetching", "select")
          /\ UNCHANGED <<outcome, reason, recorded>>
    /\ errors' = 0
    /\ UNCHANGED <<config, pollVars, reply, job, contextVars>>

RegistryStep ==
    \/ ScanStarts \/ InitiateSucceeds \/ InitiateFails \/ PollingStarts
    \/ SelectTimeout \/ SelectTick \/ GetFails \/ GetAnswers

--------------------------------------------------------------------------------
(* The server and the clock *)

\* The server has the POST and creates the job.
JobCreated ==
    /\ api = "initiating" /\ job = "none"
    /\ job' = "pending"
    /\ UNCHANGED <<config, answerVars, pollVars, reply, errors, contextVars>>

JobMoves ==
    /\ \/ job = "pending" /\ job' = "running"
       \/ job = "running" /\ job' \in JobEnds
    /\ UNCHANGED <<config, answerVars, pollVars, reply, errors, contextVars>>

\* The server answers the GET with the state of the job; a request with a context
\* that is done is not sent.
ServerReplies ==
    /\ api = "fetching" /\ reply = "none" /\ ~Expired
    /\ reply' = job
    /\ UNCHANGED <<config, answerVars, pollVars, job, errors, contextVars>>

Polling == api \in {"select", "fetching"}

Ticks ==
    /\ Polling /\ ~tick
    /\ tick' = TRUE
    /\ UNCHANGED <<config, answerVars, polls, latePolls, reply, job, errors, contextVars>>

PollingTimesOut ==
    /\ Polling /\ TimeoutPasses
    /\ UNCHANGED <<config, answerVars, pollVars, reply, job, errors>>

ServerStep == JobCreated \/ JobMoves \/ ServerReplies

--------------------------------------------------------------------------------
(* Correctness *)

\* Types; Scan has an outcome exactly when it has ended.
RegistryTypeOK ==
    /\ config \in Configs
    /\ ContextTypeOK
    /\ api \in RegistryPhases /\ outcome \in Outcomes /\ reason \in Reasons
    /\ tick \in BOOLEAN
    /\ reply \in JobStates /\ job \in JobStates
    /\ polls \in 0 .. MaxPolls
    /\ recorded \subseteq {"success", "failed"}
    /\ errors \in Nat /\ latePolls \in Nat
    /\ outcome # "none" <=> api = "returned"
    /\ reason # "none" <=> outcome = "failed"

\* A scan is a success only if its job at the server has completed, and then it
\* stays so: an answer that comes late or says something unknown is none.
SuccessMeansCompleted == outcome = "success" => job = "completed"

\* The metrics say what Scan returned: one status, the one of the result.  A scan
\* without a configuration and one that panicked are not counted.
MetricsMatchOutcome ==
    recorded = IF outcome \in {"success", "failed"} /\ config.present THEN {outcome} ELSE {}

\* At most one request goes out after the timeout, the one for a tick that the
\* select preferred; polling does not go on.
PollingStopsAtTimeout == latePolls <= 1

\* What every step of a scan keeps: the types, that the metrics agree with the outcome,
\* and that polling is over with the timeout.
RegistryInv == RegistryTypeOK /\ MetricsMatchOutcome /\ PollingStopsAtTimeout

\* "The Registry Scanner API returns a 5xx server error: system retries the request
\* up to 3 times with exponential backoff."
TransientErrorsAreRetried == reason = "transient" => errors > 3
================================================================================
