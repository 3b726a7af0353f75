------------------------------- MODULE APIClient -------------------------------
(***************************************************************************)
(* APIClient.makeAPIRequest of pkg/scanner/registry_api.go: one call, which    *)
(* sends an HTTP request up to MaxRetries + 1 times.  No other code of the     *)
(* repository calls it (RegistryScanner has an HTTP client of its own).        *)
(*                                                                         *)
(* The server is external.  It may act on a request whose answer never arrives, *)
(* which for the client is a network error.                                   *)
(***************************************************************************)
EXTENDS Integers, Sequences

CONSTANTS MaxRetries,     \* APIClient.maxRetries
          StatusCodes,    \* the status codes the server may answer with
          RetryAfters,    \* the Retry-After headers, in seconds, or NoHeader
          NoHeader        \* not a number: no header, or one that is a date

TooManyRequests == 429

\* The client is made with 3 retries; the backoff before a 35th would not fit into a
\* time.Duration.
ASSUME ClientAssumption ==
    /\ MaxRetries \in 0 .. 34
    /\ StatusCodes \subseteq 100 .. 599
    /\ RetryAfters \subseteq Int \cup {NoHeader}

VARIABLES
    phase,       \* where makeAPIRequest is
    attempt,     \* the loop variable
    reader,      \* what is left in the reader that the caller passed
    ctxDone,     \* the context of the call is done
    response,    \* the response at hand: its status, 0 for none
    open,        \* how many response bodies are open
    result,      \* what the call returned
    waited,      \* history: how long the call has waited between attempts, in seconds
    arrived      \* history: what the server received, one entry for each request

clientVars == <<phase, attempt, reader, ctxDone, response, open, result, waited, arrived>>

Phases == {"start", "backoff", "sending", "answered", "limited", "returned"}
Results == {"none", "response", "error", "cancelled"}
Bodies == {"none", "whole", "consumed"}

ClientInit ==
    /\ phase = "start"
    /\ attempt = 0
    /\ reader \in {"none", "whole"}
    /\ ctxDone = FALSE
    /\ response = 0
    /\ open = 0
    /\ result = "none"
    /\ waited = 0
    /\ arrived = <<>>

Token == "token"    \* APIClient.token

\* All but four characters of a long token, and all of a short one, become stars.
SanitizeToken(token) == "stars"

Goes(from, to) == phase = from /\ phase' = to

IsRetriableStatusCode(code) == code \in {TooManyRequests, 500, 502, 503, 504}

\* Five seconds unless the header says otherwise; a timer that is set to less than
\* nothing fires at once.
RetryAfter(header) == IF header = NoHeader THEN 5 ELSE IF header > 0 THEN header ELSE 0

\* 1 << (attempt - 1) seconds.
Backoff(n) == 2 ^ (n - 1)

--------------------------------------------------------------------------------
(* makeAPIRequest *)

\* The top of the loop: every attempt but the first waits.
BeginAttempt ==
    /\ Goes("start", IF attempt > 0 THEN "backoff" ELSE "sending")
    /\ UNCHANGED <<attempt, reader, ctxDone, response, open, result, waited, arrived>>

\* http.NewRequestWithContext returns an error, which depends on the method and the URL
\* alone: on the first attempt or never.
RequestNotMade ==
    /\ Goes("sending", "returned") /\ attempt = 0
    /\ result' = "error"
    /\ UNCHANGED <<attempt, reader, ctxDone, response, open, waited, arrived>>

\* Mutant of BackoffPasses: the wait is doubled once only.
BackoffPassesFlat ==
    /\ Goes("backoff", "sending")
    /\ waited' = waited + (IF attempt > 1 THEN 2 ELSE 1)
    /\ UNCHANGED <<attempt, reader, ctxDone, response, open, result, arrived>>

BackoffPasses ==
    /\ Goes("backoff", "sending")
    /\ waited' = waited + Backoff(attempt)
    /\ UNCHANGED <<attempt, reader, ctxDone, response, open, result, arrived>>

\* Mutant of WaitCancelled: the backoff is slept through.
WaitCancelledLimited ==
    /\ ctxDone
    /\ Goes("limited", "returned") /\ open' = open - 1
    /\ result' = "cancelled"
    /\ UNCHANGED <<attempt, reader, ctxDone, response, waited, arrived>>

\* Either wait ends with the context: the body of a response at hand is closed.
WaitCancelled ==
    /\ ctxDone
    /\ \/ Goes("backoff", "returned") /\ UNCHANGED open
       \/ Goes("limited", "returned") /\ open' = open - 1
    /\ result' = "cancelled"
    /\ UNCHANGED <<attempt, reader, ctxDone, response, waited, arrived>>

\* What the request carries is read from the caller's reader, which is not rewound.
Carried == IF reader = "whole" THEN "whole" ELSE "none"
AfterSend == IF reader = "none" THEN "none" ELSE "consumed"

\* The answer arrives: httpClient.Do returns a response, whose body is open.
Answered ==
    /\ Goes("sending", "answered")
    /\ \E code \in StatusCodes : response' = code
    /\ open' = open + 1
    /\ reader' = AfterSend
    /\ arrived' = Append(arrived, [attempt |-> attempt, carried |-> Carried,
                                  bearer |-> SanitizeToken(Token), code |-> response'])
    /\ UNCHANGED <<attempt, ctxDone, result, waited>>

\* httpClient.Do returns an error; isRetriable says yes to every one.  The request
\* may or may not have reached the server.
RequestFails ==
    /\ \/ /\ attempt < MaxRetries /\ Goes("sending", "start")
          /\ attempt' = attempt + 1 /\ UNCHANGED result
       \/ /\ attempt >= MaxRetries /\ Goes("sending", "returned")
          /\ result' = "error" /\ UNCHANGED attempt
    /\ \/ arrived' = Append(arrived, [attempt |-> attempt, carried |-> Carried,
                                     bearer |-> SanitizeToken(Token), code |-> 0])
       \/ UNCHANGED arrived
    /\ reader' \in {reader, AfterSend}
    /\ response' = 0
    /\ UNCHANGED <<ctxDone, open, waited>>

WillRetry == IsRetriableStatusCode(response) /\ attempt < MaxRetries

\* A success, an error that is not worth a retry, or the last attempt whatever it
\* got: the response is returned with its body open.
ReturnResponse ==
    /\ Goes("answered", "returned")
    /\ ~WillRetry
    /\ result' = "response"
    /\ UNCHANGED <<attempt, reader, ctxDone, response, open, waited, arrived>>

\* A 429 waits as the server asks, on top of the backoff to come.
RateLimited ==
    /\ Goes("answered", "limited")
    /\ WillRetry /\ response = TooManyRequests
    /\ UNCHANGED <<attempt, reader, ctxDone, response, open, result, waited, arrived>>

\* Mutant of NextAttempt: the body of the response is left open.
NextAttemptUnclosed ==
    /\ \/ Goes("answered", "start") /\ WillRetry /\ response # TooManyRequests /\ UNCHANGED waited
       \/ /\ Goes("limited", "start")
          /\ \E header \in RetryAfters : waited' = waited + RetryAfter(header)
    /\ attempt' = attempt + 1
    /\ response' = 0
    /\ UNCHANGED <<reader, ctxDone, open, result, arrived>>

\* The body is drained and closed, and the loop goes on.
NextAttempt ==
    /\ \/ Goes("answered", "start") /\ WillRetry /\ response # TooManyRequests /\ UNCHANGED waited
       \/ /\ Goes("limited", "start")
          /\ \E header \in RetryAfters : waited' = waited + RetryAfter(header)
    /\ attempt' = attempt + 1
    /\ open' = open - 1
    /\ response' = 0
    /\ UNCHANGED <<reader, ctxDone, result, arrived>>

ContextDone ==
    /\ ~ctxDone /\ phase # "returned"
    /\ ctxDone' = TRUE
    /\ UNCHANGED <<phase, attempt, reader, response, open, result, waited, arrived>>

ClientStep ==
    \/ BeginAttempt \/ RequestNotMade \/ BackoffPasses \/ WaitCancelled \/ Answered \/ RequestFails
    \/ ReturnResponse \/ RateLimited \/ NextAttempt

ClientNext == ClientStep \/ ContextDone

ClientSpec == ClientInit /\ [][ClientNext]_clientVars

\* What the client does without waiting for the clock or for the server, whose connection
\* httpClient.Do gives up once the context is done.
OwnStep ==
    \/ BeginAttempt \/ WaitCancelled \/ ReturnResponse \/ RateLimited
    \/ phase = "answered" /\ NextAttempt
    \/ ctxDone /\ RequestFails

FairClientSpec == ClientSpec /\ WF_clientVars(OwnStep)

--------------------------------------------------------------------------------
(* Correctness *)

\* Types; the loop never runs out, since its last turn always returns.
ClientTypeOK ==
    /\ phase \in Phases /\ result \in Results /\ reader \in Bodies
    /\ attempt \in 0 .. MaxRetries
    /\ ctxDone \in BOOLEAN
    /\ response \in StatusCodes \cup {0}
    /\ open \in Nat
    /\ waited \in Nat
    /\ arrived \in Seq([attempt : 0 .. MaxRetries, carried : Bodies,
                          bearer : {Token, SanitizeToken(Token)}, code : StatusCodes \cup {0}])
    /\ result # "none" <=> phase = "returned"

\* The server is asked at most MaxRetries + 1 times, each attempt once, and not
\* again after an answer that settles the matter.
AttemptsAreBounded ==
    /\ \A i, j \in DOMAIN arrived : i < j => arrived[i].attempt < arrived[j].attempt
    /\ \A i \in DOMAIN arrived :
          arrived[i].code # 0 /\ ~IsRetriableStatusCode(arrived[i].code) => i = Len(arrived)

\* Before the n-th retry the client has waited for all of 1 + 2 + ... + 2^(n-1)
\* seconds: what a server asks for with Retry-After only adds to it.
RetriesBackOff ==
    phase \in {"sending", "answered"} =>
        waited >= 2 ^ attempt - 1

\* No response body is left open but the one the caller gets.
BodiesAreClosed ==
    phase = "returned" => open = (IF result = "response" THEN 1 ELSE 0)

\* What every step of a request keeps: the types, that attempts are not repeated, and
\* that its responses are closed.
ClientInv == ClientTypeOK /\ AttemptsAreBounded /\ BodiesAreClosed

\* Once its context is done the call returns, in whatever wait, and it takes neither the
\* end of that wait nor an answer of the server.
CancelledReturns == ctxDone ~> phase = "returned"

\* "system retries the request": a retry sends what the first attempt sent.
RetriesSendTheBody ==
    \A i, j \in DOMAIN arrived : arrived[i].carried = arrived[j].carried

\* "system includes the Sysdig API token in the Authorization header".
RequestsCarryTheToken == \A i \in DOMAIN arrived : arrived[i].bearer = Token
================================================================================
