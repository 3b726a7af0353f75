---------------------------- MODULE MCRetryManager ----------------------------
(* Small instances of RetryManager for TLC. *)
EXTENDS RetryManager

CONSTANTS j1, j2

MCJobs == {j1, j2}
OneJob == {j1}

Message(words, alone, capitals) == [has |-> words, alone |-> alone, capitals |-> capitals]

\* One error of each sort: retriable, permanent, both, unknown, and a bare word
\* with a capital.
MCErrors == {Message({"timeout"}, FALSE, FALSE),
             Message({"404"}, FALSE, FALSE),
             Message({"timeout", "401"}, FALSE, TRUE),
             Message({}, FALSE, FALSE),
             Message({"invalid"}, TRUE, TRUE)}

TimeoutOnly == {Message({"timeout"}, FALSE, FALSE)}
================================================================================
