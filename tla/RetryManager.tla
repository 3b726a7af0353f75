------------------------------ MODULE RetryManager ------------------------------
(***************************************************************************)
(* Retrying failed scans, pkg/queue/retry.go, around the queue of             *)
(* pkg/queue/queue.go: Enqueue looks at the closed flag in one step and sends   *)
(* in a second one, which panics if the queue was closed in between (see       *)
(* ScanQueue.tla, which has parked receivers and the counter too).            *)
(* A job is one *models.ScanRequest; its RetryCount travels with it.          *)
(*                                                                         *)
(* The repository calls the manager from tests only.  The module assumes the   *)
(* use its interface asks for: whoever sees a scan fail calls ShouldRetry and, *)
(* if that says so, ScheduleRetry, in a goroutine that holds no worker.        *)
(*                                                                         *)
(* An error message is reduced to what contains() can tell apart: the patterns *)
(* it has in it, whether it consists of just one of them, and whether it is    *)
(* written with capitals.                                                    *)
(*                                                                         *)
(* BackoffMultiplier, a float64 that nobody validates, is the quotient of two   *)
(* numbers: it may be a fraction and less than one, but is not negative.  The   *)
(* product is exact, which float64 is up to 53 bits.  Durations are Width-bit   *)
(* signed integers; converting a product that does not fit is left open by Go:  *)
(* amd64 yields the least integer, arm64 the greatest.                        *)
(***************************************************************************)
EXTENDS Integers, Sequences, FiniteSets, Functions

CONSTANTS Jobs,
          Errors,            \* the errors a scan may fail with
          Capacity,          \* of the queue
          Workers,           \* how many scans run at a time
          MaxRetries, InitialBackoff, MaxBackoff,    \* RetryConfig
          Numerator, Denominator,                    \* its BackoffMultiplier is the quotient
          Width              \* bits of a time.Duration

RetriablePatterns == {"timeout", "connection refused", "connection reset",
                      "temporary failure", "network", "503", "502", "504"}
NonRetriablePatterns == {"not found", "404", "401", "403", "invalid",
                         "authentication", "authorization"}
Patterns == RetriablePatterns \cup NonRetriablePatterns

Messages == [has : SUBSET Patterns, alone : BOOLEAN, capitals : BOOLEAN]

ASSUME RetryAssumption ==
    /\ Errors \subseteq {m \in Messages : m.alone => Cardinality(m.has) = 1}
    /\ Capacity \in Nat \ {0} /\ Workers \in Nat \ {0}    \* the defaults replace 0
    /\ MaxRetries \in Nat /\ Width \in Nat \ {0}
    /\ InitialBackoff \in Nat /\ MaxBackoff \in Nat
    /\ Numerator \in Nat /\ Denominator \in Nat \ {0}
    /\ MaxBackoff < 2 ^ (Width - 1)

VARIABLES
    queue,       \* the jobs that wait
    closed,      \* the queue is closed
    state,       \* where each job is
    err,         \* the error each job last failed with
    retryCount,  \* ScanRequest.RetryCount
    backoff,     \* how long the last retry of each job waits or waited
    attempts     \* history: how often each job was scanned

retryVars == <<queue, closed, state, err, retryCount, backoff, attempts>>

Settled == {"succeeded", "givenUp", "lost", "refused", "panicked"}
Entering == {"submitting", "returning"}    \* Enqueue has found the queue open
JobStates == {"new", "queued", "running", "failed", "sleeping"} \cup Entering \cup Settled
NoError == [has |-> {}, alone |-> FALSE, capitals |-> FALSE]

RetryInit ==
    /\ queue = <<>>
    /\ closed = FALSE
    /\ state = [j \in Jobs |-> "new"]
    /\ err = [j \in Jobs |-> NoError]
    /\ retryCount = [j \in Jobs |-> 0]
    /\ backoff = [j \in Jobs |-> 0]
    /\ attempts = [j \in Jobs |-> 0]

--------------------------------------------------------------------------------
(* Which errors are worth a retry, and how long it waits *)

\* Strings of the same length are compared as they are, longer ones without case.
Contains(m, p) == p \in m.has /\ ~(m.alone /\ m.capitals)

\* Retriable patterns first, then the others; an unknown error is retriable.
IsRetriableError(m) ==
    \/ \E p \in RetriablePatterns : Contains(m, p)
    \/ \A p \in NonRetriablePatterns : ~Contains(m, p)

\* Mutant of ShouldRetry: one retry more than configured.
ShouldRetryOnceMore(count, m) == count <= MaxRetries /\ IsRetriableError(m)

ShouldRetry(count, m) == count < MaxRetries /\ IsRetriableError(m)

\* InitialBackoff, multiplied once for each retry after the first: a fraction, which
\* the conversion to a Duration cuts off.
Product[count \in Nat] ==
    IF count <= 1 THEN [num |-> InitialBackoff, den |-> 1]
    ELSE [num |-> Product[count - 1].num * Numerator, den |-> Product[count - 1].den * Denominator]

Truncated(count) == Product[count].num \div Product[count].den

Greatest == 2 ^ (Width - 1) - 1
Least == -(2 ^ (Width - 1))

\* time.Duration(backoff): what the conversion may yield.
AsDuration(x) == IF x <= Greatest THEN {x} ELSE {Least, Greatest}

\* The converted product, capped; a product that wrapped is below the cap.
CalculateBackoff(count) ==
    {IF d > MaxBackoff THEN MaxBackoff ELSE d : d \in AsDuration(Truncated(count))}

--------------------------------------------------------------------------------
(* Jobs *)

\* The first half of Enqueue: a closed queue refuses the job.
EnqueueCheck(j, from, to, refusal) ==
    /\ state[j] = from
    /\ state' = [state EXCEPT ![j] = IF closed THEN refusal ELSE to]
    /\ UNCHANGED <<queue, closed, err, retryCount, backoff, attempts>>

\* The second half: into the queue, refused by a full one, or a send on a channel that
\* was closed since.
EnqueueSend(j, from, refusal) ==
    /\ state[j] = from
    /\ \/ /\ ~closed /\ Len(queue) < Capacity
          /\ queue' = Append(queue, j)
          /\ state' = [state EXCEPT ![j] = "queued"]
       \/ /\ ~closed /\ Len(queue) = Capacity
          /\ state' = [state EXCEPT ![j] = refusal]
          /\ UNCHANGED queue
       \/ /\ closed
          /\ state' = [state EXCEPT ![j] = "panicked"]
          /\ UNCHANGED queue
    /\ UNCHANGED <<closed, err, retryCount, backoff, attempts>>

Submit(j) ==
    \/ EnqueueCheck(j, "new", "submitting", "refused")
    \/ EnqueueSend(j, "submitting", "refused")

\* A worker takes the job at the head of the queue and scans it.
StartAttempt(j) ==
    /\ queue # <<>> /\ Head(queue) = j
    /\ Cardinality({k \in Jobs : state[k] = "running"}) < Workers
    /\ queue' = Tail(queue)
    /\ state' = [state EXCEPT ![j] = "running"]
    /\ attempts' = [attempts EXCEPT ![j] = @ + 1]
    /\ UNCHANGED <<closed, err, retryCount, backoff>>

AttemptSucceeds(j) ==
    /\ state[j] = "running"
    /\ state' = [state EXCEPT ![j] = "succeeded"]
    /\ UNCHANGED <<queue, closed, err, retryCount, backoff, attempts>>

AttemptFails(j, e) ==
    /\ state[j] = "running"
    /\ state' = [state EXCEPT ![j] = "failed"]
    /\ err' = [err EXCEPT ![j] = e]
    /\ UNCHANGED <<queue, closed, retryCount, backoff, attempts>>

GiveUp(j) ==
    /\ state[j] = "failed"
    /\ ~ShouldRetry(retryCount[j], err[j])
    /\ state' = [state EXCEPT ![j] = "givenUp"]
    /\ UNCHANGED <<queue, closed, err, retryCount, backoff, attempts>>

\* Mutant of ScheduleRetry: the exponent is the number of retries that are left.
ScheduleRetryAnyOrder(j) ==
    /\ state[j] = "failed"
    /\ ShouldRetry(retryCount[j], err[j])
    /\ state' = [state EXCEPT ![j] = "sleeping"]
    /\ retryCount' = [retryCount EXCEPT ![j] = @ + 1]
    /\ backoff' \in {[backoff EXCEPT ![j] = d] : d \in CalculateBackoff(MaxRetries - retryCount[j])}
    /\ UNCHANGED <<queue, closed, err, attempts>>

\* ScheduleRetry up to the sleep.
ScheduleRetry(j) ==
    /\ state[j] = "failed"
    /\ ShouldRetry(retryCount[j], err[j])
    /\ state' = [state EXCEPT ![j] = "sleeping"]
    /\ retryCount' = [retryCount EXCEPT ![j] = @ + 1]
    /\ backoff' \in {[backoff EXCEPT ![j] = d] : d \in CalculateBackoff(retryCount'[j])}
    /\ UNCHANGED <<queue, closed, err, attempts>>

\* Mutant of Reenqueue: the retry waits for room and does not notice that the queue is closed.
ReenqueueWaits(j) ==
    /\ ~closed /\ Len(queue) < Capacity
    /\ \/ EnqueueCheck(j, "sleeping", "returning", "lost")
       \/ EnqueueSend(j, "returning", "lost")

\* The sleep is over and the job is enqueued again.  The context with a deadline
\* 30 seconds ahead makes no difference: Enqueue does not wait, and its select
\* finds the channel of a Done() that was made a moment ago open.
Reenqueue(j) ==
    \/ EnqueueCheck(j, "sleeping", "returning", "lost")
    \/ EnqueueSend(j, "returning", "lost")

CloseQueue ==
    /\ ~closed
    /\ closed' = TRUE
    /\ UNCHANGED <<queue, state, err, retryCount, backoff, attempts>>

RetryStep(j) == GiveUp(j) \/ ScheduleRetry(j) \/ Reenqueue(j)

EndAttempt(j) == AttemptSucceeds(j) \/ \E e \in Errors : AttemptFails(j, e)

RetryNext ==
    \/ \E j \in Jobs : Submit(j) \/ StartAttempt(j) \/ EndAttempt(j) \/ RetryStep(j)
    \/ CloseQueue

RetrySpec == RetryInit /\ [][RetryNext]_retryVars

\* Scans end, sleeps end, and the workers and retriers are scheduled.
RetryFairness ==
    /\ \A j \in Jobs : WF_retryVars(EndAttempt(j)) /\ WF_retryVars(RetryStep(j))
    /\ WF_retryVars(\E j \in Jobs : StartAttempt(j))

FairRetrySpec == RetrySpec /\ RetryFairness

--------------------------------------------------------------------------------
(* Correctness *)

\* Types; a job is in the queue, once, exactly while its state says so.
RetryTypeOK ==
    /\ queue \in Seq(Jobs) /\ IsInjective(queue) /\ Len(queue) <= Capacity
    /\ Range(queue) = {j \in Jobs : state[j] = "queued"}
    /\ closed \in BOOLEAN
    /\ state \in [Jobs -> JobStates]
    /\ err \in [Jobs -> Errors \cup {NoError}]
    /\ retryCount \in [Jobs -> 0 .. MaxRetries]
    /\ backoff \in [Jobs -> Least .. Greatest]
    /\ attempts \in [Jobs -> Nat]

\* A job is scanned at most once more often than it may be retried, and its
\* RetryCount says how many of its scans were retries: one that is asleep, on its way
\* into the queue, queued or lost for the n-th retry has been scanned n times.
CountMatchesAttempts ==
    \A j \in Jobs :
        /\ attempts[j] <= MaxRetries + 1
        /\ state[j] \in {"running", "failed", "succeeded", "givenUp"}
              => retryCount[j] = attempts[j] - 1
        /\ state[j] \in {"new", "queued", "sleeping", "lost", "refused", "panicked"} \cup Entering
              => retryCount[j] = attempts[j]

\* A retry waits no longer than MaxBackoff, and no less than nothing.
BackoffCapped == \A j \in Jobs : backoff[j] \in 0 .. MaxBackoff

\* What every step of the retries keeps: the types, that the count is the truth about
\* the scans, and that no wait is too long.
RetryInv == RetryTypeOK /\ CountMatchesAttempts /\ BackoffCapped

\* Each retry of a job waits at least as long as the one before, with a multiplier of one
\* or more.
BackoffGrows == [][\A j \in Jobs : backoff'[j] >= backoff[j]]_retryVars

\* Every job that was queued comes to an end; it does not go round for ever, and
\* none is forgotten while it sleeps.
JobsSettle == \A j \in Jobs : state[j] = "queued" ~> state[j] \in Settled

\* The comment of the cap: "Cap at max backoff".  BackoffCapped again, for a
\* configuration with more retries than the duration has bits for.
CappedAlways == \A j \in Jobs : backoff[j] \in 0 .. MaxBackoff

\* The comment of the re-enqueue: "30s timeout for enqueue".  The queue being full
\* just then would not be reason enough to lose the job.
RetryWaitsForRoom == \A j \in Jobs : state[j] = "lost" => closed

\* The comment of contains: "case-insensitive".
ContainsIgnoresCase ==
    \A j \in Jobs : \A p \in Patterns : p \in err[j].has => Contains(err[j], p)
================================================================================
