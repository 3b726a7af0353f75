---------------------------- MODULE ResultProcessor ----------------------------
(***************************************************************************)
(* The processor of scan results, pkg/scanner/results.go: ProcessResult parses *)
(* the output of the scanner, updates the metrics under one lock and caches a  *)
(* success under another, while GetCachedResult and GetMetrics read.  Nothing  *)
(* in the repository calls it yet; the workers of the pool would, each with    *)
(* its own result.                                                          *)
(*                                                                         *)
(* Time is counted in ticks.  The average duration is kept as the sum it is     *)
(* the quotient of, without the rounding of floats.  An output is a sequence    *)
(* of lines and a line the set of the severities it mentions; one in JSON is    *)
(* the summary itself.                                                      *)
(***************************************************************************)
EXTENDS Naturals, Sequences, FiniteSets, FiniteSetsExt

CONSTANTS Results,     \* the calls of ProcessResult
          Images,      \* the image references
          Outcomes,    \* what a result may be: image, status, duration, json and output
          CacheTTL,    \* how long a cached result is served
          MaxTime,     \* bound of the clock
          Nothing      \* no cache entry, no answer

Severities == {"critical", "high", "medium", "low"}
Statuses == {"success", "failed", "timeout", "running"}

ASSUME ResultAssumption ==
    /\ CacheTTL \in Nat /\ MaxTime \in Nat /\ Nothing \notin Nat
    /\ \A o \in Outcomes :
           /\ o.image \in Images /\ o.status \in Statuses /\ o.duration \in Nat
           /\ IF o.json THEN o.output \in [Severities -> Nat]
                        ELSE o.output \in Seq(SUBSET Severities)

VARIABLES
    given,       \* the result of each call
    now,         \* the clock
    step,        \* where each call of ProcessResult is
    summary,     \* what parseScanOutput made of its output
    metrics,     \* ResultMetrics
    cache,       \* for each image, the result and ExpiresAt
    cachedAt,    \* history: when the result of each call was cached
    served       \* for each image, what GetCachedResult found last, and when

resultVars == <<given, now, step, summary, metrics, cache, cachedAt, served>>

NoSummary == [s \in Severities |-> 0]

ResultInit ==
    /\ given \in [Results -> Outcomes]
    /\ now = 0
    /\ step = [r \in Results |-> "new"]
    /\ summary = [r \in Results |-> NoSummary]
    /\ metrics = [total |-> 0, success |-> 0, failed |-> 0, timeout |-> 0,
                  sum |-> 0, min |-> 0, max |-> 0]
    /\ cache = [i \in Images |-> Nothing]
    /\ cachedAt = [r \in Results |-> Nothing]
    /\ served = [i \in Images |-> Nothing]

Moves(r, from, to) == step[r] = from /\ step' = [step EXCEPT ![r] = to]

--------------------------------------------------------------------------------
(* ProcessResult *)

\* The first severity of the chain of else ifs that the line mentions.
Counts(line, severity) ==
    /\ severity \in line
    /\ severity # "critical" => "critical" \notin line
    /\ severity \in {"medium", "low"} => "high" \notin line
    /\ severity = "low" => "medium" \notin line

\* parseTextOutput
ParseTextOutput(output) ==
    [s \in Severities |-> Cardinality({n \in DOMAIN output : Counts(output[n], s)})]

\* parseScanOutput and logResult; an output that is empty is only warned of.
Parse(r) ==
    /\ Moves(r, "new", "parsed")
    /\ summary' = [summary EXCEPT ![r] =
           IF given[r].json THEN given[r].output ELSE ParseTextOutput(given[r].output)]
    /\ UNCHANGED <<given, now, metrics, cache, cachedAt, served>>

One(condition) == IF condition THEN 1 ELSE 0

\* Mutant of MinDuration: the zero of the empty metrics is taken for a duration.
MinDurationOfZero(m, o) == IF o.duration < m.min THEN o.duration ELSE m.min

\* A minimum of 0 stands for none, also if it is the duration of a result.
MinDuration(m, o) == IF m.min = 0 \/ o.duration < m.min THEN o.duration ELSE m.min

\* The critical section of updateMetrics.
UpdateMetrics(r, from, to) ==
    LET o == given[r]
        counted == IF o.status \in {"success", "failed", "timeout"}
                   THEN [metrics EXCEPT ![o.status] = @ + 1] ELSE metrics
    IN /\ Moves(r, from, to)
       /\ metrics' = [counted EXCEPT
              !.total = @ + 1, !.sum = @ + o.duration, !.min = MinDuration(metrics, o),
              !.max = IF o.duration > @ THEN o.duration ELSE @]
       /\ UNCHANGED <<given, now, summary, cache, cachedAt, served>>

\* The critical section of cacheResult: whatever was cached for the image is replaced.
CacheResult(r, from, to) ==
    /\ Moves(r, from, to)
    /\ cache' = [cache EXCEPT ![given[r].image] = [result |-> r, expires |-> now + CacheTTL]]
    /\ cachedAt' = [cachedAt EXCEPT ![r] = now]
    /\ UNCHANGED <<given, now, summary, metrics, served>>

Success(r) == given[r].status = "success"

\* Mutant of ProcessStep: a success is cached before it is counted.
ProcessStepCacheFirst(r) ==
    \/ Parse(r)
    \/ Success(r) /\ CacheResult(r, "parsed", "counted")
    \/ UpdateMetrics(r, IF Success(r) THEN "counted" ELSE "parsed", "done")

\* Parse, count, and cache a success.
ProcessStep(r) ==
    \/ Parse(r)
    \/ UpdateMetrics(r, "parsed", IF Success(r) THEN "counted" ELSE "done")
    \/ CacheResult(r, "counted", "done")

--------------------------------------------------------------------------------
(* The readers and the clock *)

\* Mutant of Lookup: an entry is served however old.
LookupForever(i) == IF cache[i] = Nothing THEN Nothing ELSE cache[i].result

\* What GetCachedResult returns: the entry unless it has expired.  It stays.
Lookup(i) ==
    IF cache[i] # Nothing /\ now <= cache[i].expires THEN cache[i].result ELSE Nothing

GetCachedResult(i) ==
    /\ served' = [served EXCEPT ![i] =
           IF Lookup(i) = Nothing THEN Nothing ELSE [result |-> Lookup(i), at |-> now]]
    /\ UNCHANGED <<given, now, step, summary, metrics, cache, cachedAt>>

ClockTicks ==
    /\ now < MaxTime
    /\ now' = now + 1
    /\ UNCHANGED <<given, step, summary, metrics, cache, cachedAt, served>>

ResultNext ==
    \/ \E r \in Results : ProcessStep(r)
    \/ \E i \in Images : GetCachedResult(i)
    \/ ClockTicks

ResultSpec == ResultInit /\ [][ResultNext]_resultVars

--------------------------------------------------------------------------------
(* Correctness *)

ResultTypeOK ==
    /\ given \in [Results -> Outcomes] /\ now \in 0 .. MaxTime
    /\ step \in [Results -> {"new", "parsed", "counted", "done"}]
    /\ summary \in [Results -> [Severities -> Nat]]
    /\ metrics \in [total : Nat, success : Nat, failed : Nat, timeout : Nat,
                   sum : Nat, min : Nat, max : Nat]
    /\ cache \in [Images -> [result : Results, expires : Nat] \cup {Nothing}]
    /\ cachedAt \in [Results -> Nat \cup {Nothing}]
    /\ served \in [Images -> [result : Results, at : Nat] \cup {Nothing}]

Counted == {r \in Results : step[r] \in {"counted", "done"}}
CountedAs(status) == Cardinality({r \in Counted : given[r].status = status})
CountedDurations == {given[r].duration : r \in Counted}
\* The ticks that the counted results took, each of them its own.
CountedTicks == UNION {{r} \X (1 .. given[r].duration) : r \in Counted}

\* The metrics are those of the results that were counted, in whatever order: each in one
\* total, in the counter of its own status if there is one, and in sum and maximum; the
\* minimum is right too unless a result took no time.
MetricsAreTrue ==
    /\ metrics.total = Cardinality(Counted)
    /\ metrics.success = CountedAs("success") /\ metrics.failed = CountedAs("failed")
    /\ metrics.timeout = CountedAs("timeout")
    /\ metrics.sum = Cardinality(CountedTicks)
    /\ metrics.max = Max(CountedDurations \cup {0})
    /\ Counted # {} /\ 0 \notin CountedDurations => metrics.min = Min(CountedDurations)

\* The summary of a text counts a line that mentions severities once.
LinesCountOnce ==
    \A r \in Results : step[r] # "new" /\ ~given[r].json =>
        summary[r]["critical"] + summary[r]["high"] + summary[r]["medium"] + summary[r]["low"] =
            Cardinality({n \in DOMAIN given[r].output : given[r].output[n] # {}})

\* What every step keeps: the types, that the metrics are those of the results counted,
\* and that the summaries count lines once.
ResultInv == ResultTypeOK /\ MetricsAreTrue /\ LinesCountOnce

\* What GetCachedResult serves is a success of that image, put into the cache no longer
\* than the TTL before.
ServedIsFresh ==
    \A i \in Images : served[i] # Nothing =>
        LET r == served[i].result
        IN /\ given[r].image = i /\ given[r].status = "success"
           /\ cachedAt[r] # Nothing /\ served[i].at - cachedAt[r] <= CacheTTL

\* Whoever has found a result in the cache and reads the metrics then finds it counted.
ServedIsCounted ==
    metrics.success >= Cardinality({served[i].result : i \in {j \in Images : served[j] # Nothing}})

\* MinDuration is the minimum of the durations, as its name says.
MinIsLeast == Counted # {} => metrics.min = Min(CountedDurations)
================================================================================
