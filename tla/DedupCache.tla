------------------------------- MODULE DedupCache -------------------------------
(***************************************************************************)
(* The deduplication cache, pkg/queue/dedup.go: IsDuplicate called by many    *)
(* goroutines, the goroutine that cleans up, and Stop.  A call d is one call  *)
(* of IsDuplicate; RequestOf[d] is what it is asked about.                    *)
(*                                                                         *)
(* A step is one critical section, or what happens between two: the lookup    *)
(* under the read lock, the judgement of the age that was looked up, the mark  *)
(* under the write lock, the receipt of a tick, one pass of cleanup.  The      *)
(* counters are incremented without a lock, so each increment is a load and a  *)
(* store.                                                                    *)
(*                                                                         *)
(* Time is counted in units up to MaxTime.  A key is what generateKey makes    *)
(* of the request; that the truncated hash separates image references is       *)
(* taken for granted.                                                        *)
(***************************************************************************)
EXTENDS Integers, FiniteSets

CONSTANTS Calls,        \* the calls of IsDuplicate
          RequestOf,    \* the digest and the image reference of each call
          NoDigest,     \* the empty digest
          TTL,          \* the time window
          MaxTime,      \* bound of the clock
          Never         \* not a time: a key that is not in the cache

ASSUME DedupAssumption ==
    /\ IsFiniteSet(Calls)
    /\ TTL \in Nat /\ TTL \div 2 > 0    \* NewTicker panics for an interval of 0
    /\ MaxTime \in Nat
    /\ Never \notin Nat

VARIABLES
    now,       \* the clock
    cache,     \* when each key was last marked, Never if it has no entry
    hits,      \* hitCount
    misses,    \* missCount
    call,      \* where each call is, or what it returned
    seen,      \* lastSeen, as the call looked it up
    loaded,    \* the counter as the call loaded it
    tick,      \* the ticker's channel holds a tick
    loop,      \* the cleanup goroutine
    stopped,   \* stopped, and with it stopChan is closed
    lookedAt,  \* history: when each call looked up its key, until it acts on it
    judgedAt,  \* history: when it compared the age with the window, until it acts on it
    markedAt   \* history: when each call marked its key

history == <<lookedAt, judgedAt, markedAt>>
shared == <<cache, hits, misses, tick, loop, stopped>>
dedupVars == <<now, shared, call, seen, loaded, history>>

\* By digest if the request has one, by image reference otherwise.
GenerateKey(req) ==
    IF req.digest # NoDigest THEN <<"digest", req.digest>> ELSE <<"ref", req.ref>>

Key(d) == GenerateKey(RequestOf[d])
Keys == {Key(d) : d \in Calls}
Times == 0 .. MaxTime

CallStates == {"idle", "looked", "hit", "hitLoaded", "fresh", "marked", "missLoaded",
               "duplicate", "admitted"}

DedupInit ==
    /\ now = 0
    /\ cache = [k \in Keys |-> Never]
    /\ hits = 0
    /\ misses = 0
    /\ call = [d \in Calls |-> "idle"]
    /\ seen = [d \in Calls |-> Never]
    /\ loaded = [d \in Calls |-> 0]
    /\ tick = FALSE
    /\ loop = "running"
    /\ stopped = FALSE
    /\ lookedAt = [d \in Calls |-> Never]
    /\ judgedAt = [d \in Calls |-> Never]
    /\ markedAt = [d \in Calls |-> Never]

--------------------------------------------------------------------------------
(* IsDuplicate *)

CallMoves(d, from, to) ==
    /\ call[d] = from
    /\ call' = [call EXCEPT ![d] = to]

\* The read lock is held for the lookup only.
Lookup(d) ==
    /\ CallMoves(d, "idle", "looked")
    /\ seen' = [seen EXCEPT ![d] = cache[Key(d)]]
    /\ lookedAt' = [lookedAt EXCEPT ![d] = now]
    /\ UNCHANGED <<now, shared, loaded, judgedAt, markedAt>>

WithinWindow(t) == t # Never /\ now - t < TTL

\* Mutant of Judge: an entry counts, however old it is.
JudgePresence(d) ==
    /\ CallMoves(d, "looked", IF seen[d] # Never THEN "hit" ELSE "fresh")
    /\ judgedAt' = [judgedAt EXCEPT ![d] = now]
    /\ seen' = [seen EXCEPT ![d] = Never]
    /\ UNCHANGED <<now, shared, loaded, lookedAt, markedAt>>

\* The age is taken when it is compared, which may be later than the lookup.
Judge(d) ==
    /\ CallMoves(d, "looked", IF WithinWindow(seen[d]) THEN "hit" ELSE "fresh")
    /\ judgedAt' = [judgedAt EXCEPT ![d] = now]
    /\ seen' = [seen EXCEPT ![d] = Never]
    /\ UNCHANGED <<now, shared, loaded, lookedAt, markedAt>>

\* The history of a call that has acted on its judgement is of no use any more.
Forget(d) ==
    /\ lookedAt' = [lookedAt EXCEPT ![d] = Never]
    /\ judgedAt' = [judgedAt EXCEPT ![d] = Never]

Mark(d) ==
    /\ CallMoves(d, "fresh", "marked")
    /\ cache' = [cache EXCEPT ![Key(d)] = now]
    /\ markedAt' = [markedAt EXCEPT ![d] = now]
    /\ Forget(d)
    /\ UNCHANGED <<now, hits, misses, tick, loop, stopped, seen, loaded>>

LoadCounter(d) ==
    /\ \/ CallMoves(d, "hit", "hitLoaded") /\ loaded' = [loaded EXCEPT ![d] = hits]
       \/ CallMoves(d, "marked", "missLoaded") /\ loaded' = [loaded EXCEPT ![d] = misses]
    /\ Forget(d)
    /\ UNCHANGED <<now, shared, seen, markedAt>>

\* The store, and the answer: TRUE for a duplicate, FALSE for an admitted request.
StoreCounter(d) ==
    /\ \/ CallMoves(d, "hitLoaded", "duplicate") /\ hits' = loaded[d] + 1 /\ UNCHANGED misses
       \/ CallMoves(d, "missLoaded", "admitted") /\ misses' = loaded[d] + 1 /\ UNCHANGED hits
    /\ loaded' = [loaded EXCEPT ![d] = 0]
    /\ UNCHANGED <<now, cache, tick, loop, stopped, seen, history>>

CallStep(d) == Judge(d) \/ Mark(d) \/ LoadCounter(d) \/ StoreCounter(d)

--------------------------------------------------------------------------------
(* The cleanup goroutine, Stop and the clock *)

\* The ticker fires every TTL/2 and drops a tick while its channel is full.
ClockTicks ==
    /\ now < MaxTime
    /\ now' = now + 1
    /\ tick' = (tick \/ now' % (TTL \div 2) = 0)
    /\ UNCHANGED <<cache, hits, misses, loop, stopped, call, seen, loaded, history>>

\* Mutant of Stale: the window counts twice.
StaleLate(k) == cache[k] # Never /\ now - cache[k] > 2 * TTL

Stale(k) == cache[k] # Never /\ now - cache[k] > TTL

\* The select of cleanupLoop takes the tick; cleanup has still to get the lock.
TakeTick ==
    /\ loop = "running" /\ tick
    /\ tick' = FALSE
    /\ loop' = "cleaning"
    /\ UNCHANGED <<now, cache, hits, misses, stopped, call, seen, loaded, history>>

\* Mutant of Cleanup: what is older than half the window goes.
CleanupEarly ==
    /\ loop = "cleaning"
    /\ loop' = "running"
    /\ cache' = [k \in Keys |->
                   IF cache[k] # Never /\ now - cache[k] >= TTL \div 2 THEN Never ELSE cache[k]]
    /\ UNCHANGED <<now, hits, misses, tick, stopped, call, seen, loaded, history>>

\* One pass under the write lock, with the time it is then.
Cleanup ==
    /\ loop = "cleaning"
    /\ loop' = "running"
    /\ cache' = [k \in Keys |-> IF Stale(k) THEN Never ELSE cache[k]]
    /\ UNCHANGED <<now, hits, misses, tick, stopped, call, seen, loaded, history>>

LoopStops ==
    /\ loop = "running" /\ stopped
    /\ loop' = "exited"
    /\ UNCHANGED <<now, cache, hits, misses, tick, stopped, call, seen, loaded, history>>

\* The first call closes stopChan, a later one finds stopped set.
Stop ==
    /\ stopped' = TRUE
    /\ UNCHANGED <<now, cache, hits, misses, tick, loop, call, seen, loaded, history>>

DedupNext ==
    \/ \E d \in Calls : Lookup(d) \/ CallStep(d)
    \/ ClockTicks \/ TakeTick \/ Cleanup \/ LoopStops \/ Stop

DedupSpec == DedupInit /\ [][DedupNext]_dedupVars

\* What Stats reports of the counters.
TotalRequests == hits + misses

--------------------------------------------------------------------------------
(* Correctness *)

\* Types; what a call knows and left in its history fits how far it is.
DedupTypeOK ==
    /\ now \in Times
    /\ cache \in [Keys -> Times \cup {Never}]
    /\ hits \in 0 .. Cardinality(Calls) /\ misses \in 0 .. Cardinality(Calls)
    /\ call \in [Calls -> CallStates]
    /\ seen \in [Calls -> Times \cup {Never}]
    /\ loaded \in [Calls -> 0 .. Cardinality(Calls)]
    /\ tick \in BOOLEAN /\ stopped \in BOOLEAN /\ loop \in {"running", "cleaning", "exited"}
    /\ \A d \in Calls :
        /\ lookedAt[d] # Never <=> call[d] \in {"looked", "hit", "fresh"}
        /\ judgedAt[d] # Never <=> call[d] \in {"hit", "fresh"}
        /\ markedAt[d] # Never <=> call[d] \in {"marked", "missLoaded", "admitted"}

Marked(d) == markedAt[d] # Never

\* A duplicate was told so because an earlier call for the same image was admitted
\* within the window; being a duplicate does not prolong the window.
DuplicateHasReason ==
    \A d \in Calls : call[d] = "hit" =>
        \E e \in Calls \ {d} :
            /\ Key(e) = Key(d) /\ Marked(e)
            /\ markedAt[e] <= lookedAt[d]
            /\ judgedAt[d] - markedAt[e] < TTL

\* Two calls for the same image that do not overlap are not both admitted within
\* the window, whatever cleanup does in between.
AdmittedApart ==
    \A d, e \in Calls :
        /\ d # e /\ Key(d) = Key(e) /\ Marked(d)
        /\ call[e] = "fresh"
        /\ markedAt[d] < lookedAt[e]
        => judgedAt[e] - markedAt[d] >= TTL

\* The counters may lose an increment to a race but never count a call that has not
\* answered: what Stats reports is at most what was asked.
CountersUndercount ==
    /\ hits <= Cardinality({d \in Calls : call[d] = "duplicate"})
    /\ misses <= Cardinality({d \in Calls : call[d] = "admitted"})

\* What every step of the cache keeps: the types, that the counters are not ahead, and
\* that no image is refused without a reason.
DedupInv == DedupTypeOK /\ CountersUndercount /\ DuplicateHasReason

\* An entry outlives its window by half a window at most, unless the cleanup is due or
\* under way, or its goroutine was stopped: the cache does not grow with the images ever
\* seen.
CacheIsTrimmed ==
    \A k \in Keys : cache[k] # Never /\ now - cache[k] > TTL + TTL \div 2 =>
        tick \/ loop = "cleaning" \/ (loop = "exited" /\ stopped)

\* The specification of deduplication: "the same image:tag is scanned and a webhook
\* for the same image arrives within N seconds: system skips the duplicate scan".
OneScanPerWindow ==
    \A d, e \in Calls :
        d # e /\ Key(d) = Key(e) /\ Marked(d) /\ Marked(e) =>
            markedAt[d] - markedAt[e] >= TTL \/ markedAt[e] - markedAt[d] >= TTL

\* "Stats returns cache statistics": every answered call is in them.
StatsCountEveryCall ==
    (\A d \in Calls : call[d] \in {"duplicate", "admitted"}) =>
        TotalRequests = Cardinality(Calls)
================================================================================
