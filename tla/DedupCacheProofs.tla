---------------------------- MODULE DedupCacheProofs ----------------------------
(***************************************************************************)
(* Proofs about the deduplication cache, for any number of calls and images,   *)
(* any window and any bound of the clock.  What a call was told depends on the  *)
(* cache as it looked it up, so the argument follows a time from the mark of    *)
(* one call through the cache (EntriesAreMarks, MarksAreKept) into what        *)
(* another has seen (SeenIsMark, LookupsMiss) and to its judgement.           *)
(***************************************************************************)
EXTENDS DedupCache, FiniteSetTheorems, TLAPS

\* The histories hold times.
HistoryTypeOK ==
    /\ lookedAt \in [Calls -> Times \cup {Never}]
    /\ judgedAt \in [Calls -> Times \cup {Never}]
    /\ markedAt \in [Calls -> Times \cup {Never}]

\* Nothing is from the future, and no call judges before it looks.
TimesArePast ==
    \A d \in Calls :
        /\ lookedAt[d] # Never => lookedAt[d] <= now
        /\ judgedAt[d] # Never => lookedAt[d] <= judgedAt[d] /\ judgedAt[d] <= now
        /\ markedAt[d] # Never => markedAt[d] <= now
        /\ seen[d] # Never => call[d] = "looked"

\* An entry is the mark of a call for its image.
EntriesAreMarks ==
    \A k \in Keys : cache[k] # Never =>
        \E e \in Calls : Key(e) = k /\ markedAt[e] = cache[k]

\* What a call has seen is the mark of a call, made before it looked.
SeenIsMark ==
    \A d \in Calls : seen[d] # Never =>
        \E e \in Calls : Key(e) = Key(d) /\ markedAt[e] = seen[d] /\ seen[d] <= lookedAt[d]

\* A mark is in the cache, or a later one is, until the window is over.
MarksAreKept ==
    \A d \in Calls : Marked(d) =>
        IF cache[Key(d)] # Never THEN cache[Key(d)] >= markedAt[d]
                                 ELSE now - markedAt[d] > TTL

\* What a call did not see of an earlier mark was beyond the window when it looked.
LookupsMiss ==
    \A d, e \in Calls :
        /\ Key(d) = Key(e) /\ Marked(d)
        /\ call[e] = "looked"
        /\ markedAt[d] < lookedAt[e]
        => IF seen[e] # Never THEN seen[e] >= markedAt[d]
                              ELSE lookedAt[e] - markedAt[d] > TTL

Answered(what) == {d \in Calls : call[d] = what}

\* A load that has not been stored yet counts no call that has not answered.
LoadsUndercount ==
    \A d \in Calls :
        /\ call[d] = "hitLoaded" => loaded[d] <= Cardinality(Answered("duplicate"))
        /\ call[d] = "missLoaded" => loaded[d] <= Cardinality(Answered("admitted"))

\* The inductive invariant.
WindowInv ==
    /\ DedupTypeOK /\ HistoryTypeOK /\ TimesArePast
    /\ EntriesAreMarks /\ SeenIsMark /\ MarksAreKept /\ LookupsMiss
    /\ DuplicateHasReason /\ AdmittedApart
CountInv == CountersUndercount /\ LoadsUndercount

\* The answered calls are finitely many.
LEMMA AnsweredFinite ==
  ASSUME NEW what
  PROVE  /\ IsFiniteSet(Answered(what)) /\ Cardinality(Answered(what)) \in Nat
         /\ Cardinality(Calls) \in Nat
         /\ Cardinality(Answered(what)) <= Cardinality(Calls)
<1>1. Answered(what) \subseteq Calls
  BY DEF Answered
<1>2. QED
  BY <1>1, DedupAssumption, FS_Subset, FS_CardinalityType

\* Times are naturals, and Never is none of them.
LEMMA TimeFacts ==
  /\ \A t \in Times : t \in Nat /\ t # Never
  /\ 0 \in Times /\ TTL \in Nat /\ MaxTime \in Nat
BY DedupAssumption DEF Times

\* The initial state is one of the invariant.
LEMMA DedupStarts == DedupInit => WindowInv /\ CountInv
<1> SUFFICES ASSUME DedupInit
             PROVE  WindowInv /\ CountInv
  OBVIOUS
<1> USE TimeFacts
<1>1. /\ \A d \in Calls : /\ call[d] = "idle" /\ seen[d] = Never /\ lookedAt[d] = Never
                          /\ judgedAt[d] = Never /\ markedAt[d] = Never
      /\ \A k \in Keys : cache[k] = Never
      /\ hits = 0 /\ misses = 0
  BY DEF DedupInit
<1>2. 0 \in 0 .. Cardinality(Calls)
  BY AnsweredFinite
<1>3. /\ call \in [Calls -> CallStates]
      /\ loaded \in [Calls -> 0 .. Cardinality(Calls)]
  BY <1>2 DEF DedupInit, CallStates
<1>4. /\ now \in Times /\ cache \in [Keys -> Times \cup {Never}]
      /\ seen \in [Calls -> Times \cup {Never}] /\ HistoryTypeOK
      /\ tick \in BOOLEAN /\ stopped \in BOOLEAN /\ loop \in {"running", "cleaning", "exited"}
  BY DEF DedupInit, HistoryTypeOK
<1>5. DedupTypeOK
  BY <1>1, <1>2, <1>3, <1>4 DEF DedupTypeOK
<1>6. /\ TimesArePast /\ EntriesAreMarks /\ SeenIsMark /\ MarksAreKept /\ LookupsMiss
      /\ DuplicateHasReason /\ AdmittedApart
  BY <1>1 DEF TimesArePast, EntriesAreMarks, SeenIsMark, MarksAreKept, LookupsMiss,
     DuplicateHasReason, AdmittedApart, Marked
<1>7. CountInv
  <2>1. Cardinality(Answered("duplicate")) \in Nat /\ Cardinality(Answered("admitted")) \in Nat
    BY AnsweredFinite
  <2>2. CountersUndercount
    BY <1>1, <2>1 DEF CountersUndercount, Answered
  <2>3. LoadsUndercount
    BY <1>1 DEF LoadsUndercount
  <2>4. QED
    BY <2>2, <2>3 DEF CountInv
<1>8. QED
  BY <1>4, <1>5, <1>6, <1>7 DEF WindowInv

--------------------------------------------------------------------------------
(* The counters *)

\* No counter runs ahead of the answers, although increments may be lost.
LEMMA CountSteps ==
  ASSUME DedupTypeOK, CountInv, [DedupNext]_dedupVars
  PROVE  CountInv' /\ hits' \in 0 .. Cardinality(Calls) /\ misses' \in 0 .. Cardinality(Calls)
<1> USE DEF CountInv, CountersUndercount, LoadsUndercount, DedupTypeOK
<1>1. CASE UNCHANGED <<call, hits, misses, loaded>>
  BY <1>1 DEF Answered
<1>2. ASSUME NEW d \in Calls, Lookup(d) \/ Judge(d) \/ Mark(d)
      PROVE  CountInv' /\ UNCHANGED <<hits, misses>>
  <2>1. /\ Answered("duplicate")' = Answered("duplicate")
        /\ Answered("admitted")' = Answered("admitted")
    BY <1>2 DEF Lookup, Judge, Mark, CallMoves, Answered
  <2>2. UNCHANGED <<hits, misses, loaded>>
    BY <1>2 DEF Lookup, Judge, Mark, shared, history
  <2>3. \A e \in Calls : call'[e] \in {"hitLoaded", "missLoaded"} => call'[e] = call[e]
    BY <1>2 DEF Lookup, Judge, Mark, CallMoves
  <2>4. QED
    BY <2>1, <2>2, <2>3 DEF Answered
<1>3. ASSUME NEW d \in Calls, LoadCounter(d)
      PROVE  CountInv' /\ UNCHANGED <<hits, misses>>
  <2>1. /\ Answered("duplicate")' = Answered("duplicate")
        /\ Answered("admitted")' = Answered("admitted")
    BY <1>3 DEF LoadCounter, CallMoves, Answered
  <2>2. UNCHANGED <<hits, misses>>
    BY <1>3 DEF LoadCounter, shared
  <2>3. LoadsUndercount'
    BY <1>3, <2>1, <2>2 DEF LoadCounter, CallMoves, Answered
  <2>4. QED
    BY <2>1, <2>2, <2>3 DEF Answered
<1>4. ASSUME NEW d \in Calls, StoreCounter(d)
      PROVE  CountInv' /\ hits' \in 0 .. Cardinality(Calls) /\ misses' \in 0 .. Cardinality(Calls)
  <2> DEFINE duplicates == Answered("duplicate")
             admitted == Answered("admitted")
  <2>0. /\ IsFiniteSet(duplicates) /\ Cardinality(duplicates) \in Nat
        /\ IsFiniteSet(admitted) /\ Cardinality(admitted) \in Nat
        /\ hits <= Cardinality(duplicates) /\ misses <= Cardinality(admitted)
    BY AnsweredFinite DEF Answered
  <2>1. /\ Cardinality(duplicates)' <= Cardinality(Calls) /\ Cardinality(duplicates)' \in Nat
        /\ Cardinality(admitted)' <= Cardinality(Calls) /\ Cardinality(admitted)' \in Nat
        /\ Cardinality(Calls) \in Nat
    <3>1. duplicates' \subseteq Calls /\ admitted' \subseteq Calls
      BY DEF Answered
    <3>2. QED
      BY <3>1, DedupAssumption, FS_Subset, FS_CardinalityType
  <2>2. loaded[d] \in Nat /\ hits \in Nat /\ misses \in Nat
    BY <2>1
  <2>3. CASE CallMoves(d, "hitLoaded", "duplicate") /\ hits' = loaded[d] + 1 /\ UNCHANGED misses
    <3>1. d \notin duplicates /\ duplicates' = duplicates \cup {d} /\ admitted' = admitted
      BY <2>3 DEF CallMoves, Answered
    <3>2. Cardinality(duplicates)' = Cardinality(duplicates) + 1
      BY <2>0, <3>1, FS_AddElement
    <3>3. /\ hits' <= Cardinality(duplicates)' /\ misses' <= Cardinality(admitted)'
          /\ hits' \in Nat /\ misses' \in Nat
      BY <2>0, <2>2, <2>3, <3>1, <3>2 DEF CallMoves
    <3>4. \A e \in Calls : /\ loaded[e] \in Nat
                           /\ e # d => loaded'[e] = loaded[e] /\ call'[e] = call[e]
                           /\ call'[d] = "duplicate"
      BY <1>4, <2>1, <2>3 DEF StoreCounter, CallMoves
    <3>5. LoadsUndercount'
      BY <2>0, <2>1, <3>1, <3>2, <3>4
    <3>6. hits' \in 0 .. Cardinality(Calls) /\ misses' \in 0 .. Cardinality(Calls)
      BY <2>1, <3>3
    <3>7. CountersUndercount'
      BY <3>3, Zenon DEF Answered
    <3>8. QED
      BY <3>5, <3>6, <3>7, Zenon
  <2>4. CASE CallMoves(d, "missLoaded", "admitted") /\ misses' = loaded[d] + 1 /\ UNCHANGED hits
    <3>1. d \notin admitted /\ admitted' = admitted \cup {d} /\ duplicates' = duplicates
      BY <2>4 DEF CallMoves, Answered
    <3>2. Cardinality(admitted)' = Cardinality(admitted) + 1
      BY <2>0, <3>1, FS_AddElement
    <3>3. /\ hits' <= Cardinality(duplicates)' /\ misses' <= Cardinality(admitted)'
          /\ hits' \in Nat /\ misses' \in Nat
      BY <2>0, <2>2, <2>4, <3>1, <3>2 DEF CallMoves
    <3>4. \A e \in Calls : /\ loaded[e] \in Nat
                           /\ e # d => loaded'[e] = loaded[e] /\ call'[e] = call[e]
                           /\ call'[d] = "admitted"
      BY <1>4, <2>1, <2>4 DEF StoreCounter, CallMoves
    <3>5. LoadsUndercount'
      BY <2>0, <2>1, <3>1, <3>2, <3>4
    <3>6. hits' \in 0 .. Cardinality(Calls) /\ misses' \in 0 .. Cardinality(Calls)
      BY <2>1, <3>3
    <3>7. CountersUndercount'
      BY <3>3, Zenon DEF Answered
    <3>8. QED
      BY <3>5, <3>6, <3>7, Zenon
  <2>5. QED
    BY <1>4, <2>3, <2>4 DEF StoreCounter
<1>5. CASE ClockTicks \/ TakeTick \/ Cleanup \/ LoopStops \/ Stop \/ UNCHANGED dedupVars
  BY <1>1, <1>5 DEF ClockTicks, TakeTick, Cleanup, LoopStops, Stop, dedupVars, shared
<1>6. QED
  BY <1>2, <1>3, <1>4, <1>5 DEF DedupNext, CallStep
--------------------------------------------------------------------------------
(* The window *)

\* Every step keeps the invariant of the window.
LEMMA WindowSteps ==
  ASSUME WindowInv, CountInv, [DedupNext]_dedupVars
  PROVE  WindowInv'
<1>0. /\ hits' \in 0 .. Cardinality(Calls) /\ misses' \in 0 .. Cardinality(Calls)
      /\ \A d \in Calls : Key(d) \in Keys
  BY CountSteps DEF WindowInv, Keys
<1>00. /\ now \in Nat
       /\ \A d \in Calls : /\ seen[d] \in Nat \cup {Never} /\ lookedAt[d] \in Nat \cup {Never}
                           /\ judgedAt[d] \in Nat \cup {Never} /\ markedAt[d] \in Nat \cup {Never}
       /\ \A k \in Keys : cache[k] \in Nat \cup {Never}
  BY TimeFacts DEF WindowInv, DedupTypeOK, HistoryTypeOK
<1> USE <1>0, <1>00, TimeFacts, DedupAssumption
    DEF WindowInv, DedupTypeOK, HistoryTypeOK, CallStates, Marked
<1>1. ASSUME NEW d \in Calls, Lookup(d)
      PROVE  WindowInv'
  <2> USE <1>1 DEF Lookup, CallMoves, shared
  <2>1. /\ DedupTypeOK' /\ HistoryTypeOK'
    OBVIOUS
  <2>2. /\ TimesArePast' /\ EntriesAreMarks' /\ MarksAreKept'
    BY DEF TimesArePast, EntriesAreMarks, MarksAreKept
  <2>3. SeenIsMark'
    BY DEF SeenIsMark, EntriesAreMarks, TimesArePast
  <2>4. LookupsMiss'
    BY DEF LookupsMiss, MarksAreKept
  <2>5. DuplicateHasReason' /\ AdmittedApart'
    BY DEF DuplicateHasReason, AdmittedApart
  <2>6. QED
    BY <2>1, <2>2, <2>3, <2>4, <2>5
<1>2. ASSUME NEW d \in Calls, Judge(d)
      PROVE  WindowInv'
  <2> USE <1>2 DEF Judge, CallMoves, shared
  <2>1. /\ DedupTypeOK' /\ HistoryTypeOK'
    OBVIOUS
  <2>2. /\ TimesArePast' /\ EntriesAreMarks' /\ MarksAreKept' /\ SeenIsMark' /\ LookupsMiss'
    BY DEF TimesArePast, EntriesAreMarks, MarksAreKept, SeenIsMark, LookupsMiss
  <2>3. DuplicateHasReason'
    BY DEF DuplicateHasReason, SeenIsMark, WithinWindow
  <2>4. AdmittedApart'
    BY DEF AdmittedApart, LookupsMiss, TimesArePast, WithinWindow
  <2>5. QED
    BY <2>1, <2>2, <2>3, <2>4
<1>3. ASSUME NEW d \in Calls, Mark(d)
      PROVE  WindowInv'
  <2> USE <1>3 DEF Mark, CallMoves, Forget
  <2>1. /\ DedupTypeOK' /\ HistoryTypeOK'
    OBVIOUS
  <2>2. TimesArePast'
    BY DEF TimesArePast
  <2>3. EntriesAreMarks'
    BY DEF EntriesAreMarks
  <2>4. MarksAreKept'
    BY DEF MarksAreKept, TimesArePast
  <2>5. SeenIsMark'
    BY DEF SeenIsMark, TimesArePast
  <2>6. LookupsMiss'
    BY DEF LookupsMiss, TimesArePast
  <2>7. DuplicateHasReason'
    BY DEF DuplicateHasReason
  <2>8. AdmittedApart'
    BY DEF AdmittedApart, TimesArePast
  <2>9. QED
    BY <2>1, <2>2, <2>3, <2>4, <2>5, <2>6, <2>7, <2>8
<1>4. ASSUME NEW d \in Calls, LoadCounter(d) \/ StoreCounter(d)
      PROVE  WindowInv'
  <2>1. /\ UNCHANGED <<now, cache, tick, loop, stopped, seen, markedAt>>
        /\ \A e \in Calls : e # d => /\ call'[e] = call[e] /\ lookedAt'[e] = lookedAt[e]
                                     /\ judgedAt'[e] = judgedAt[e]
        /\ call' \in [Calls -> CallStates] /\ call'[d] \notin {"looked", "hit", "fresh"}
        /\ lookedAt' \in [Calls -> Times \cup {Never}]
        /\ judgedAt' \in [Calls -> Times \cup {Never}]
        /\ lookedAt'[d] = Never /\ judgedAt'[d] = Never
        /\ markedAt[d] # Never <=> call'[d] \in {"marked", "missLoaded", "admitted"}
        /\ call[d] # "looked"
    BY <1>4 DEF LoadCounter, StoreCounter, CallMoves, Forget, shared, history
  <2>2. loaded' \in [Calls -> 0 .. Cardinality(Calls)]
    BY <1>4, AnsweredFinite DEF LoadCounter, StoreCounter
  <2>3. /\ DedupTypeOK' /\ HistoryTypeOK'
    BY <2>1, <2>2
  <2>4. /\ TimesArePast' /\ EntriesAreMarks' /\ MarksAreKept'
    BY <2>1 DEF TimesArePast, EntriesAreMarks, MarksAreKept
  <2>5. SeenIsMark' /\ LookupsMiss'
    BY <2>1 DEF SeenIsMark, LookupsMiss, TimesArePast
  <2>6. DuplicateHasReason' /\ AdmittedApart'
    BY <2>1 DEF DuplicateHasReason, AdmittedApart
  <2>7. QED
    BY <2>3, <2>4, <2>5, <2>6
<1>5. CASE ClockTicks
  <2> USE <1>5 DEF ClockTicks, history
  <2>1. /\ DedupTypeOK' /\ HistoryTypeOK'
    BY DEF Times
  <2>2. /\ TimesArePast' /\ EntriesAreMarks' /\ MarksAreKept' /\ SeenIsMark' /\ LookupsMiss'
    BY DEF TimesArePast, EntriesAreMarks, MarksAreKept, SeenIsMark, LookupsMiss
  <2>3. DuplicateHasReason' /\ AdmittedApart'
    BY DEF DuplicateHasReason, AdmittedApart
  <2>4. QED
    BY <2>1, <2>2, <2>3
<1>6. CASE Cleanup
  <2> USE <1>6 DEF Cleanup, history
  <2>1. /\ DedupTypeOK' /\ HistoryTypeOK'
    OBVIOUS
  <2>2. /\ TimesArePast' /\ EntriesAreMarks' /\ SeenIsMark' /\ LookupsMiss'
    BY DEF TimesArePast, EntriesAreMarks, SeenIsMark, LookupsMiss
  <2>3. MarksAreKept'
    BY DEF MarksAreKept, Stale
  <2>4. DuplicateHasReason' /\ AdmittedApart'
    BY DEF DuplicateHasReason, AdmittedApart
  <2>5. QED
    BY <2>1, <2>2, <2>3, <2>4
<1>7. CASE TakeTick \/ LoopStops \/ Stop \/ UNCHANGED dedupVars
  <2> USE <1>7 DEF TakeTick, LoopStops, Stop, dedupVars, shared, history
  <2>1. /\ DedupTypeOK' /\ HistoryTypeOK'
    OBVIOUS
  <2>2. /\ TimesArePast' /\ EntriesAreMarks' /\ MarksAreKept' /\ SeenIsMark' /\ LookupsMiss'
    BY DEF TimesArePast, EntriesAreMarks, MarksAreKept, SeenIsMark, LookupsMiss
  <2>3. DuplicateHasReason' /\ AdmittedApart'
    BY DEF DuplicateHasReason, AdmittedApart
  <2>4. QED
    BY <2>1, <2>2, <2>3
<1>8. QED
  BY <1>1, <1>2, <1>3, <1>4, <1>5, <1>6, <1>7 DEF DedupNext, CallStep

\* However the calls, the clock, the cleanup and Stop interleave, the counters never run
\* ahead and no image is refused without an admission within the window.
THEOREM DedupInvariant == DedupSpec => []DedupInv
<1>1. WindowInv /\ CountInv /\ [DedupNext]_dedupVars => WindowInv' /\ CountInv'
  BY WindowSteps, CountSteps DEF WindowInv
<1>2. WindowInv /\ CountInv => DedupInv
  BY DEF WindowInv, CountInv, DedupInv
<1>3. QED
  BY <1>1, <1>2, DedupStarts, PTL DEF DedupSpec

\* Two calls for one image that follow each other are never both admitted in a window.
THEOREM AdmissionsAreApart == DedupSpec => []AdmittedApart
<1>1. WindowInv /\ CountInv /\ [DedupNext]_dedupVars => WindowInv' /\ CountInv'
  BY WindowSteps, CountSteps DEF WindowInv
<1>2. WindowInv => AdmittedApart
  BY DEF WindowInv
<1>3. QED
  BY <1>1, <1>2, DedupStarts, PTL DEF DedupSpec
--------------------------------------------------------------------------------
(* The cleanup *)

\* Between two ticks the remainder counts the time since the last one.
LEMMA Remainder ==
  ASSUME NEW n \in Nat, NEW h \in Nat \ {0}
  PROVE  /\ n % h \in 0 .. h - 1
         /\ (n + 1) % h # 0 => (n + 1) % h = (n % h) + 1
OBVIOUS

\* The time of the last tick: now without its remainder.
LastTick == now - (now % (TTL \div 2))

\* What is left after a tick was dealt with is not older than the window was then.
TrimmedSinceTick ==
    /\ loop = "exited" => stopped
    /\ \A k \in Keys :
          cache[k] # Never /\ ~tick /\ loop = "running" => cache[k] >= LastTick - TTL

\* An entry that outlives its window by half a window is one the cleanup is about to
\* remove, or its goroutine was stopped: the cache does not grow with the images ever seen.
THEOREM EntriesAreTrimmed == DedupSpec => []CacheIsTrimmed
<1>0. /\ TTL \in Nat /\ TTL \div 2 \in Nat \ {0} /\ Never \notin Nat
  BY DedupAssumption
<1>1. DedupInit => TrimmedSinceTick
  BY DEF DedupInit, TrimmedSinceTick
<1>2. DedupTypeOK /\ TrimmedSinceTick /\ [DedupNext]_dedupVars => TrimmedSinceTick'
  <2> SUFFICES ASSUME DedupTypeOK, TrimmedSinceTick, [DedupNext]_dedupVars
               PROVE  TrimmedSinceTick'
    OBVIOUS
  <2> DEFINE h == TTL \div 2
  <2>1. /\ now \in Nat /\ \A k \in Keys : cache[k] \in Nat \cup {Never}
        /\ now % h \in 0 .. h - 1
        /\ (now + 1) % h # 0 => (now + 1) % h = (now % h) + 1
    BY <1>0, TimeFacts, Remainder DEF DedupTypeOK
  <2> HIDE DEF h
  <2> USE <1>0, <2>1 DEF TrimmedSinceTick
  <2>2. CASE UNCHANGED <<now, cache, tick, loop>> /\ (stopped => stopped')
    BY <2>2 DEF LastTick
  <2>3. ASSUME NEW d \in Calls, Mark(d)
        PROVE  TrimmedSinceTick'
    <3>1. LastTick' = LastTick /\ LastTick <= now /\ LastTick \in Int
      BY <2>3 DEF Mark, LastTick, h
    <3>2. QED
      BY <2>3, <3>1 DEF Mark, DedupTypeOK
  <2>4. CASE ClockTicks
    <3>1. tick' \/ (~tick /\ LastTick' = LastTick)
      <4>1. CASE tick \/ (now + 1) % h = 0
        BY <2>4, <4>1 DEF ClockTicks, h
      <4>2. CASE ~tick /\ (now + 1) % h # 0
        <5>1. (now + 1) - ((now + 1) % h) = now - (now % h)
          BY <4>2
        <5>2. QED
          BY <2>4, <4>2, <5>1 DEF ClockTicks, LastTick, h
      <4>3. QED
        BY <4>1, <4>2
    <3>2. QED
      BY <2>4, <3>1 DEF ClockTicks
  <2>5. CASE Cleanup
    <3>1. LastTick' <= now
      BY <2>5 DEF Cleanup, LastTick, h
    <3>2. \A k \in Keys : cache'[k] # Never => cache'[k] >= now - TTL
      BY <2>5 DEF Cleanup, Stale
    <3>3. LastTick' \in Int
      BY <2>5 DEF Cleanup, LastTick, h
    <3>4. QED
      BY <2>5, <3>1, <3>2, <3>3, DedupAssumption DEF Cleanup, DedupTypeOK, Times
  <2>6. CASE TakeTick \/ LoopStops
    BY <2>6 DEF TakeTick, LoopStops
  <2>7. QED
    BY <2>2, <2>3, <2>4, <2>5, <2>6 DEF DedupNext, CallStep, dedupVars, shared, Lookup, Judge,
       LoadCounter, StoreCounter, Stop
<1>3. DedupTypeOK /\ TrimmedSinceTick => CacheIsTrimmed
  <2> SUFFICES ASSUME DedupTypeOK, TrimmedSinceTick, NEW k \in Keys, cache[k] # Never,
                      ~tick, loop # "cleaning", ~(loop = "exited" /\ stopped)
               PROVE  ~(now - cache[k] > TTL + TTL \div 2)
    BY DEF CacheIsTrimmed
  <2>1. /\ now \in Nat /\ cache[k] \in Nat
        /\ now % (TTL \div 2) \in 0 .. (TTL \div 2) - 1
    BY <1>0, TimeFacts, Remainder DEF DedupTypeOK
  <2>2. cache[k] >= LastTick - TTL
    BY DEF TrimmedSinceTick, DedupTypeOK
  <2>3. QED
    BY <1>0, <2>1, <2>2 DEF LastTick
<1>4. DedupInv => DedupTypeOK
  BY DEF DedupInv
<1>5. QED
  BY <1>1, <1>2, <1>3, <1>4, DedupInvariant, PTL DEF DedupSpec
================================================================================
