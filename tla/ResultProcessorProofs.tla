-------------------------- MODULE ResultProcessorProofs --------------------------
(***************************************************************************)
(* Proofs about the processor of scan results, for any results.  The sum of    *)
(* the durations is the number of ticks the counted results took, so that it    *)
(* grows as the metrics do; the cache needs that what is in it is done, because *)
(* a result that is done is counted and stays as it is.                      *)
(***************************************************************************)
EXTENDS ResultProcessor, FiniteSetTheorems, TLAPS

--------------------------------------------------------------------------------
(* The metrics are those of the results that were counted *)

\* What every step keeps of the metrics: besides their truth, that the sets they measure
\* are finite, that there is a greatest and a least, and that the minimum starts from nothing.
Extremes ==
    /\ IsFiniteSet(Counted) /\ IsFiniteSet(CountedTicks)
    /\ metrics.max \in CountedDurations \cup {0}
    /\ \A d \in CountedDurations : metrics.max >= d
    /\ Counted # {} /\ 0 \notin CountedDurations =>
           metrics.min \in CountedDurations /\ \A d \in CountedDurations : metrics.min <= d
    /\ Counted = {} => metrics.min = 0

MetricsInv == ResultTypeOK /\ MetricsAreTrue /\ Extremes

\* A result has its own ticks: to count it adds as many as it took.
LEMMA TicksAdd ==
  ASSUME NEW T, IsFiniteSet(T), NEW r, \A t \in T : t[1] # r, NEW d \in Nat
  PROVE  /\ IsFiniteSet(T \cup ({r} \X (1 .. d)))
         /\ Cardinality(T \cup ({r} \X (1 .. d))) = Cardinality(T) + d
<1> DEFINE own == {r} \X (1 .. d)
<1>1. IsFiniteSet(1 .. d) /\ Cardinality(1 .. d) = d
  BY FS_Interval
<1>2. IsFiniteSet(own) /\ Cardinality(own) = d
  <2>1. IsFiniteSet({r}) /\ Cardinality({r}) = 1
    BY FS_Singleton
  <2>2. IsFiniteSet(own) /\ Cardinality(own) = Cardinality({r}) * Cardinality(1 .. d)
    BY <1>1, <2>1, FS_Product
  <2>3. QED
    BY <1>1, <2>1, <2>2
<1>3. T \cap own = {}
  OBVIOUS
<1> HIDE DEF own
<1>4. /\ IsFiniteSet(T \cup own)
      /\ Cardinality(T \cup own) = Cardinality(T) + Cardinality(own) - Cardinality(T \cap own)
  BY <1>2, FS_Union
<1>5. Cardinality(T) \in Nat
  BY FS_CardinalityType
<1>6. Cardinality(T \cap own) = 0
  BY <1>3, FS_EmptySet
<1>7. QED
  BY <1>2, <1>4, <1>5, <1>6 DEF own

\* What the critical section of updateMetrics does to the sets that the metrics measure.
LEMMA OneMoreCounted ==
  ASSUME ResultTypeOK, NEW r \in Results, NEW to \in {"counted", "done"},
         UpdateMetrics(r, "parsed", to)
  PROVE  /\ r \notin Counted /\ Counted' = Counted \cup {r} /\ given' = given
         /\ given[r] \in Outcomes /\ given[r].duration \in Nat /\ given[r].status \in Statuses
<1>1. /\ step[r] = "parsed" /\ step' = [step EXCEPT ![r] = to] /\ given' = given
      /\ step \in [Results -> {"new", "parsed", "counted", "done"}]
      /\ given \in [Results -> Outcomes]
  BY DEF UpdateMetrics, Moves, ResultTypeOK
<1>2. QED
  BY <1>1, ResultAssumption DEF Counted

LEMMA CountersAdd ==
  ASSUME ResultTypeOK, IsFiniteSet(Counted), NEW r \in Results, NEW to \in {"counted", "done"},
         UpdateMetrics(r, "parsed", to), NEW status
  PROVE  /\ CountedAs(status) \in Nat
         /\ CountedAs(status)' = IF given[r].status = status THEN CountedAs(status) + 1
                                                             ELSE CountedAs(status)
<1> DEFINE S == {q \in Counted : given[q].status = status}
<1>1. IsFiniteSet(S)
  BY FS_Subset
<1>2. S' = IF given[r].status = status THEN S \cup {r} ELSE S
  BY OneMoreCounted
<1>3. r \notin S
  BY OneMoreCounted
<1> HIDE DEF S
<1>4. Cardinality(S) \in Nat /\ Cardinality(S \cup {r}) = Cardinality(S) + 1
  BY <1>1, <1>3, FS_CardinalityType, FS_AddElement
<1>5. CountedAs(status) = Cardinality(S) /\ CountedAs(status)' = Cardinality(S')
  BY DEF CountedAs, S
<1>6. QED
  BY <1>2, <1>4, <1>5

\* Greatest and least of a set of durations that grows by one.
LEMMA MaxAdds ==
  ASSUME NEW S \in SUBSET Nat, NEW m \in S, m = Max(S), \A y \in S : m >= y, NEW d \in Nat
  PROVE  /\ Max(S \cup {d}) = IF d > m THEN d ELSE m
         /\ Max(S \cup {d}) \in S \cup {d} /\ \A y \in S \cup {d} : Max(S \cup {d}) >= y
<1> DEFINE x == IF d > m THEN d ELSE m
<1>1. x \in S \cup {d} /\ \A y \in S \cup {d} : x >= y
  OBVIOUS
<1>2. \A z \in S \cup {d} : (\A y \in S \cup {d} : z >= y) => z = x
  BY <1>1
<1>3. Max(S \cup {d}) = x
  BY <1>1, <1>2 DEF Max
<1>4. QED
  BY <1>1, <1>3

LEMMA MinAdds ==
  ASSUME NEW S \in SUBSET Nat, NEW m \in S, \A y \in S : m <= y, NEW d \in Nat
  PROVE  Min(S \cup {d}) = IF d < m THEN d ELSE m
<1> DEFINE x == IF d < m THEN d ELSE m
<1>1. x \in S \cup {d} /\ \A y \in S \cup {d} : x <= y
  OBVIOUS
<1>2. \A z \in S \cup {d} : (\A y \in S \cup {d} : z <= y) => z = x
  BY <1>1
<1>3. QED
  BY <1>1, <1>2 DEF Min

LEMMA MetricsTyped ==
  ASSUME ResultTypeOK, NEW r \in Results, NEW to \in {"counted", "done"},
         UpdateMetrics(r, "parsed", to)
  PROVE  /\ metrics'.total = metrics.total + 1
         /\ metrics'.success = metrics.success + One(given[r].status = "success")
         /\ metrics'.failed = metrics.failed + One(given[r].status = "failed")
         /\ metrics'.timeout = metrics.timeout + One(given[r].status = "timeout")
         /\ metrics'.sum = metrics.sum + given[r].duration
         /\ metrics'.min = MinDuration(metrics, given[r])
         /\ metrics'.max = IF given[r].duration > metrics.max THEN given[r].duration ELSE metrics.max
         /\ metrics' \in [total : Nat, success : Nat, failed : Nat, timeout : Nat,
                          sum : Nat, min : Nat, max : Nat]
<1> DEFINE o == given[r]
           Metrics == [total : Nat, success : Nat, failed : Nat, timeout : Nat,
                       sum : Nat, min : Nat, max : Nat]
           counted == IF o.status \in {"success", "failed", "timeout"}
                      THEN [metrics EXCEPT ![o.status] = @ + 1] ELSE metrics
<1>1. o.duration \in Nat /\ o.status \in Statuses /\ metrics \in Metrics
  BY OneMoreCounted DEF ResultTypeOK
<1>2. /\ counted \in Metrics
      /\ counted.success = metrics.success + One(o.status = "success")
      /\ counted.failed = metrics.failed + One(o.status = "failed")
      /\ counted.timeout = metrics.timeout + One(o.status = "timeout")
      /\ counted.total = metrics.total /\ counted.sum = metrics.sum
      /\ counted.min = metrics.min /\ counted.max = metrics.max
  <2>1. CASE o.status = "success"
    BY <1>1, <2>1 DEF One
  <2>2. CASE o.status = "failed"
    BY <1>1, <2>2 DEF One
  <2>3. CASE o.status = "timeout"
    BY <1>1, <2>3 DEF One
  <2>4. CASE o.status = "running"
    BY <1>1, <2>4 DEF One
  <2>5. QED
    BY <1>1, <2>1, <2>2, <2>3, <2>4 DEF Statuses
<1>3. metrics' = [counted EXCEPT
              !.total = @ + 1, !.sum = @ + o.duration, !.min = MinDuration(metrics, o),
              !.max = IF o.duration > @ THEN o.duration ELSE @]
  BY DEF UpdateMetrics
<1>4. MinDuration(metrics, o) \in Nat
  BY <1>1 DEF MinDuration
<1> DEFINE least == MinDuration(metrics, o)
<1> HIDE DEF counted, least
<1>5. /\ metrics'.total = counted.total + 1 /\ metrics'.sum = counted.sum + o.duration
      /\ metrics'.success = counted.success /\ metrics'.failed = counted.failed
      /\ metrics'.timeout = counted.timeout /\ metrics'.min = least
      /\ metrics'.max = IF o.duration > counted.max THEN o.duration ELSE counted.max
  BY <1>2, <1>3 DEF least
<1>6. metrics' \in Metrics
  <2>1. least \in Nat
    BY <1>4 DEF least
  <2>2. /\ counted.total + 1 \in Nat /\ counted.sum + o.duration \in Nat
        /\ (IF o.duration > counted.max THEN o.duration ELSE counted.max) \in Nat
    BY <1>1, <1>2
  <2>3. metrics' = [counted EXCEPT
                !.total = counted.total + 1, !.sum = counted.sum + o.duration, !.min = least,
                !.max = IF o.duration > counted.max THEN o.duration ELSE counted.max]
    BY <1>2, <1>3 DEF least
  <2> HIDE DEF o
  <2>4. QED
    BY <1>2, <2>1, <2>2, <2>3
<1> HIDE DEF o, Metrics
<1>7. QED
  BY <1>2, <1>5, <1>6 DEF least, o, Metrics

LEMMA CountingKeepsMetrics ==
  ASSUME MetricsInv, NEW r \in Results, NEW to \in {"counted", "done"},
         UpdateMetrics(r, "parsed", to)
  PROVE  MetricsAreTrue' /\ Extremes'
<1> DEFINE d == given[r].duration
<1>1. /\ r \notin Counted /\ Counted' = Counted \cup {r} /\ given' = given
      /\ d \in Nat /\ given \in [Results -> Outcomes]
  BY OneMoreCounted DEF MetricsInv, ResultTypeOK
<1>2. /\ metrics.total \in Nat /\ metrics.success \in Nat /\ metrics.failed \in Nat
      /\ metrics.timeout \in Nat /\ metrics.sum \in Nat /\ metrics.min \in Nat
      /\ metrics.max \in Nat
  BY DEF MetricsInv, ResultTypeOK
<1>3. CountedDurations' = CountedDurations \cup {d}
  BY <1>1 DEF CountedDurations
<1>4. CountedDurations \subseteq Nat
  BY ResultAssumption DEF CountedDurations, Counted, MetricsInv, ResultTypeOK
<1>5. metrics'.total = Cardinality(Counted') /\ IsFiniteSet(Counted')
  BY <1>1, MetricsTyped, FS_AddElement, FS_CardinalityType DEF MetricsInv, MetricsAreTrue, Extremes
<1>6. /\ metrics'.success = CountedAs("success")' /\ metrics'.failed = CountedAs("failed")'
      /\ metrics'.timeout = CountedAs("timeout")'
  BY MetricsTyped, CountersAdd, <1>2 DEF MetricsInv, MetricsAreTrue, Extremes, One
<1>7. metrics'.sum = Cardinality(CountedTicks') /\ IsFiniteSet(CountedTicks')
  <2>1. CountedTicks' = CountedTicks \cup ({r} \X (1 .. d))
    BY <1>1 DEF CountedTicks
  <2>2. \A t \in CountedTicks : t[1] # r
    BY <1>1 DEF CountedTicks
  <2>3. IsFiniteSet(CountedTicks) /\ metrics.sum = Cardinality(CountedTicks)
    BY DEF MetricsInv, MetricsAreTrue, Extremes
  <2>4. /\ IsFiniteSet(CountedTicks \cup ({r} \X (1 .. d)))
        /\ Cardinality(CountedTicks \cup ({r} \X (1 .. d))) = Cardinality(CountedTicks) + d
    BY <1>1, <2>2, <2>3, TicksAdd
  <2>5. metrics'.sum = metrics.sum + d
    BY MetricsTyped DEF MetricsInv
  <2>6. QED
    BY <2>1, <2>3, <2>4, <2>5
<1>8. /\ metrics'.max = Max(CountedDurations' \cup {0})
      /\ metrics'.max \in CountedDurations' \cup {0}
      /\ \A e \in CountedDurations' : metrics'.max >= e
  <2> DEFINE S == CountedDurations \cup {0}
             m == metrics.max
  <2>1. S \in SUBSET Nat /\ m \in S /\ m = Max(S) /\ \A y \in S : m >= y
    BY <1>2, <1>4 DEF MetricsInv, MetricsAreTrue, Extremes
  <2>2. metrics'.max = IF d > m THEN d ELSE m
    BY MetricsTyped DEF MetricsInv
  <2> HIDE DEF S, m
  <2>3. /\ Max(S \cup {d}) = metrics'.max
        /\ Max(S \cup {d}) \in S \cup {d} /\ \A y \in S \cup {d} : Max(S \cup {d}) >= y
    BY <1>1, <2>1, <2>2, MaxAdds
  <2>4. S \cup {d} = CountedDurations' \cup {0}
    BY <1>3 DEF S
  <2>5. QED
    BY <1>3, <2>3, <2>4
<1>9. 0 \notin CountedDurations' =>
          /\ metrics'.min = Min(CountedDurations')
          /\ metrics'.min \in CountedDurations'
          /\ \A e \in CountedDurations' : metrics'.min <= e
  <2> SUFFICES ASSUME 0 \notin CountedDurations'
               PROVE  /\ metrics'.min = Min(CountedDurations')
                      /\ metrics'.min \in CountedDurations'
                      /\ \A e \in CountedDurations' : metrics'.min <= e
    OBVIOUS
  <2>1. 0 \notin CountedDurations /\ d # 0
    BY <1>3
  <2>2. metrics'.min = IF metrics.min = 0 \/ d < metrics.min THEN d ELSE metrics.min
    BY MetricsTyped DEF MetricsInv, MinDuration
  <2>3. CASE Counted = {}
    <3>1. CountedDurations' = {d} /\ metrics'.min = d
      BY <1>1, <1>3, <2>2, <2>3 DEF CountedDurations, MetricsInv, Extremes
    <3>2. Min({d}) = d
      BY <1>1 DEF Min
    <3>3. QED
      BY <1>1, <3>1, <3>2
  <2>4. CASE Counted # {}
    <3>1. /\ metrics.min \in CountedDurations /\ metrics.min # 0
          /\ \A e \in CountedDurations : metrics.min <= e
      BY <2>1, <2>4 DEF MetricsInv, Extremes
    <3>2. metrics'.min = IF d < metrics.min THEN d ELSE metrics.min
      BY <2>2, <3>1
    <3>3. Min(CountedDurations \cup {d}) = metrics'.min
      BY <1>1, <1>4, <3>1, <3>2, MinAdds
    <3>4. \A e \in CountedDurations \cup {d} : metrics'.min <= e
      BY <1>1, <1>2, <1>4, <3>1, <3>2
    <3>5. QED
      BY <1>3, <3>1, <3>2, <3>3, <3>4
  <2>5. QED
    BY <2>3, <2>4
<1>10. Counted' # {}
  BY <1>1
<1>11. QED
  BY <1>5, <1>6, <1>7, <1>8, <1>9, <1>10 DEF MetricsAreTrue, Extremes

--------------------------------------------------------------------------------
(* The summary of a text *)

\* The four counts share out the lines that mention a severity.
LEMMA EachLineOnce ==
  ASSUME NEW output \in Seq(SUBSET Severities)
  PROVE  LET n(s) == Cardinality({i \in DOMAIN output : Counts(output[i], s)})
         IN  /\ n("critical") + n("high") + n("medium") + n("low") =
                    Cardinality({i \in DOMAIN output : output[i] # {}})
             /\ \A s \in Severities : n(s) \in Nat
<1> DEFINE L(s) == {i \in DOMAIN output : Counts(output[i], s)}
           mentions == {i \in DOMAIN output : output[i] # {}}
           high == L("critical") \cup L("high")
           medium == high \cup L("medium")
<1>1. IsFiniteSet(DOMAIN output)
  BY FS_Interval
<1>2. \A s : IsFiniteSet(L(s)) /\ Cardinality(L(s)) \in Nat
  BY <1>1, FS_Subset, FS_CardinalityType
<1>3. L("critical") \cap L("high") = {} /\ high \cap L("medium") = {}
      /\ medium \cap L("low") = {}
  BY DEF Counts
<1>4. mentions = medium \cup L("low")
  <2>1. ASSUME NEW i \in DOMAIN output, output[i] # {}
        PROVE  \E s \in Severities : Counts(output[i], s)
    BY <2>1 DEF Counts, Severities
  <2>2. QED
    BY <2>1 DEF Counts, Severities
<1>5. ASSUME NEW S, NEW T, IsFiniteSet(S), IsFiniteSet(T), S \cap T = {}
      PROVE  IsFiniteSet(S \cup T) /\ Cardinality(S \cup T) = Cardinality(S) + Cardinality(T)
  <2>1. Cardinality(S \cap T) = 0
    BY <1>5, FS_EmptySet
  <2>2. Cardinality(S) \in Nat /\ Cardinality(T) \in Nat
    BY <1>5, FS_CardinalityType
  <2>3. /\ IsFiniteSet(S \cup T)
        /\ Cardinality(S \cup T) = Cardinality(S) + Cardinality(T) - Cardinality(S \cap T)
    BY <1>5, FS_Union
  <2>4. QED
    BY <2>1, <2>2, <2>3
<1> HIDE DEF L
<1>6. IsFiniteSet(high) /\ Cardinality(high) = Cardinality(L("critical")) + Cardinality(L("high"))
  BY <1>2, <1>3, <1>5
<1>7. IsFiniteSet(medium) /\ Cardinality(medium) = Cardinality(high) + Cardinality(L("medium"))
  BY <1>2, <1>3, <1>5, <1>6
<1>8. Cardinality(mentions) = Cardinality(medium) + Cardinality(L("low"))
  BY <1>2, <1>3, <1>4, <1>5, <1>7
<1>9. QED
  BY <1>2, <1>6, <1>7, <1>8 DEF L

--------------------------------------------------------------------------------
(* What every step of the processor keeps *)

\* A cached result is done, of that image and a success, and its entry expires the TTL after
\* it was made; what was served was such a result then, and is done for good.
Cached(r, i) ==
    /\ r \in Results /\ step[r] = "done" /\ given[r].image = i /\ given[r].status = "success"
    /\ cachedAt[r] \in Nat

CacheInv ==
    /\ \A r \in Results : step[r] = "counted" => given[r].status = "success"
    /\ \A i \in Images : cache[i] # Nothing =>
           Cached(cache[i].result, i) /\ cache[i].expires = cachedAt[cache[i].result] + CacheTTL
    /\ \A i \in Images : served[i] # Nothing =>
           Cached(served[i].result, i) /\ served[i].at <= cachedAt[served[i].result] + CacheTTL

\* What the steps of the other results are to a result.
LEMMA ParseEffect ==
  ASSUME ResultTypeOK, NEW r \in Results, Parse(r)
  PROVE  /\ step[r] = "new" /\ step' = [step EXCEPT ![r] = "parsed"]
         /\ UNCHANGED <<given, now, metrics, cache, cachedAt, served>>
         /\ \E n \in [Severities -> Nat] :
               /\ summary' = [summary EXCEPT ![r] = n]
               /\ ~given[r].json =>
                     n["critical"] + n["high"] + n["medium"] + n["low"] =
                        Cardinality({i \in DOMAIN given[r].output : given[r].output[i] # {}})
<1> DEFINE output == given[r].output
<1>1. given[r] \in Outcomes
  BY DEF ResultTypeOK
<1>2. CASE given[r].json
  <2>1. output \in [Severities -> Nat]
    BY <1>1, <1>2, ResultAssumption
  <2>2. QED
    BY <1>2, <2>1 DEF Parse, Moves
<1>3. CASE ~given[r].json
  <2>1. output \in Seq(SUBSET Severities)
    BY <1>1, <1>3, ResultAssumption
  <2> DEFINE n == ParseTextOutput(output)
  <2>2. \A s \in Severities : n[s] = Cardinality({i \in DOMAIN output : Counts(output[i], s)})
    BY DEF ParseTextOutput
  <2>3. n \in [Severities -> Nat]
    BY <2>1, <2>2, EachLineOnce DEF ParseTextOutput
  <2>4. n["critical"] + n["high"] + n["medium"] + n["low"] =
            Cardinality({i \in DOMAIN output : output[i] # {}})
    BY <2>1, <2>2, EachLineOnce DEF Severities
  <2>5. summary' = [summary EXCEPT ![r] = n]
    BY <1>3 DEF Parse
  <2> HIDE DEF n, output
  <2>6. QED
    BY <1>3, <2>3, <2>4, <2>5 DEF Parse, Moves, output
<1>4. QED
  BY <1>2, <1>3

\* The steps by what they do: a result is parsed, counted or cached, or an image is looked
\* up, or time passes.
LEMMA ResultSteps ==
  ASSUME [ResultNext]_resultVars
  PROVE  \/ \E r \in Results : Parse(r)
         \/ \E r \in Results, to \in {"counted", "done"} :
               /\ UpdateMetrics(r, "parsed", to)
               /\ to = "counted" => given[r].status = "success"
         \/ \E r \in Results : CacheResult(r, "counted", "done")
         \/ \E i \in Images : GetCachedResult(i)
         \/ ClockTicks
         \/ UNCHANGED resultVars
<1>1. ASSUME NEW r \in Results, UpdateMetrics(r, "parsed", IF Success(r) THEN "counted" ELSE "done")
      PROVE  \E to \in {"counted", "done"} :
                /\ UpdateMetrics(r, "parsed", to)
                /\ to = "counted" => given[r].status = "success"
  <2>1. CASE Success(r)
    BY <1>1, <2>1 DEF Success
  <2>2. CASE ~Success(r)
    BY <1>1, <2>2
  <2>3. QED
    BY <2>1, <2>2
<1>2. QED
  BY <1>1 DEF ResultNext, ProcessStep

LEMMA ResultTypeKept == ResultTypeOK /\ [ResultNext]_resultVars => ResultTypeOK'
<1> SUFFICES ASSUME ResultTypeOK, [ResultNext]_resultVars
             PROVE  ResultTypeOK'
  OBVIOUS
<1> USE DEF ResultTypeOK
<1>1. ASSUME NEW r \in Results, Parse(r)
      PROVE  ResultTypeOK'
  <2>1. /\ step' = [step EXCEPT ![r] = "parsed"]
        /\ UNCHANGED <<given, now, metrics, cache, cachedAt, served>>
    BY <1>1, ParseEffect
  <2>2. PICK n \in [Severities -> Nat] : summary' = [summary EXCEPT ![r] = n]
    BY <1>1, ParseEffect
  <2>3. summary' \in [Results -> [Severities -> Nat]]
    BY <2>2
  <2>4. step' \in [Results -> {"new", "parsed", "counted", "done"}]
    BY <2>1
  <2>5. QED
    BY <2>1, <2>3, <2>4
<1>2. ASSUME NEW r \in Results, NEW to \in {"counted", "done"}, UpdateMetrics(r, "parsed", to)
      PROVE  ResultTypeOK'
  <2>1. /\ step' \in [Results -> {"new", "parsed", "counted", "done"}]
        /\ UNCHANGED <<given, now, summary, cache, cachedAt, served>>
    BY <1>2 DEF UpdateMetrics, Moves
  <2>2. QED
    BY <1>2, <2>1, MetricsTyped
<1>3. ASSUME NEW r \in Results, CacheResult(r, "counted", "done")
      PROVE  ResultTypeOK'
  <2>1. now \in Nat /\ now + CacheTTL \in Nat /\ given[r].image \in Images
    BY ResultAssumption
  <2>2. cache' \in [Images -> [result : Results, expires : Nat] \cup {Nothing}]
    BY <1>3, <2>1 DEF CacheResult
  <2>3. cachedAt' \in [Results -> Nat \cup {Nothing}]
    BY <1>3, <2>1 DEF CacheResult
  <2>4. QED
    BY <1>3, <2>2, <2>3 DEF CacheResult, Moves
<1>4. ASSUME NEW i \in Images, GetCachedResult(i)
      PROVE  ResultTypeOK'
  <2>1. now \in Nat /\ Lookup(i) \in Results \cup {Nothing}
    BY ResultAssumption DEF Lookup
  <2>2. served' \in [Images -> [result : Results, at : Nat] \cup {Nothing}]
    BY <1>4, <2>1 DEF GetCachedResult
  <2>3. QED
    BY <1>4, <2>2 DEF GetCachedResult
<1>5. CASE ClockTicks
  BY <1>5, ResultAssumption DEF ClockTicks
<1>6. CASE UNCHANGED resultVars
  BY <1>6 DEF resultVars
<1>7. QED
  BY <1>1, <1>2, <1>3, <1>4, <1>5, <1>6, ResultSteps

LEMMA MetricsKept == MetricsInv /\ [ResultNext]_resultVars => MetricsInv'
<1> SUFFICES ASSUME MetricsInv, [ResultNext]_resultVars
             PROVE  MetricsAreTrue' /\ Extremes'
  BY ResultTypeKept DEF MetricsInv
<1>1. ASSUME UNCHANGED <<metrics, given>>, Counted' = Counted
      PROVE  MetricsAreTrue' /\ Extremes'
  <2>1. CountedDurations' = CountedDurations /\ CountedTicks' = CountedTicks
        /\ \A status : CountedAs(status)' = CountedAs(status)
    BY <1>1 DEF CountedDurations, CountedTicks, CountedAs
  <2>2. QED
    BY <1>1, <2>1 DEF MetricsInv, MetricsAreTrue, Extremes
<1>2. ASSUME NEW r \in Results, Parse(r)
      PROVE  MetricsAreTrue' /\ Extremes'
  <2>1. UNCHANGED <<metrics, given>> /\ Counted' = Counted
    BY <1>2, ParseEffect DEF MetricsInv, ResultTypeOK, Counted
  <2>2. QED
    BY <1>1, <2>1
<1>3. ASSUME NEW r \in Results, CacheResult(r, "counted", "done")
      PROVE  MetricsAreTrue' /\ Extremes'
  <2>1. UNCHANGED <<metrics, given>> /\ Counted' = Counted
    BY <1>3 DEF CacheResult, Moves, MetricsInv, ResultTypeOK, Counted
  <2>2. QED
    BY <1>1, <2>1
<1>4. CASE UNCHANGED <<metrics, given, step>>
  BY <1>1, <1>4 DEF Counted
<1>5. QED
  BY <1>2, <1>3, <1>4, CountingKeepsMetrics, ResultSteps
     DEF GetCachedResult, ClockTicks, resultVars

LEMMA LinesKept ==
  ResultTypeOK /\ LinesCountOnce /\ [ResultNext]_resultVars => LinesCountOnce'
<1> SUFFICES ASSUME ResultTypeOK, LinesCountOnce, [ResultNext]_resultVars
             PROVE  LinesCountOnce'
  OBVIOUS
<1>1. ASSUME NEW r \in Results, Parse(r)
      PROVE  LinesCountOnce'
  <2>1. given' = given /\ step' = [step EXCEPT ![r] = "parsed"]
    BY <1>1, ParseEffect
  <2>2. PICK n \in [Severities -> Nat] :
               /\ summary' = [summary EXCEPT ![r] = n]
               /\ ~given[r].json =>
                     n["critical"] + n["high"] + n["medium"] + n["low"] =
                        Cardinality({i \in DOMAIN given[r].output : given[r].output[i] # {}})
    BY <1>1, ParseEffect
  <2>3. summary'[r] = n /\ \A q \in Results \ {r} : summary'[q] = summary[q] /\ step'[q] = step[q]
    BY <2>1, <2>2 DEF ResultTypeOK
  <2>4. ASSUME NEW q \in Results, step'[q] # "new", ~given'[q].json
        PROVE  summary'[q]["critical"] + summary'[q]["high"] + summary'[q]["medium"]
                   + summary'[q]["low"] =
                   Cardinality({i \in DOMAIN given'[q].output : given'[q].output[i] # {}})
    <3>1. CASE q = r
      BY <2>1, <2>2, <2>3, <2>4, <3>1
    <3>2. CASE q # r
      BY <2>1, <2>3, <2>4, <3>2 DEF LinesCountOnce
    <3>3. QED
      BY <3>1, <3>2
  <2>5. QED
    BY <2>4 DEF LinesCountOnce
<1>2. ASSUME NEW r \in Results, NEW from \in {"parsed", "counted"}, step[r] = from,
             NEW to \in {"counted", "done"}, step' = [step EXCEPT ![r] = to],
             UNCHANGED <<given, summary>>
      PROVE  LinesCountOnce'
  BY <1>2 DEF LinesCountOnce, ResultTypeOK
<1>3. CASE UNCHANGED <<given, summary, step>>
  BY <1>3 DEF LinesCountOnce
<1>4. QED
  BY <1>1, <1>2, <1>3, ResultSteps
     DEF UpdateMetrics, CacheResult, Moves, GetCachedResult, ClockTicks, resultVars

LEMMA CacheKept == ResultTypeOK /\ CacheInv /\ [ResultNext]_resultVars => CacheInv'
<1> SUFFICES ASSUME ResultTypeOK, CacheInv, [ResultNext]_resultVars
             PROVE  CacheInv'
  OBVIOUS
<1>1. ASSUME NEW r \in Results, step[r] # "done", NEW to, step' = [step EXCEPT ![r] = to],
             to = "counted" => given[r].status = "success",
             UNCHANGED <<given, cache, cachedAt, served>>
      PROVE  CacheInv'
  <2>1. step \in [Results -> {"new", "parsed", "counted", "done"}]
    BY DEF ResultTypeOK
  <2>2. ASSUME NEW q, NEW i \in Images, Cached(q, i)
        PROVE  Cached(q, i)'
    BY <1>1, <2>1, <2>2 DEF Cached
  <2>3. \A q \in Results : step'[q] = "counted" => given'[q].status = "success"
    BY <1>1, <2>1 DEF CacheInv
  <2>4. QED
    BY <1>1, <2>2, <2>3 DEF CacheInv
<1>2. ASSUME NEW r \in Results, Parse(r)
      PROVE  CacheInv'
  BY <1>1, <1>2, ParseEffect
<1>3. ASSUME NEW r \in Results, NEW to \in {"counted", "done"}, UpdateMetrics(r, "parsed", to),
             to = "counted" => given[r].status = "success"
      PROVE  CacheInv'
  BY <1>1, <1>3 DEF UpdateMetrics, Moves
<1>4. ASSUME NEW r \in Results, CacheResult(r, "counted", "done")
      PROVE  CacheInv'
  <2> DEFINE image == given[r].image
             entry == [result |-> r, expires |-> now + CacheTTL]
  <2>1. /\ step[r] = "counted" /\ step' = [step EXCEPT ![r] = "done"]
        /\ cache' = [cache EXCEPT ![image] = entry]
        /\ cachedAt' = [cachedAt EXCEPT ![r] = now]
        /\ UNCHANGED <<given, served>>
    BY <1>4 DEF CacheResult, Moves
  <2>2. /\ step \in [Results -> {"new", "parsed", "counted", "done"}]
        /\ cachedAt \in [Results -> Nat \cup {Nothing}] /\ now \in Nat
        /\ cache \in [Images -> [result : Results, expires : Nat] \cup {Nothing}]
    BY ResultAssumption DEF ResultTypeOK
  <2>3. ASSUME NEW q, NEW i \in Images, Cached(q, i)
        PROVE  Cached(q, i)' /\ cachedAt'[q] = cachedAt[q]
    BY <2>1, <2>2, <2>3 DEF Cached
  <2>4. Cached(r, image)' /\ cachedAt'[r] = now
    BY <2>1, <2>2 DEF Cached, CacheInv
  <2>5. \A q \in Results : step'[q] = "counted" => given'[q].status = "success"
    BY <2>1, <2>2 DEF CacheInv
  <2>6. ASSUME NEW i \in Images, cache'[i] # Nothing
        PROVE  /\ Cached(cache[i].result, i)'
               /\ cache'[i].expires = cachedAt'[cache'[i].result] + CacheTTL
    <3>1. CASE i = image
      <4>1. cache'[i] = entry
        BY <2>1, <2>2, <3>1
      <4>2. cache'[i].result = r /\ cache'[i].expires = now + CacheTTL
        BY <4>1
      <4>3. QED
        BY <2>1, <2>4, <3>1, <4>2 DEF Cached
    <3>2. CASE i # image
      <4>1. cache'[i] = cache[i]
        BY <2>1, <2>2, <3>2
      <4>2. QED
        BY <2>3, <2>6, <4>1 DEF CacheInv
    <3>3. QED
      BY <3>1, <3>2
  <2>7. ASSUME NEW i \in Images, served'[i] # Nothing
        PROVE  /\ Cached(served[i].result, i)'
               /\ served'[i].at <= cachedAt'[served'[i].result] + CacheTTL
    BY <2>1, <2>3, <2>7 DEF CacheInv
  <2>8. QED
    BY <2>5, <2>6, <2>7 DEF CacheInv
<1>5. ASSUME NEW i \in Images, GetCachedResult(i)
      PROVE  CacheInv'
  <2>1. /\ UNCHANGED <<given, step, cache, cachedAt>>
        /\ served' = [served EXCEPT ![i] =
               IF Lookup(i) = Nothing THEN Nothing ELSE [result |-> Lookup(i), at |-> now]]
    BY <1>5 DEF GetCachedResult
  <2>2. served \in [Images -> [result : Results, at : Nat] \cup {Nothing}]
    BY DEF ResultTypeOK
  <2>3. ASSUME NEW q, NEW k \in Images
        PROVE  Cached(q, k)' <=> Cached(q, k)
    BY <2>1 DEF Cached
  <2>4. ASSUME NEW k \in Images, served'[k] # Nothing
        PROVE  /\ Cached(served'[k].result, k)
               /\ served'[k].at <= cachedAt[served'[k].result] + CacheTTL
    <3>1. CASE k = i
      <4>1. Lookup(i) # Nothing /\ served'[i] = [result |-> Lookup(i), at |-> now]
        BY <2>1, <2>2, <2>4, <3>1
      <4>2. Lookup(i) = cache[i].result /\ cache[i] # Nothing /\ now <= cache[i].expires
        BY <4>1 DEF Lookup
      <4>3. QED
        BY <3>1, <4>1, <4>2 DEF CacheInv
    <3>2. CASE k # i
      BY <2>1, <2>2, <2>4, <3>2 DEF CacheInv
    <3>3. QED
      BY <3>1, <3>2
  <2>5. QED
    BY <2>1, <2>3, <2>4 DEF CacheInv
<1>6. CASE UNCHANGED <<given, step, cache, cachedAt, served>>
  BY <1>6 DEF CacheInv, Cached
<1>7. QED
  BY <1>2, <1>3, <1>4, <1>5, <1>6, ResultSteps DEF ClockTicks, resultVars

LEMMA ResultsStart == ResultInit => MetricsInv /\ LinesCountOnce /\ CacheInv
<1> SUFFICES ASSUME ResultInit
             PROVE  MetricsInv /\ LinesCountOnce /\ CacheInv
  OBVIOUS
<1>1. ResultTypeOK
  BY ResultAssumption DEF ResultInit, ResultTypeOK, NoSummary
<1>2. Counted = {}
  BY DEF ResultInit, Counted
<1>3. CountedDurations = {} /\ CountedTicks = {} /\ \A status : CountedAs(status) = 0
  BY <1>2, FS_EmptySet DEF CountedDurations, CountedTicks, CountedAs
<1>4. Max({0}) = 0
  BY DEF Max
<1>5. MetricsAreTrue /\ Extremes
  BY <1>2, <1>3, <1>4, FS_EmptySet DEF ResultInit, MetricsAreTrue, Extremes
<1>6. LinesCountOnce /\ CacheInv
  BY DEF ResultInit, LinesCountOnce, CacheInv
<1>7. QED
  BY <1>1, <1>5, <1>6 DEF MetricsInv

\* What the processor's state keeps, whatever the order of its critical sections.
LEMMA ProcessorInvariant == ResultSpec => [](MetricsInv /\ LinesCountOnce /\ CacheInv)
<1>1. MetricsInv => ResultTypeOK
  BY DEF MetricsInv
<1>2. QED
  BY <1>1, ResultsStart, MetricsKept, LinesKept, CacheKept, PTL DEF ResultSpec

\* The metrics are those of the results that were counted, in whatever order the workers
\* came, and no line of a text is counted twice.
THEOREM MetricsAreSafe == ResultSpec => []ResultInv
<1>1. MetricsInv /\ LinesCountOnce => ResultInv
  BY DEF MetricsInv, ResultInv
<1>2. QED
  BY <1>1, ProcessorInvariant, PTL

\* The cache serves only fresh successes of the image that was asked for.
THEOREM ServingIsFresh == ResultSpec => []ServedIsFresh
<1>1. ResultTypeOK /\ CacheInv => ServedIsFresh
  <2> SUFFICES ASSUME ResultTypeOK, CacheInv, NEW i \in Images, served[i] # Nothing
               PROVE  LET r == served[i].result
                      IN /\ given[r].image = i /\ given[r].status = "success"
                         /\ cachedAt[r] # Nothing /\ served[i].at - cachedAt[r] <= CacheTTL
    BY DEF ServedIsFresh
  <2> DEFINE r == served[i].result
  <2>1. Cached(r, i) /\ served[i].at <= cachedAt[r] + CacheTTL
    BY DEF CacheInv
  <2>2. served[i].at \in Nat
    BY DEF ResultTypeOK
  <2>3. QED
    BY <2>1, <2>2, ResultAssumption DEF Cached
<1>2. MetricsInv => ResultTypeOK
  BY DEF MetricsInv
<1>3. QED
  BY <1>1, <1>2, ProcessorInvariant, PTL

\* Whoever was served a result from the cache finds it counted.
THEOREM ServingIsCounted == ResultSpec => []ServedIsCounted
<1>1. MetricsInv /\ CacheInv => ServedIsCounted
  <2> SUFFICES ASSUME MetricsInv, CacheInv
               PROVE  ServedIsCounted
    OBVIOUS
  <2> DEFINE found == {served[i].result : i \in {j \in Images : served[j] # Nothing}}
             counted == {r \in Counted : given[r].status = "success"}
  <2>1. found \subseteq counted
    BY DEF CacheInv, Cached, Counted
  <2>2. IsFiniteSet(counted)
    BY FS_Subset DEF MetricsInv, Extremes
  <2>3. Cardinality(found) <= Cardinality(counted)
    BY <2>1, <2>2, FS_Subset
  <2>4. metrics.success = Cardinality(counted)
    BY DEF MetricsInv, MetricsAreTrue, CountedAs
  <2>5. Cardinality(found) \in Nat /\ Cardinality(counted) \in Nat
    BY <2>1, <2>2, FS_Subset, FS_CardinalityType
  <2>6. QED
    BY <2>3, <2>4, <2>5 DEF ServedIsCounted
<1>2. QED
  BY <1>1, ProcessorInvariant, PTL
================================================================================
