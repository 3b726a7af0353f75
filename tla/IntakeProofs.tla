------------------------------ MODULE IntakeProofs ------------------------------
(***************************************************************************)
(* Proofs about the two ends of HTTP: the webhook that comes in, for any        *)
(* configuration and any request, and the call of the client that asks the      *)
(* scanner's API, for any server.  The two share no state.                    *)
(***************************************************************************)
EXTENDS WebhookIntake, APIClient, FiniteSetTheorems, SequenceTheorems, TLAPS

--------------------------------------------------------------------------------
(* Powers of two, by way of the subsets they count *)

LEMMA PowerCounts ==
  ASSUME NEW n \in Nat
  PROVE  IsFiniteSet(SUBSET (1 .. n)) /\ Cardinality(SUBSET (1 .. n)) = 2 ^ n /\ 2 ^ n \in Nat
<1>1. IsFiniteSet(1 .. n) /\ Cardinality(1 .. n) = n
  BY FS_Interval
<1>2. IsFiniteSet(SUBSET (1 .. n)) /\ Cardinality(SUBSET (1 .. n)) = 2 ^ Cardinality(1 .. n)
  BY <1>1, FS_SUBSET, Zenon
<1>3. QED
  BY <1>1, <1>2, FS_CardinalityType, Zenon

\* A set with one element more has each subset twice: without the element and with it.
LEMMA PowerDoubles ==
  ASSUME NEW n \in Nat
  PROVE  2 ^ (n + 1) = 2 * 2 ^ n
<1> DEFINE P == SUBSET (1 .. n)
           Q == {S \cup {n + 1} : S \in P}
           f == [S \in P |-> S \cup {n + 1}]
<1>1. SUBSET (1 .. (n + 1)) = P \cup Q
  <2>1. 1 .. (n + 1) = (1 .. n) \cup {n + 1}
    OBVIOUS
  <2>2. ASSUME NEW S \in SUBSET (1 .. (n + 1)), n + 1 \in S
        PROVE  S \in Q
    <3>1. S \ {n + 1} \in P /\ S = (S \ {n + 1}) \cup {n + 1}
      BY <2>1, <2>2
    <3>2. QED
      BY <3>1
  <2>3. QED
    BY <2>1, <2>2
<1>2. \A S \in P : n + 1 \notin S
  OBVIOUS
<1>3. P \cap Q = {}
  BY <1>2
<1>4. IsFiniteSet(P) /\ Cardinality(P) = 2 ^ n /\ 2 ^ n \in Nat
  BY PowerCounts
<1>5. IsFiniteSet(Q) /\ Cardinality(Q) = Cardinality(P)
  <2>1. f \in [P -> Q] /\ \A T \in Q : \E S \in P : f[S] = T
    OBVIOUS
  <2>2. IsInjective(f)
    BY <1>2 DEF IsInjective
  <2>3. f \in Bijection(P, Q)
    BY <2>1, <2>2 DEF Bijection, Injection, Surjection
  <2>4. QED
    BY <1>4, <2>3, FS_Bijection DEF ExistsBijection
<1> HIDE DEF P, Q
<1>6. /\ Cardinality(P \cup Q) = Cardinality(P) + Cardinality(Q) - Cardinality(P \cap Q)
      /\ Cardinality(P \cap Q) = 0
  BY <1>3, <1>4, <1>5, FS_Union, FS_EmptySet
<1>7. Cardinality(P \cup Q) = 2 * 2 ^ n
  BY <1>4, <1>5, <1>6
<1>8. Cardinality(SUBSET (1 .. (n + 1))) = 2 ^ (n + 1)
  <2>1. n + 1 \in Nat
    OBVIOUS
  <2>2. QED
    BY <2>1, PowerCounts
<1>9. QED
  BY <1>1, <1>7, <1>8

--------------------------------------------------------------------------------
(* The call of the API client *)

\* What the server has received before the attempt at hand is of earlier attempts and did
\* not settle the matter; with an answer at hand the last entry is that answer.
Unsettled(entry) == entry.code = 0 \/ IsRetriableStatusCode(entry.code)
Earlier(i) == arrived[i].attempt < attempt /\ Unsettled(arrived[i])

ArrivedSoFar ==
    /\ phase \in {"start", "backoff", "sending"} => \A i \in DOMAIN arrived : Earlier(i)
    /\ phase \in {"answered", "limited"} =>
           /\ arrived # <<>> /\ response \in StatusCodes
           /\ arrived[Len(arrived)].attempt = attempt /\ arrived[Len(arrived)].code = response
           /\ \A i \in DOMAIN arrived : i < Len(arrived) => Earlier(i)
    /\ phase = "limited" => WillRetry
    /\ phase = "backoff" => attempt > 0

\* One body is open while an answer is at hand, and none before.
OpenSoFar ==
    /\ phase \in {"start", "backoff", "sending"} => open = 0
    /\ phase \in {"answered", "limited"} => open = 1

\* The backoffs of the attempts that were made add up.
WaitedSoFar ==
    /\ phase \in {"start", "backoff"} /\ attempt > 0 => waited >= 2 ^ (attempt - 1) - 1
    /\ phase \in {"sending", "answered", "limited"} => waited >= 2 ^ attempt - 1

CallInv == ClientInv /\ ArrivedSoFar /\ OpenSoFar /\ WaitedSoFar

Entries == [attempt : 0 .. MaxRetries, carried : Bodies,
            bearer : {Token, SanitizeToken(Token)}, code : StatusCodes \cup {0}]

LEMMA ArrivedTyped ==
  ASSUME ClientTypeOK
  PROVE  /\ arrived \in Seq(Entries) /\ Len(arrived) \in Nat /\ DOMAIN arrived = 1 .. Len(arrived)
         /\ \A i \in DOMAIN arrived : arrived[i].attempt \in Nat
<1>1. arrived \in Seq(Entries)
  BY DEF ClientTypeOK, Entries
<1>2. \A i \in DOMAIN arrived : arrived[i] \in Entries
  BY <1>1
<1>3. \A i \in DOMAIN arrived : arrived[i].attempt \in Nat
  BY <1>2 DEF Entries
<1>4. QED
  BY <1>1, <1>3

\* A request that arrives adds one entry for the attempt at hand.
LEMMA EntryArrives ==
  ASSUME CallInv, phase = "sending", NEW code \in StatusCodes \cup {0}, NEW entry,
         entry = [attempt |-> attempt, carried |-> Carried,
                  bearer |-> SanitizeToken(Token), code |-> code],
         arrived' = Append(arrived, entry)
  PROVE  /\ arrived' \in Seq(Entries) /\ Len(arrived') = Len(arrived) + 1
         /\ arrived' # <<>> /\ Len(arrived) \in Nat
         /\ DOMAIN arrived = 1 .. Len(arrived) /\ DOMAIN arrived' = 1 .. Len(arrived')
         /\ \A i \in DOMAIN arrived : arrived'[i] = arrived[i] /\ Earlier(i)
         /\ arrived'[Len(arrived')].attempt = attempt /\ arrived'[Len(arrived')].code = code
         /\ \A i, j \in DOMAIN arrived' : i < j => arrived'[i].attempt < arrived'[j].attempt
<1>1. arrived \in Seq(Entries) /\ attempt \in 0 .. MaxRetries
  BY DEF CallInv, ClientInv, ClientTypeOK, Entries
<1>2. entry \in Entries
  <2>1. Carried \in Bodies
    BY DEF Carried, Bodies
  <2>2. QED
    BY <1>1, <2>1 DEF Entries
<1>3. /\ arrived' \in Seq(Entries) /\ Len(arrived') = Len(arrived) + 1 /\ Len(arrived) \in Nat
      /\ arrived'[Len(arrived) + 1] = entry
      /\ \A i \in 1 .. Len(arrived) : arrived'[i] = arrived[i]
  BY <1>1, <1>2
<1>4. \A i \in DOMAIN arrived : Earlier(i)
  BY DEF CallInv, ArrivedSoFar
<1>5. DOMAIN arrived = 1 .. Len(arrived) /\ DOMAIN arrived' = 1 .. Len(arrived')
  BY <1>1, <1>3
<1>6. \A i, j \in DOMAIN arrived : i < j => arrived[i].attempt < arrived[j].attempt
  BY DEF CallInv, ClientInv, AttemptsAreBounded
<1>7. ASSUME NEW i \in DOMAIN arrived', NEW j \in DOMAIN arrived', i < j
      PROVE  arrived'[i].attempt < arrived'[j].attempt
  <2>1. i \in DOMAIN arrived /\ arrived'[i] = arrived[i]
    BY <1>3, <1>5, <1>7
  <2>2. CASE j = Len(arrived) + 1
    BY <1>2, <1>3, <1>4, <2>1, <2>2 DEF Earlier
  <2>3. CASE j \in DOMAIN arrived
    BY <1>3, <1>5, <1>6, <1>7, <2>1, <2>3
  <2>4. QED
    BY <1>3, <1>5, <2>2, <2>3
<1>8. QED
  BY <1>3, <1>4, <1>5, <1>7

LEMMA CallStarts == ClientInit => CallInv
<1> SUFFICES ASSUME ClientInit
             PROVE  CallInv
  OBVIOUS
<1>1. ClientTypeOK
  <2>1. phase \in Phases /\ result \in Results /\ reader \in Bodies /\ ctxDone \in BOOLEAN
    BY DEF ClientInit, Phases, Results, Bodies
  <2>2. attempt \in 0 .. MaxRetries /\ response \in StatusCodes \cup {0}
        /\ open \in Nat /\ waited \in Nat
    BY ClientAssumption DEF ClientInit
  <2>3. arrived \in Seq(Entries) /\ (result # "none" <=> phase = "returned")
    BY DEF ClientInit
  <2>4. QED
    BY <2>1, <2>2, <2>3 DEF ClientTypeOK, Entries
<1>2. arrived = <<>> /\ DOMAIN arrived = {}
  BY DEF ClientInit
<1>3. AttemptsAreBounded /\ ArrivedSoFar
  BY <1>2 DEF ClientInit, AttemptsAreBounded, ArrivedSoFar
<1>4. BodiesAreClosed /\ OpenSoFar /\ WaitedSoFar
  BY DEF ClientInit, BodiesAreClosed, OpenSoFar, WaitedSoFar
<1>5. QED
  BY <1>1, <1>3, <1>4 DEF CallInv, ClientInv

LEMMA PowerOfAttempt == ClientTypeOK => /\ 2 ^ attempt \in Nat /\ 2 ^ attempt >= 1
                                        /\ attempt > 0 => /\ 2 ^ (attempt - 1) \in Nat
                                                          /\ 2 ^ attempt = 2 * 2 ^ (attempt - 1)
<1> SUFFICES ASSUME ClientTypeOK
             PROVE  /\ 2 ^ attempt \in Nat /\ 2 ^ attempt >= 1
                    /\ attempt > 0 => /\ 2 ^ (attempt - 1) \in Nat
                                      /\ 2 ^ attempt = 2 * 2 ^ (attempt - 1)
  OBVIOUS
<1>1. attempt \in Nat
  BY ClientAssumption DEF ClientTypeOK
<1>2. 2 ^ attempt \in Nat /\ 2 ^ attempt = Cardinality(SUBSET (1 .. attempt))
      /\ IsFiniteSet(SUBSET (1 .. attempt))
  BY <1>1, PowerCounts
<1>3. 2 ^ attempt # 0
  <2>1. SUBSET (1 .. attempt) # {}
    OBVIOUS
  <2>2. QED
    BY <1>2, <2>1, FS_EmptySet
<1>4. ASSUME attempt > 0
      PROVE  2 ^ (attempt - 1) \in Nat /\ 2 ^ attempt = 2 * 2 ^ (attempt - 1)
  <2> DEFINE n == attempt - 1
  <2>1. n \in Nat /\ attempt = n + 1
    BY <1>1, <1>4
  <2> HIDE DEF n
  <2>2. 2 ^ n \in Nat /\ 2 ^ (n + 1) = 2 * 2 ^ n
    BY <2>1, PowerCounts, PowerDoubles
  <2>3. QED
    BY <2>1, <2>2 DEF n
<1>5. QED
  BY <1>2, <1>3, <1>4

--------------------------------------------------------------------------------
(* Its steps *)

\* A step that receives nothing and takes no new attempt.
LEMMA BeginKeeps ==
  ASSUME CallInv, BeginAttempt
  PROVE  CallInv'
<1> USE DEF CallInv, ClientInv
<1>1. /\ phase = "start" /\ phase' = (IF attempt > 0 THEN "backoff" ELSE "sending")
      /\ UNCHANGED <<attempt, reader, ctxDone, response, open, result, waited, arrived>>
  BY DEF BeginAttempt, Goes
<1>2. ClientTypeOK'
  BY <1>1 DEF ClientTypeOK, Phases
<1>3. AttemptsAreBounded' /\ BodiesAreClosed' /\ OpenSoFar'
  BY <1>1 DEF AttemptsAreBounded, BodiesAreClosed, OpenSoFar
<1>4. ArrivedSoFar'
  BY <1>1 DEF ArrivedSoFar, Earlier
<1>5. WaitedSoFar'
  <2>1. CASE attempt > 0
    BY <1>1, <2>1 DEF WaitedSoFar
  <2>2. CASE ~(attempt > 0)
    <3>1. attempt = 0 /\ waited \in Nat
      BY <2>2, ClientAssumption DEF ClientTypeOK
    <3>2. 2 ^ 0 = 1
      OBVIOUS
    <3>3. QED
      BY <1>1, <3>1, <3>2 DEF WaitedSoFar
  <2>3. QED
    BY <2>1, <2>2
<1>6. QED
  BY <1>2, <1>3, <1>4, <1>5

LEMMA BackoffKeeps ==
  ASSUME CallInv, BackoffPasses
  PROVE  CallInv'
<1> USE DEF CallInv, ClientInv
<1>1. /\ phase = "backoff" /\ phase' = "sending" /\ waited' = waited + 2 ^ (attempt - 1)
      /\ UNCHANGED <<attempt, reader, ctxDone, response, open, result, arrived>>
      /\ attempt > 0 /\ waited >= 2 ^ (attempt - 1) - 1 /\ waited \in Nat
  BY DEF BackoffPasses, Goes, Backoff, ArrivedSoFar, WaitedSoFar, ClientTypeOK
<1>2. 2 ^ (attempt - 1) \in Nat /\ 2 ^ attempt = 2 * 2 ^ (attempt - 1)
  BY <1>1, PowerOfAttempt
<1>3. waited' \in Nat /\ waited' >= 2 ^ attempt - 1
  BY <1>1, <1>2
<1>4. ClientTypeOK'
  BY <1>1, <1>3 DEF ClientTypeOK, Phases
<1>5. AttemptsAreBounded' /\ BodiesAreClosed' /\ OpenSoFar' /\ ArrivedSoFar'
  BY <1>1 DEF AttemptsAreBounded, BodiesAreClosed, OpenSoFar, ArrivedSoFar, Earlier
<1>6. WaitedSoFar'
  BY <1>1, <1>3 DEF WaitedSoFar
<1>7. QED
  BY <1>4, <1>5, <1>6

LEMMA CancelKeeps ==
  ASSUME CallInv, WaitCancelled
  PROVE  CallInv'
<1> USE DEF CallInv, ClientInv
<1>1. /\ phase' = "returned" /\ result' = "cancelled" /\ open' = 0
      /\ UNCHANGED <<attempt, reader, ctxDone, response, waited, arrived>>
  BY DEF WaitCancelled, Goes, OpenSoFar
<1>2. ClientTypeOK'
  BY <1>1 DEF ClientTypeOK, Phases, Results
<1>3. AttemptsAreBounded' /\ BodiesAreClosed' /\ OpenSoFar' /\ ArrivedSoFar' /\ WaitedSoFar'
  BY <1>1 DEF AttemptsAreBounded, BodiesAreClosed, OpenSoFar, ArrivedSoFar, WaitedSoFar
<1>4. QED
  BY <1>2, <1>3

LEMMA AnswerKeeps ==
  ASSUME CallInv, Answered
  PROVE  CallInv'
<1> USE DEF CallInv, ClientInv
<1>1. /\ phase = "sending" /\ phase' = "answered" /\ response' \in StatusCodes
      /\ open' = 1 /\ reader' \in Bodies
      /\ arrived' = Append(arrived, [attempt |-> attempt, carried |-> Carried,
                                    bearer |-> SanitizeToken(Token), code |-> response'])
      /\ UNCHANGED <<attempt, ctxDone, result, waited>>
  BY DEF Answered, Goes, OpenSoFar, AfterSend, Bodies
<1>2. /\ arrived' \in Seq(Entries) /\ Len(arrived') = Len(arrived) + 1
      /\ arrived' # <<>> /\ Len(arrived) \in Nat
      /\ DOMAIN arrived = 1 .. Len(arrived) /\ DOMAIN arrived' = 1 .. Len(arrived')
      /\ \A i \in DOMAIN arrived : arrived'[i] = arrived[i] /\ Earlier(i)
      /\ arrived'[Len(arrived')].attempt = attempt /\ arrived'[Len(arrived')].code = response'
      /\ \A i, j \in DOMAIN arrived' : i < j => arrived'[i].attempt < arrived'[j].attempt
  BY <1>1, EntryArrives
<1>3. ClientTypeOK'
  BY <1>1, <1>2 DEF ClientTypeOK, Phases, Entries
<1>4. \A i \in DOMAIN arrived' : i \in DOMAIN arrived \/ i = Len(arrived')
  BY <1>2
<1>5. AttemptsAreBounded'
  BY <1>2, <1>4 DEF AttemptsAreBounded, Earlier, Unsettled
<1>6. ArrivedSoFar'
  BY <1>1, <1>2, <1>4 DEF ArrivedSoFar, Earlier
<1>7. BodiesAreClosed' /\ OpenSoFar' /\ WaitedSoFar'
  BY <1>1 DEF BodiesAreClosed, OpenSoFar, WaitedSoFar
<1>8. QED
  BY <1>3, <1>5, <1>6, <1>7

LEMMA FailureKeeps ==
  ASSUME CallInv, RequestFails
  PROVE  CallInv'
<1> USE DEF CallInv, ClientInv
<1>1. /\ phase = "sending" /\ response' = 0 /\ reader' \in Bodies
      /\ open = 0 /\ waited >= 2 ^ attempt - 1 /\ waited \in Nat
      /\ UNCHANGED <<ctxDone, open, waited>>
      /\ attempt \in 0 .. MaxRetries /\ result = "none"
  BY DEF RequestFails, Goes, OpenSoFar, WaitedSoFar, AfterSend, Bodies, ClientTypeOK
<1>2. \/ phase' = "start" /\ attempt' = attempt + 1 /\ attempt < MaxRetries /\ result' = "none"
      \/ phase' = "returned" /\ attempt' = attempt /\ result' = "error"
  BY <1>1 DEF RequestFails, Goes
<1>3. attempt' \in 0 .. MaxRetries /\ attempt' >= attempt
  BY <1>1, <1>2, ClientAssumption
\* Whether it arrived or not, what the server has is of this attempt at the latest.
<1>4. /\ arrived' \in Seq(Entries)
      /\ \A i \in DOMAIN arrived' : arrived'[i].attempt <= attempt /\ Unsettled(arrived'[i])
      /\ \A i, j \in DOMAIN arrived' : i < j => arrived'[i].attempt < arrived'[j].attempt
      /\ \A i \in DOMAIN arrived' : arrived'[i].attempt \in Nat
  <2>1. CASE arrived' = arrived
    <3>1. arrived \in Seq(Entries) /\ \A i \in DOMAIN arrived : arrived[i].attempt \in Nat
      BY ArrivedTyped
    <3>2. \A i \in DOMAIN arrived : Earlier(i)
      BY <1>1 DEF ArrivedSoFar
    <3>3. \A i \in DOMAIN arrived : arrived[i].attempt <= attempt
      BY <1>1, <3>1, <3>2 DEF Earlier
    <3>4. QED
      BY <2>1, <3>1, <3>2, <3>3 DEF Earlier, AttemptsAreBounded
  <2>2. CASE arrived' = Append(arrived, [attempt |-> attempt, carried |-> Carried,
                                        bearer |-> SanitizeToken(Token), code |-> 0])
    <3>1. /\ arrived' \in Seq(Entries) /\ Len(arrived') = Len(arrived) + 1
          /\ Len(arrived) \in Nat
          /\ DOMAIN arrived = 1 .. Len(arrived) /\ DOMAIN arrived' = 1 .. Len(arrived')
          /\ \A i \in DOMAIN arrived : arrived'[i] = arrived[i] /\ Earlier(i)
          /\ arrived'[Len(arrived')].attempt = attempt /\ arrived'[Len(arrived')].code = 0
          /\ \A i, j \in DOMAIN arrived' : i < j => arrived'[i].attempt < arrived'[j].attempt
      BY <1>1, <2>2, EntryArrives
    <3>2. \A i \in DOMAIN arrived' : arrived'[i] \in Entries
      BY <3>1
    <3>3. \A i \in DOMAIN arrived' : arrived'[i].attempt \in Nat
      BY <3>2 DEF Entries
    <3>4. ASSUME NEW i \in DOMAIN arrived'
          PROVE  arrived'[i].attempt <= attempt /\ Unsettled(arrived'[i])
      <4>1. CASE i = Len(arrived')
        BY <1>1, <3>1, <4>1 DEF Unsettled
      <4>2. CASE i # Len(arrived')
        <5>1. i \in DOMAIN arrived
          BY <3>1, <4>2
        <5>2. arrived'[i].attempt < attempt /\ Unsettled(arrived'[i])
          BY <3>1, <5>1 DEF Earlier
        <5>3. QED
          BY <1>1, <3>3, <5>2
      <4>3. QED
        BY <4>1, <4>2
    <3>5. QED
      BY <3>1, <3>3, <3>4
  <2>3. QED
    BY <2>1, <2>2 DEF RequestFails
<1>5. ClientTypeOK'
  <2>1. phase' \in Phases /\ result' \in Results /\ (result' # "none" <=> phase' = "returned")
    BY <1>2 DEF Phases, Results
  <2>2. QED
    BY <1>1, <1>3, <1>4, <2>1 DEF ClientTypeOK, Entries
<1>6. AttemptsAreBounded'
  BY <1>4 DEF AttemptsAreBounded, Unsettled
<1>7. ArrivedSoFar'
  <2>1. CASE phase' = "start"
    <3>1. attempt' = attempt + 1 /\ attempt \in Nat
      BY <1>1, <1>2, <2>1, ClientAssumption
    <3>2. \A i \in DOMAIN arrived' : Earlier(i)'
      BY <1>4, <3>1 DEF Earlier
    <3>3. QED
      BY <2>1, <3>2 DEF ArrivedSoFar
  <2>2. CASE phase' = "returned"
    BY <2>2 DEF ArrivedSoFar
  <2>3. QED
    BY <1>2, <2>1, <2>2
<1>8. BodiesAreClosed' /\ OpenSoFar'
  BY <1>1, <1>2 DEF BodiesAreClosed, OpenSoFar
<1>9. WaitedSoFar'
  <2>1. CASE phase' = "start"
    <3>1. attempt' - 1 = attempt
      BY <1>1, <1>2, <2>1, ClientAssumption
    <3>2. QED
      BY <1>1, <2>1, <3>1 DEF WaitedSoFar
  <2>2. CASE phase' = "returned"
    BY <2>2 DEF WaitedSoFar
  <2>3. QED
    BY <1>2, <2>1, <2>2
<1>10. QED
  BY <1>5, <1>6, <1>7, <1>8, <1>9

LEMMA ReturnKeeps ==
  ASSUME CallInv, ReturnResponse
  PROVE  CallInv'
<1> USE DEF CallInv, ClientInv
<1>1. /\ phase = "answered" /\ phase' = "returned" /\ result' = "response" /\ open = 1
      /\ UNCHANGED <<attempt, reader, ctxDone, response, open, waited, arrived>>
  BY DEF ReturnResponse, Goes, OpenSoFar
<1>2. ClientTypeOK'
  BY <1>1 DEF ClientTypeOK, Phases, Results
<1>3. AttemptsAreBounded' /\ BodiesAreClosed' /\ OpenSoFar' /\ ArrivedSoFar' /\ WaitedSoFar'
  BY <1>1 DEF AttemptsAreBounded, BodiesAreClosed, OpenSoFar, ArrivedSoFar, WaitedSoFar
<1>4. QED
  BY <1>2, <1>3

LEMMA LimitKeeps ==
  ASSUME CallInv, RateLimited
  PROVE  CallInv'
<1> USE DEF CallInv, ClientInv
<1>1. /\ phase = "answered" /\ phase' = "limited" /\ WillRetry
      /\ UNCHANGED <<attempt, reader, ctxDone, response, open, result, waited, arrived>>
  BY DEF RateLimited, Goes
<1>2. ClientTypeOK'
  BY <1>1 DEF ClientTypeOK, Phases
<1>3. AttemptsAreBounded' /\ BodiesAreClosed' /\ OpenSoFar' /\ WaitedSoFar'
  BY <1>1 DEF AttemptsAreBounded, BodiesAreClosed, OpenSoFar, WaitedSoFar
<1>4. ArrivedSoFar'
  BY <1>1 DEF ArrivedSoFar, Earlier, WillRetry
<1>5. QED
  BY <1>2, <1>3, <1>4

LEMMA NextKeeps ==
  ASSUME CallInv, NextAttempt
  PROVE  CallInv'
<1> USE DEF CallInv, ClientInv
<1>1. /\ phase \in {"answered", "limited"} /\ phase' = "start" /\ WillRetry
      /\ attempt' = attempt + 1 /\ open' = 0 /\ response' = 0
      /\ UNCHANGED <<reader, ctxDone, result, arrived>>
      /\ attempt \in 0 .. MaxRetries /\ attempt < MaxRetries
  BY DEF NextAttempt, Goes, OpenSoFar, ArrivedSoFar, WillRetry, ClientTypeOK
<1>2. waited' \in Nat /\ waited' >= waited /\ waited \in Nat
  <2>1. waited \in Nat
    BY DEF ClientTypeOK
  <2>2. ASSUME NEW header \in RetryAfters
        PROVE  RetryAfter(header) \in Nat
    BY ClientAssumption DEF RetryAfter
  <2>3. QED
    BY <2>1, <2>2 DEF NextAttempt
<1>3. attempt' \in 0 .. MaxRetries /\ attempt' - 1 = attempt
  BY <1>1, ClientAssumption
<1>4. ClientTypeOK'
  BY <1>1, <1>2, <1>3 DEF ClientTypeOK, Phases
<1>5. AttemptsAreBounded' /\ BodiesAreClosed' /\ OpenSoFar'
  BY <1>1 DEF AttemptsAreBounded, BodiesAreClosed, OpenSoFar
<1>6. ArrivedSoFar'
  <2>1. arrived \in Seq(Entries) /\ DOMAIN arrived = 1 .. Len(arrived) /\ Len(arrived) \in Nat
        /\ \A i \in DOMAIN arrived : arrived[i].attempt \in Nat
    BY ArrivedTyped
  <2>2. ASSUME NEW i \in DOMAIN arrived
        PROVE  arrived[i].attempt < attempt + 1 /\ Unsettled(arrived[i])
    <3>1. CASE i = Len(arrived)
      BY <1>1, <3>1 DEF ArrivedSoFar, Unsettled, WillRetry
    <3>2. CASE i # Len(arrived)
      <4>1. i < Len(arrived)
        BY <2>1, <3>2
      <4>2. arrived[i].attempt < attempt /\ Unsettled(arrived[i])
        BY <1>1, <4>1 DEF ArrivedSoFar, Earlier
      <4>3. QED
        BY <1>1, <2>1, <4>2
    <3>3. QED
      BY <3>1, <3>2
  <2>3. QED
    BY <1>1, <2>2 DEF ArrivedSoFar, Earlier
<1>7. WaitedSoFar'
  <2>1. waited >= 2 ^ attempt - 1 /\ 2 ^ attempt \in Nat
    BY <1>1, PowerOfAttempt DEF WaitedSoFar
  <2>2. waited' >= 2 ^ attempt - 1
    BY <1>2, <2>1
  <2>3. QED
    BY <1>1, <1>3, <2>2 DEF WaitedSoFar
<1>8. QED
  BY <1>4, <1>5, <1>6, <1>7

LEMMA NotMadeKeeps ==
  ASSUME CallInv, RequestNotMade
  PROVE  CallInv'
<1> USE DEF CallInv, ClientInv
<1>1. /\ phase' = "returned" /\ result' = "error" /\ open = 0
      /\ UNCHANGED <<attempt, reader, ctxDone, response, open, waited, arrived>>
  BY DEF RequestNotMade, Goes, OpenSoFar
<1>2. ClientTypeOK'
  BY <1>1 DEF ClientTypeOK, Phases, Results
<1>3. AttemptsAreBounded' /\ BodiesAreClosed' /\ OpenSoFar' /\ ArrivedSoFar' /\ WaitedSoFar'
  BY <1>1 DEF AttemptsAreBounded, BodiesAreClosed, OpenSoFar, ArrivedSoFar, WaitedSoFar
<1>4. QED
  BY <1>2, <1>3

\* The state that a context or nothing changes.
LEMMA DoneKeeps ==
  ASSUME CallInv, ContextDone \/ UNCHANGED clientVars
  PROVE  CallInv'
<1> USE DEF CallInv, ClientInv
<1>1. /\ UNCHANGED <<phase, attempt, reader, response, open, result, waited, arrived>>
      /\ ctxDone' \in BOOLEAN
  BY DEF ContextDone, clientVars, ClientTypeOK
<1>2. ClientTypeOK'
  BY <1>1 DEF ClientTypeOK
<1>3. AttemptsAreBounded' /\ BodiesAreClosed' /\ OpenSoFar' /\ WaitedSoFar'
  BY <1>1 DEF AttemptsAreBounded, BodiesAreClosed, OpenSoFar, WaitedSoFar
<1>4. ArrivedSoFar'
  BY <1>1 DEF ArrivedSoFar, Earlier, WillRetry
<1>5. QED
  BY <1>2, <1>3, <1>4

\* However the server answers and whenever the context ends: the attempts are bounded, each
\* is made once and none after an answer that settles the matter, the bodies are closed,
\* and the backoffs that were waited for add up.
THEOREM CallInvariant == ClientSpec => []CallInv
<1>1. CallInv /\ [ClientNext]_clientVars => CallInv'
  BY BeginKeeps, BackoffKeeps, CancelKeeps, AnswerKeeps, FailureKeeps, ReturnKeeps, LimitKeeps,
     NextKeeps, NotMadeKeeps, DoneKeeps DEF ClientNext, ClientStep
<1>2. QED
  BY <1>1, CallStarts, PTL DEF ClientSpec

\* What the call promises its caller and the server.
THEOREM CallsAreSafe == ClientSpec => []ClientInv
<1>1. CallInv => ClientInv
  BY DEF CallInv
<1>2. QED
  BY <1>1, CallInvariant, PTL

\* Before the n-th retry the client has waited 1 + 2 + ... + 2^(n-1) seconds, for every
\* number of retries whose backoff is a duration.
THEOREM CallsBackOff == ClientSpec => []RetriesBackOff
<1>1. CallInv => RetriesBackOff
  BY DEF CallInv, WaitedSoFar, RetriesBackOff
<1>2. QED
  BY <1>1, CallInvariant, PTL

--------------------------------------------------------------------------------
(* The webhook: the loop over the registries *)

\* Until the parser has read it, the body is there exactly if it can be read.
BodyIsKept ==
    stage \in {"authenticating", "accepted", "parsing"} => Readable = webhook.whole

\* AuthenticateRegistry, which looks at one registry alone.
AuthenticateRegistry(r) == r.auth = "none" \/ Proves(r)

\* What the middleware knows so far is what the registries it has tried say by themselves;
\* one whose secret fits ends the loop, and then it does not matter what the rest would say.
TriedSoFar ==
    authenticated <=> \E i \in 1 .. (index - 1) : AuthenticateRegistry(cfg.registries[i])

\* The decision is made at the end of the loop.
DecidedAtEnd ==
    stage # "authenticating" =>
        index = Len(cfg.registries) + 1 /\ (stage = "rejected" <=> ~authenticated)

IntakeSafe == IntakeTypeOK /\ BodyIsKept /\ TriedSoFar /\ DecidedAtEnd

LEMMA RegistriesAreSequence ==
  ASSUME cfg \in Configurations
  PROVE  /\ Validate(cfg)
         /\ Len(cfg.registries) \in Nat /\ DOMAIN cfg.registries = 1 .. Len(cfg.registries)
  BY IntakeAssumption

LEMMA IntakeStarts == IntakeInit => IntakeSafe
<1> SUFFICES ASSUME IntakeInit
             PROVE  IntakeSafe
  OBVIOUS
<1>1. Len(cfg.registries) \in Nat
  BY RegistriesAreSequence DEF IntakeInit
<1>2. IntakeTypeOK
  <2>1. index \in 1 .. (Len(cfg.registries) + 1)
    BY <1>1 DEF IntakeInit
  <2>2. authenticated \in BOOLEAN
    BY DEF IntakeInit
  <2>3. requests = <<>> /\ stage = "authenticating" /\ body = "unread"
    BY DEF IntakeInit
  <2>4. cfg \in Configurations /\ webhook \in Webhooks
    BY DEF IntakeInit
  <2>5. QED
    BY <2>1, <2>2, <2>3, <2>4 DEF IntakeTypeOK
<1>3. BodyIsKept
  BY IntakeAssumption DEF IntakeInit, BodyIsKept, Readable
<1>4. TriedSoFar /\ DecidedAtEnd
  BY DEF IntakeInit, TriedSoFar, DecidedAtEnd
<1>5. QED
  BY <1>2, <1>3, <1>4 DEF IntakeSafe

\* While the body can be read as often as it was sent whole, the middleware finds of a
\* registry what AuthenticateRegistry says of it alone.
LEMMA VerifiesAlone ==
  ASSUME Readable = webhook.whole, webhook.whole \in BOOLEAN, NEW r
  PROVE  /\ AuthenticateRegistry(r) <=> (r.auth = "none" \/ Verifies(r))
         /\ BodyAfter(r) \in {body, "restored", "failed"}
         /\ BodyAfter(r) = "restored" => webhook.whole
         /\ BodyAfter(r) = "failed" => body = "failed" \/ ~webhook.whole
  BY DEF AuthenticateRegistry, Proves, Verifies, VerifyHMAC, VerifyBearerToken, BodyAfter, Readable

LEMMA TryKeeps ==
  ASSUME IntakeSafe, TryRegistry
  PROVE  IntakeSafe'
<1> DEFINE r == cfg.registries[index]
           n == Len(cfg.registries)
<1>1. /\ stage = "authenticating" /\ index <= n
      /\ authenticated' = (authenticated \/ r.auth = "none" \/ Verifies(r))
      /\ index' = IF Verifies(r) THEN n + 1 ELSE index + 1
      /\ body' = BodyAfter(r)
      /\ UNCHANGED <<cfg, webhook, stage, parser, requests>>
  BY DEF TryRegistry
<1>2. /\ IntakeTypeOK /\ BodyIsKept /\ TriedSoFar
      /\ cfg \in Configurations /\ webhook \in Webhooks /\ index \in 1 .. (n + 1)
      /\ authenticated \in BOOLEAN
  BY DEF IntakeSafe, IntakeTypeOK
<1>3. n \in Nat
  BY <1>2, RegistriesAreSequence
<1>4. Readable = webhook.whole /\ webhook.whole \in BOOLEAN
  BY <1>1, <1>2, IntakeAssumption DEF BodyIsKept
<1>5. /\ AuthenticateRegistry(r) <=> (r.auth = "none" \/ Verifies(r))
      /\ body' \in {body, "restored", "failed"}
      /\ body' = "restored" => webhook.whole
      /\ body' = "failed" => body = "failed" \/ ~webhook.whole
  BY <1>1, <1>4, VerifiesAlone
<1>6. IntakeTypeOK'
  <2>1. index' \in 1 .. (n + 1)
    BY <1>1, <1>2, <1>3
  <2>2. authenticated' \in BOOLEAN
    BY <1>1
  <2>3. body' \in {"unread", "restored", "failed", "drained"}
    BY <1>2, <1>5 DEF IntakeTypeOK
  <2>4. QED
    BY <1>1, <1>2, <2>1, <2>2, <2>3 DEF IntakeTypeOK
<1>7. BodyIsKept'
  BY <1>1, <1>4, <1>5 DEF BodyIsKept, Readable
<1>8. TriedSoFar'
  <2>1. \A i : AuthenticateRegistry(cfg.registries[i])' <=> AuthenticateRegistry(cfg.registries[i])
    BY <1>1 DEF AuthenticateRegistry, Proves, Signed
  <2>2. authenticated' <=> authenticated \/ AuthenticateRegistry(r)
    BY <1>1, <1>5
  <2>3. index \in 1 .. (index' - 1) /\ 1 .. (index - 1) \subseteq 1 .. (index' - 1)
    BY <1>1, <1>2, <1>3
  <2>4. CASE Verifies(r)
    BY <1>1, <1>5, <2>1, <2>3, <2>4 DEF TriedSoFar
  <2>5. CASE ~Verifies(r)
    <3>1. 1 .. (index' - 1) = (1 .. (index - 1)) \cup {index}
      BY <1>1, <1>2, <2>5
    <3>2. QED
      BY <1>2, <2>1, <2>2, <3>1 DEF TriedSoFar
  <2>6. QED
    BY <2>4, <2>5
<1>9. QED
  BY <1>1, <1>6, <1>7, <1>8 DEF IntakeSafe, DecidedAtEnd

\* What the steps after the loop leave alone.
LEMMA LoopIsOver ==
  ASSUME IntakeSafe, UNCHANGED <<cfg, webhook, index, authenticated>>
  PROVE  TriedSoFar'
<1>1. \A i : AuthenticateRegistry(cfg.registries[i])' <=> AuthenticateRegistry(cfg.registries[i])
  BY DEF AuthenticateRegistry, Proves, Signed
<1>2. QED
  BY <1>1 DEF IntakeSafe, TriedSoFar

LEMMA DecideKeeps ==
  ASSUME IntakeSafe, Decide
  PROVE  IntakeSafe'
<1>1. /\ stage = "authenticating" /\ index > Len(cfg.registries)
      /\ stage' = IF authenticated THEN "accepted" ELSE "rejected"
      /\ UNCHANGED <<cfg, webhook, index, authenticated, body, parser, requests>>
  BY DEF Decide
<1>2. IntakeTypeOK'
  BY <1>1 DEF IntakeSafe, IntakeTypeOK
<1>3. BodyIsKept'
  BY <1>1 DEF IntakeSafe, BodyIsKept, Readable
<1>4. DecidedAtEnd'
  <2>1. index \in 1 .. (Len(cfg.registries) + 1) /\ Len(cfg.registries) \in Nat
    BY RegistriesAreSequence DEF IntakeSafe, IntakeTypeOK
  <2>2. index = Len(cfg.registries) + 1
    BY <1>1, <2>1
  <2>3. QED
    BY <1>1, <2>2 DEF DecidedAtEnd
<1>5. QED
  BY <1>1, <1>2, <1>3, <1>4, LoopIsOver DEF IntakeSafe

LEMMA PickKeeps ==
  ASSUME IntakeSafe, PickParser
  PROVE  IntakeSafe'
<1>1. /\ stage = "accepted" /\ stage' \in {"refused", "parsing"}
      /\ UNCHANGED <<cfg, webhook, index, authenticated, body, requests>>
  BY DEF PickParser
<1>2. IntakeTypeOK'
  BY <1>1 DEF IntakeSafe, IntakeTypeOK
<1>3. BodyIsKept'
  BY <1>1 DEF IntakeSafe, BodyIsKept, Readable
<1>4. DecidedAtEnd'
  BY <1>1 DEF IntakeSafe, DecidedAtEnd
<1>5. QED
  BY <1>1, <1>2, <1>3, <1>4, LoopIsOver DEF IntakeSafe

LEMMA ParseKeeps ==
  ASSUME IntakeSafe, Parse
  PROVE  IntakeSafe'
<1>1. /\ stage = "parsing" /\ stage' \in {"panicked", "parsed", "refused"}
      /\ requests' # <<>> <=> stage' = "parsed"
      /\ body' \in {"drained", "failed"}
      /\ UNCHANGED <<cfg, webhook, index, authenticated, parser>>
  BY DEF Parse
<1>2. IntakeTypeOK'
  BY <1>1 DEF IntakeSafe, IntakeTypeOK
<1>3. BodyIsKept'
  BY <1>1 DEF BodyIsKept
<1>4. DecidedAtEnd'
  BY <1>1 DEF IntakeSafe, DecidedAtEnd
<1>5. QED
  BY <1>1, <1>2, <1>3, <1>4, LoopIsOver DEF IntakeSafe

LEMMA IntakeStutters ==
  ASSUME IntakeSafe, UNCHANGED intakeVars
  PROVE  IntakeSafe'
<1>1. UNCHANGED <<cfg, webhook, stage, index, authenticated, body, parser, requests>>
  BY DEF intakeVars
<1>2. IntakeTypeOK' /\ BodyIsKept' /\ DecidedAtEnd'
  BY <1>1 DEF IntakeSafe, IntakeTypeOK, BodyIsKept, DecidedAtEnd, Readable
<1>3. QED
  BY <1>1, <1>2, LoopIsOver DEF IntakeSafe

\* For any configuration that Validate passes and any request, the loop of the middleware
\* keeps what it has found out, and the body.
THEOREM IntakeInvariant == IntakeSpec => []IntakeSafe
<1>1. IntakeSafe /\ [IntakeNext]_intakeVars => IntakeSafe'
  BY TryKeeps, DecideKeeps, PickKeeps, ParseKeeps, IntakeStutters DEF IntakeNext
<1>2. QED
  BY <1>1, IntakeStarts, PTL DEF IntakeSpec

\* However many registries verify a signature over the body, the parser still gets it.
THEOREM BodiesReachParsers == IntakeSpec => []IntakeInv
<1>1. IntakeSafe => IntakeInv
  BY DEF IntakeSafe, BodyIsKept, IntakeInv, BodyReachesParser
<1>2. QED
  BY <1>1, IntakeInvariant, PTL

\* For all configurations and requests: a request that carries the proof of any registry
\* passes, wherever that registry stands, and if every registry asks for a proof then no
\* other request does.
THEOREM DecisionsAreOrderFree == IntakeSpec => []DecisionIsOrderFree
<1>1. IntakeSafe => DecisionIsOrderFree
  <2> SUFFICES ASSUME IntakeSafe, stage # "authenticating"
               PROVE  /\ ProvenToSome => stage # "rejected"
                      /\ ~ProvenToSome
                         /\ (\A i \in DOMAIN cfg.registries : cfg.registries[i].auth # "none")
                         => stage = "rejected"
    BY DEF DecisionIsOrderFree
  <2>1. /\ Len(cfg.registries) \in Nat /\ DOMAIN cfg.registries = 1 .. Len(cfg.registries)
        /\ index = Len(cfg.registries) + 1
        /\ stage = "rejected" <=> ~authenticated
    BY RegistriesAreSequence DEF IntakeSafe, IntakeTypeOK, DecidedAtEnd
  <2>2. 1 .. (index - 1) = DOMAIN cfg.registries
    BY <2>1
  <2>3. authenticated <=> \E i \in DOMAIN cfg.registries :
                              AuthenticateRegistry(cfg.registries[i])
    BY <2>2 DEF IntakeSafe, TriedSoFar
  <2>4. QED
    BY <2>1, <2>3 DEF AuthenticateRegistry, ProvenToSome
<1>2. QED
  BY <1>1, IntakeInvariant, PTL

--------------------------------------------------------------------------------
(* The webhook: the credentials of a request *)

\* A name finds one registry of a valid configuration at most, so that the first is the only.
LEMMA OneIsNamed ==
  ASSUME cfg \in Configurations, NEW name, NEW i \in Named(cfg, name)
  PROVE  i \in DOMAIN cfg.registries /\ Named(cfg, name) = {i} /\ Min({i}) = i
<1>1. DOMAIN cfg.registries \subseteq Nat \ {0} /\ Validate(cfg)
  BY RegistriesAreSequence
<1>2. i \in DOMAIN cfg.registries /\ i \in Nat
  BY <1>1 DEF Named
<1>3. ASSUME NEW j \in Named(cfg, name)
      PROVE  j = i
  <2>1. j \in DOMAIN cfg.registries /\ j \in Nat
    BY <1>1 DEF Named
  <2>2. ~(j < i) /\ ~(i < j)
    BY <1>1, <1>2, <2>1 DEF Validate, Named
  <2>3. QED
    BY <1>2, <2>1, <2>2
<1>4. Min({i}) = i
  BY <1>2 DEF Min
<1>5. QED
  BY <1>2, <1>3, <1>4

\* The three ways to look credentials up agree for every name, whether a registry has it
\* or not; they differ only about a registry with half of its credentials.
LEMMA LookupsAgree ==
  ASSUME cfg \in Configurations, NEW name
  PROVE  LET cli == BuildScanArgs(name)
         IN /\ ~HasHalf(cli) => BuildScanRequest(name) = cli /\ GetRegistryCredentials(name) = cli
            /\ HasHalf(cli) => /\ GetRegistryCredentials(name) = NoCredentials
                               /\ BuildScanRequest(name) \in {cli, NoCredentials}
<1> DEFINE cli == BuildScanArgs(name)
<1>1. /\ CredentialsOf({}) = NoCredentials
      /\ NoCredentials.user = Unset /\ NoCredentials.password = Unset
  BY DEF CredentialsOf, NoCredentials
<1>2. CASE Named(cfg, name) = {}
  BY <1>1, <1>2 DEF BuildScanArgs, GetRegistryCredentials, BuildScanRequest, HasHalf
<1>3. ASSUME NEW i \in Named(cfg, name)
      PROVE  /\ ~HasHalf(cli) => BuildScanRequest(name) = cli /\ GetRegistryCredentials(name) = cli
             /\ HasHalf(cli) => /\ GetRegistryCredentials(name) = NoCredentials
                                /\ BuildScanRequest(name) \in {cli, NoCredentials}
  <2> DEFINE r == cfg.registries[i]
             own == [user |-> r.user, password |-> r.password]
  <2>1. i \in DOMAIN cfg.registries /\ Named(cfg, name) = {i} /\ Min({i}) = i
    BY OneIsNamed
  <2>2. CredentialsOf({i}) = own /\ own.user = r.user /\ own.password = r.password
    BY <2>1 DEF CredentialsOf
  <2>3. cli = own
    BY <2>1, <2>2 DEF BuildScanArgs
  <2>4. GetRegistryCredentials(name) =
            IF Unset \in {own.user, own.password} THEN NoCredentials ELSE own
    BY <2>1, <2>2 DEF GetRegistryCredentials
  <2>5. BuildScanRequest(name) = IF r.user = Unset THEN NoCredentials ELSE own
    <3>1. {i} \cap WithUser = IF r.user = Unset THEN {} ELSE {i}
      BY <2>1 DEF WithUser
    <3>2. QED
      BY <1>1, <2>1, <2>2, <3>1 DEF BuildScanRequest
  <2>6. own.user = Unset /\ own.password = Unset => own = NoCredentials
    BY DEF NoCredentials
  <2> HIDE DEF own, cli
  <2>7. QED
    BY <2>2, <2>3, <2>4, <2>5, <2>6 DEF HasHalf
<1>4. QED
  BY <1>2, <1>3

\* For all configurations that the loader accepts: a name finds one registry, and what the
\* backends and the provider find there differs only if it has half of its credentials.
THEOREM LookupsAreOne == IntakeSpec => []CredentialsAgree
<1>1. IntakeSafe => CredentialsAgree
  BY LookupsAgree DEF IntakeSafe, IntakeTypeOK, CredentialsAgree
<1>2. QED
  BY <1>1, IntakeInvariant, PTL

--------------------------------------------------------------------------------
(* The webhook: texts that are joined and cut *)

LEMMA TokensAreThere ==
  /\ "/" \in Tokens /\ ":" \in Tokens /\ "@" \in Tokens /\ "." \in Tokens
  /\ <<"/">> \in Texts /\ <<":">> \in Texts /\ <<"@">> \in Texts /\ <<>> \in Texts
  /\ DockerIO \in Texts /\ Latest \in Texts /\ SHA256 \in Texts
BY TokensAssumption DEF Texts, DockerIO, Latest, SHA256

LEMMA JoinedText ==
  ASSUME NEW a \in Texts, NEW b \in Texts
  PROVE  /\ a \o b \in Texts /\ Len(a \o b) = Len(a) + Len(b)
         /\ Len(a) \in Nat /\ Len(b) \in Nat
         /\ \A i \in 1 .. (Len(a) + Len(b)) :
               (a \o b)[i] = IF i <= Len(a) THEN a[i] ELSE b[i - Len(a)]
BY ConcatProperties, LenProperties DEF Texts

LEMMA JoinedContains ==
  ASSUME NEW a \in Texts, NEW b \in Texts, NEW token
  PROVE  Contains(a \o b, token) <=> Contains(a, token) \/ Contains(b, token)
<1> DEFINE c == a \o b
<1>1. /\ Len(c) = Len(a) + Len(b) /\ Len(a) \in Nat /\ Len(b) \in Nat
      /\ \A i \in 1 .. (Len(a) + Len(b)) : c[i] = IF i <= Len(a) THEN a[i] ELSE b[i - Len(a)]
  BY JoinedText
<1> HIDE DEF c
<1>2. ASSUME NEW i \in 1 .. Len(c), c[i] = token
      PROVE  \/ \E j \in 1 .. Len(a) : a[j] = token
             \/ \E j \in 1 .. Len(b) : b[j] = token
  <2>1. CASE i <= Len(a)
    BY <1>1, <1>2, <2>1
  <2>2. CASE i > Len(a)
    <3>1. i - Len(a) \in 1 .. Len(b) /\ b[i - Len(a)] = token
      BY <1>1, <1>2, <2>2
    <3>2. QED
      BY <3>1
  <2>3. QED
    BY <1>1, <2>1, <2>2
<1>3. ASSUME NEW i \in 1 .. Len(a)
      PROVE  i \in 1 .. Len(c) /\ c[i] = a[i]
  BY <1>1
<1>4. ASSUME NEW i \in 1 .. Len(b)
      PROVE  Len(a) + i \in 1 .. Len(c) /\ c[Len(a) + i] = b[i]
  BY <1>1
<1>5. (\E i \in 1 .. Len(c) : c[i] = token) <=>
          \/ \E j \in 1 .. Len(a) : a[j] = token
          \/ \E j \in 1 .. Len(b) : b[j] = token
  BY <1>2, <1>3, <1>4
<1>6. QED
  BY <1>5 DEF Contains, c

LEMMA OneContains ==
  ASSUME NEW word, NEW token
  PROVE  Contains(<<word>>, token) <=> word = token
BY DEF Contains

\* What is cut at a token that is not there stays whole.
LEMMA CutMisses ==
  ASSUME NEW text \in Texts, NEW separator, ~Contains(text, separator)
  PROVE  Cut(text, separator) = [found |-> FALSE, left |-> text, right |-> <<>>]
<1>1. SelectInSeq(text, LAMBDA token : token = separator) = 0
  BY DEF SelectInSeq, Contains
<1>2. QED
  BY <1>1 DEF Cut

\* What was joined is cut where it was joined, if the left part is without the separator.
LEMMA CutUndoes ==
  ASSUME NEW a \in Texts, NEW b \in Texts, NEW separator \in Tokens, ~Contains(a, separator)
  PROVE  Cut(a \o <<separator>> \o b, separator) = [found |-> TRUE, left |-> a, right |-> b]
<1> DEFINE one == <<separator>>
           c == a \o one
           text == c \o b
           n == Len(a) + 1
           places == {i \in 1 .. Len(text) : text[i] = separator}
<1>1. one \in Texts /\ Len(one) = 1 /\ one[1] = separator
  BY DEF Texts
<1> HIDE DEF one
<1>2. /\ c \in Texts /\ Len(c) = Len(a) + Len(one) /\ Len(a) \in Nat
      /\ \A i \in 1 .. (Len(a) + Len(one)) : c[i] = IF i <= Len(a) THEN a[i] ELSE one[i - Len(a)]
  BY <1>1, JoinedText
<1> HIDE DEF c
<1>3. /\ text \in Texts /\ Len(text) = Len(c) + Len(b) /\ Len(b) \in Nat
      /\ \A i \in 1 .. (Len(c) + Len(b)) : text[i] = IF i <= Len(c) THEN c[i] ELSE b[i - Len(c)]
  BY <1>2, JoinedText
<1> HIDE DEF text
<1>4. /\ n \in Nat /\ Len(text) = n + Len(b) /\ text[n] = separator
      /\ \A i \in 1 .. Len(a) : text[i] = a[i]
      /\ \A i \in 1 .. Len(b) : text[n + i] = b[i]
  BY <1>1, <1>2, <1>3
<1>5. Min(places) = n /\ places # {}
  <2>1. n \in places
    BY <1>2, <1>3, <1>4
  <2>2. ASSUME NEW i \in places
        PROVE  i \in Nat /\ n <= i
    <3>1. i \in 1 .. Len(text) /\ text[i] = separator
      OBVIOUS
    <3>2. i \notin 1 .. Len(a)
      BY <1>4, <3>1 DEF Contains
    <3>3. QED
      BY <1>2, <1>3, <1>4, <3>1, <3>2
  <2>3. n \in Nat
    BY <1>4
  <2> HIDE DEF places, n
  <2>4. \A m \in places : (\A i \in places : m <= i) => m = n
    BY <2>1, <2>2, <2>3
  <2>5. QED
    BY <2>1, <2>2, <2>4 DEF Min
<1>6. SubSeq(text, 1, n - 1) = a
  <2>1. text \in Seq(Tokens) /\ a \in Seq(Tokens) /\ n - 1 = Len(a) /\ Len(a) \in Nat
    BY <1>2, <1>3, <1>4, LenProperties DEF Texts
  <2>2. \A i \in 1 .. Len(a) : text[i] = a[i] /\ a[i] \in Tokens
    BY <1>2, <1>4, <2>1, ElementOfSeq
  <2>3. /\ SubSeq(text, 1, Len(a)) \in Seq(Tokens) /\ Len(SubSeq(text, 1, Len(a))) = Len(a)
        /\ \A i \in 1 .. Len(a) : SubSeq(text, 1, Len(a))[i] = text[i]
    BY <2>1, <2>2, SubSeqProperties
  <2>4. QED
    BY <2>1, <2>2, <2>3, SeqEqual
<1>7. SubSeq(text, n + 1, Len(text)) = b
  <2>1. text \in Seq(Tokens) /\ b \in Seq(Tokens) /\ Len(text) = n + Len(b) /\ Len(b) \in Nat
    BY <1>3, <1>4 DEF Texts
  <2>2. \A i \in 1 .. Len(b) : text[n + i] = b[i] /\ b[i] \in Tokens
    BY <1>4, <2>1, ElementOfSeq
  <2> DEFINE rest == SubSeq(text, n + 1, Len(text))
  <2>3. \A i \in (n + 1) .. Len(text) : text[i] \in Tokens
    BY <1>2, <2>1, ElementOfSeq
  <2>4. /\ rest \in Seq(Tokens) /\ Len(rest) = Len(b)
        /\ \A i \in 1 .. Len(b) : rest[i] = text[n + i]
    BY <1>2, <2>1, <2>3, SubSeqProperties
  <2> HIDE DEF rest
  <2>5. rest = b
    BY <2>1, <2>2, <2>4, SeqEqual
  <2>6. QED
    BY <2>5 DEF rest
<1>8. Cut(text, separator) = [found |-> TRUE, left |-> a, right |-> b]
  <2>1. n # 0
    BY <1>2
  <2> HIDE DEF n
  <2>2. QED
    BY <2>1, <1>6, <1>7, <1>5 DEF Cut, SelectInSeq
<1>9. QED
  BY <1>8 DEF text, c, one

\* Where the path of a reference leads: the registry and the repository.
Place(path) ==
    LET cut == Cut(path, "/")
    IN IF cut.found /\ Contains(cut.left, ".")
       THEN [registry |-> cut.left, repository |-> cut.right]
       ELSE [registry |-> DockerIO, repository |-> path]

Unmarked(text) == \A mark \in {":", "@"} : ~Contains(text, mark)

\* A path and a tag, a path and a digest, and all three.
LEMMA TaggedParses ==
  ASSUME NEW path \in Texts, NEW tag \in Texts, Unmarked(path), ~Contains(tag, "@")
  PROVE  LET text == path \o <<":">> \o tag
         IN /\ text \in Texts /\ ~Contains(text, "@")
            /\ ParseImageReference(text) =
                  [registry |-> Place(path).registry, repository |-> Place(path).repository,
                   tag |-> tag, digest |-> <<>>]
<1> DEFINE one == <<":">>
           text == path \o one \o tag
<1>1. one \in Texts /\ ~Contains(one, "@")
  BY TokensAreThere, OneContains
<1> HIDE DEF one
<1>2. path \o one \in Texts /\ ~Contains(path \o one, "@")
  BY <1>1, JoinedText, JoinedContains DEF Unmarked
<1>3. text \in Texts /\ ~Contains(text, "@")
  BY <1>2, JoinedText, JoinedContains
<1>4. Cut(text, "@") = [found |-> FALSE, left |-> text, right |-> <<>>]
  BY <1>3, CutMisses
<1>5. Cut(text, ":") = [found |-> TRUE, left |-> path, right |-> tag]
  BY CutUndoes, TokensAreThere DEF Unmarked, one
<1> HIDE DEF text
<1>6. ParseImageReference(text) =
          [registry |-> Place(path).registry, repository |-> Place(path).repository,
           tag |-> tag, digest |-> <<>>]
  BY <1>4, <1>5 DEF ParseImageReference, Place
<1>7. QED
  BY <1>3, <1>6 DEF text, one

LEMMA DigestedParses ==
  ASSUME NEW path \in Texts, NEW digest \in Texts, Unmarked(path)
  PROVE  ParseImageReference(path \o <<"@">> \o digest) =
            [registry |-> Place(path).registry, repository |-> Place(path).repository,
             tag |-> Latest, digest |-> digest]
<1> DEFINE text == path \o <<"@">> \o digest
<1>1. Cut(text, "@") = [found |-> TRUE, left |-> path, right |-> digest]
  BY CutUndoes, TokensAreThere DEF Unmarked
<1>2. Cut(path, ":") = [found |-> FALSE, left |-> path, right |-> <<>>]
  BY CutMisses DEF Unmarked
<1> HIDE DEF text
<1>3. ParseImageReference(text) =
          [registry |-> Place(path).registry, repository |-> Place(path).repository,
           tag |-> Latest, digest |-> digest]
  BY <1>1, <1>2 DEF ParseImageReference, Place
<1>4. QED
  BY <1>3 DEF text

LEMMA FullParses ==
  ASSUME NEW path \in Texts, NEW tag \in Texts, NEW digest \in Texts,
         Unmarked(path), ~Contains(tag, "@")
  PROVE  ParseImageReference(path \o <<":">> \o tag \o (<<"@">> \o digest)) =
            [registry |-> Place(path).registry, repository |-> Place(path).repository,
             tag |-> tag, digest |-> digest]
<1> DEFINE tagged == path \o <<":">> \o tag
           text == tagged \o <<"@">> \o digest
<1>1. tagged \in Texts /\ ~Contains(tagged, "@")
  BY TaggedParses
<1>2. Cut(tagged, ":") = [found |-> TRUE, left |-> path, right |-> tag]
  BY CutUndoes, TokensAreThere DEF Unmarked
<1> HIDE DEF tagged
<1>3. Cut(text, "@") = [found |-> TRUE, left |-> tagged, right |-> digest]
  BY <1>1, CutUndoes, TokensAreThere
<1>4. text = tagged \o (<<"@">> \o digest)
  BY <1>1, TokensAreThere, ConcatAssociative DEF Texts
<1> HIDE DEF text
<1>5. ParseImageReference(text) =
          [registry |-> Place(path).registry, repository |-> Place(path).repository,
           tag |-> tag, digest |-> digest]
  BY <1>2, <1>3 DEF ParseImageReference, Place
<1>6. QED
  BY <1>4, <1>5 DEF tagged

\* What the parsers fill in: texts, a repository and a tag, and the reference that goes with
\* them.
Built(q) ==
    /\ {q.registry, q.repository, q.tag, q.digest} \subseteq Texts
    /\ q.repository # <<>> /\ q.tag # <<>>
    /\ \/ q.ref = Reference(q.registry, q.repository, q.tag)
       \/ q.registry = DockerIO /\ q.ref = q.repository \o <<":">> \o q.tag

\* A path that leads where a request says.
Fits(path, q) ==
    /\ path \in Texts /\ Unmarked(path)
    /\ Place(path) = [registry |-> q.registry, repository |-> q.repository]

LEMMA PathsFit ==
  ASSUME NEW q, Built(q), WellNamed(q)
  PROVE  /\ Fits(q.registry \o <<"/">> \o q.repository, q)
         /\ q.registry = DockerIO => Fits(q.repository, q)
<1> DEFINE one == <<"/">>
           host == q.registry
           path == host \o one \o q.repository
<1>1. /\ host \in Texts /\ q.repository \in Texts
      /\ Contains(host, ".") /\ ~Contains(host, "/")
      /\ Unmarked(host) /\ Unmarked(q.repository)
  BY DEF Built, WellNamed, Unmarked
<1>2. Cut(path, "/") = [found |-> TRUE, left |-> host, right |-> q.repository]
  BY <1>1, CutUndoes, TokensAreThere
<1>3. one \in Texts /\ Unmarked(one)
  BY TokensAreThere, OneContains DEF Unmarked
<1> HIDE DEF one, host
<1>4. host \o one \in Texts /\ Unmarked(host \o one)
  BY <1>1, <1>3, JoinedText, JoinedContains DEF Unmarked
<1>5. path \in Texts /\ Unmarked(path)
  BY <1>1, <1>4, JoinedText, JoinedContains DEF Unmarked
<1> HIDE DEF path
<1>6. Fits(path, q)
  BY <1>1, <1>2, <1>5 DEF Fits, Place, host
<1>7. q.registry = DockerIO => Fits(q.repository, q)
  BY <1>1 DEF Fits, Place, WellNamed
<1>8. QED
  BY <1>6, <1>7 DEF path, one, host

\* The three forms of the reference of a request say what the request says.
LEMMA FormsAgree ==
  ASSUME NEW q, Built(q), WellNamed(q)
  PROVE  LET normal == NormalizeImageReference(q.registry, q.repository, q.tag, q.digest)
             parts == ParseImageReference(q.ref)
             byDigest == ParseImageReference(FormatImageRef(q))
         IN /\ parts = [registry |-> q.registry, repository |-> q.repository,
                        tag |-> q.tag, digest |-> <<>>]
            /\ ParseImageReference(normal) = [parts EXCEPT !.digest =
                   IF q.digest = <<>> THEN <<>> ELSE WithPrefix(q.digest)]
            /\ byDigest = [parts EXCEPT !.tag = IF q.digest = <<>> THEN @ ELSE Latest,
                                        !.digest = q.digest]
            /\ ValidateImageReference(normal)
<1> DEFINE long == q.registry \o <<"/">> \o q.repository
           Parts(tag, digest) == [registry |-> q.registry, repository |-> q.repository,
                                  tag |-> tag, digest |-> digest]
<1>1. /\ q.registry \in Texts /\ q.repository \in Texts /\ q.tag \in Texts /\ q.digest \in Texts
      /\ q.repository # <<>> /\ q.tag # <<>> /\ ~Contains(q.tag, "@") /\ q.registry # <<>>
  BY DEF Built, WellNamed, Contains
<1>2. Fits(long, q) /\ (q.registry = DockerIO => Fits(q.repository, q))
  BY PathsFit
<1>3. PICK path : Fits(path, q) /\ q.ref = path \o <<":">> \o q.tag
  BY <1>2 DEF Built, Reference
<1>4. PICK base : /\ Fits(base, q)
                  /\ NormalizeImageReference(q.registry, q.repository, q.tag, q.digest) =
                        base \o <<":">> \o q.tag
                        \o (IF q.digest = <<>> THEN <<>> ELSE <<"@">> \o WithPrefix(q.digest))
  BY <1>1, <1>2 DEF NormalizeImageReference
<1> HIDE DEF long
<1>5. /\ ~Contains(q.ref, "@") /\ ParseImageReference(q.ref) = Parts(q.tag, <<>>)
      /\ Cut(q.ref, ":").left = path
  <2>1. path \in Texts /\ Unmarked(path)
    BY <1>3 DEF Fits
  <2>2. ~Contains(q.ref, "@") /\ ParseImageReference(q.ref) = Parts(q.tag, <<>>)
    BY <1>1, <1>3, <2>1, TaggedParses DEF Fits
  <2>3. Cut(q.ref, ":") = [found |-> TRUE, left |-> path, right |-> q.tag]
    BY <1>1, <1>3, <2>1, CutUndoes, TokensAreThere DEF Unmarked
  <2>4. QED
    BY <2>2, <2>3
<1>6. ParseImageReference(FormatImageRef(q)) =
          Parts(IF q.digest = <<>> THEN q.tag ELSE Latest, q.digest)
  BY <1>1, <1>3, <1>5, DigestedParses DEF FormatImageRef, Fits
<1>7. ParseImageReference(NormalizeImageReference(q.registry, q.repository, q.tag, q.digest)) =
          Parts(q.tag, IF q.digest = <<>> THEN <<>> ELSE WithPrefix(q.digest))
  <2> DEFINE tagged == base \o <<":">> \o q.tag
  <2>1. tagged \in Texts /\ ParseImageReference(tagged) = Parts(q.tag, <<>>)
    BY <1>1, <1>4, TaggedParses DEF Fits
  <2>2. tagged \o <<>> = tagged
    BY <2>1, ConcatEmptySeq DEF Texts
  <2>3. WithPrefix(q.digest) \in Texts
    BY <1>1, TokensAreThere, JoinedText DEF WithPrefix
  <2>4. ParseImageReference(tagged \o (<<"@">> \o WithPrefix(q.digest))) =
            Parts(q.tag, WithPrefix(q.digest))
    BY <1>1, <1>4, <2>3, FullParses DEF Fits
  <2> HIDE DEF tagged
  <2>5. QED
    BY <1>4, <2>1, <2>2, <2>4 DEF tagged
<1> DEFINE normal == NormalizeImageReference(q.registry, q.repository, q.tag, q.digest)
<1>8. normal # <<>>
  <2> DEFINE rest == IF q.digest = <<>> THEN <<>> ELSE <<"@">> \o WithPrefix(q.digest)
             tagged == base \o <<":">> \o q.tag
  <2>1. rest \in Texts /\ tagged \in Texts
    BY <1>1, <1>4, TokensAreThere, JoinedText DEF WithPrefix, Fits
  <2>2. tagged # <<>>
    BY <1>1, <1>4, TokensAreThere, JoinedText, ConcatSimplifications DEF Fits, Texts
  <2> HIDE DEF tagged, rest
  <2>3. tagged \o rest # <<>>
    BY <2>1, <2>2, ConcatSimplifications DEF Texts
  <2>4. QED
    BY <1>4, <2>3 DEF tagged, rest
<1> HIDE DEF normal
<1>9. ValidateImageReference(normal)
  BY <1>1, <1>7, <1>8 DEF ValidateImageReference, normal
<1> DEFINE parts == Parts(q.tag, <<>>)
<1>10. /\ \A d : [parts EXCEPT !.digest = d] = Parts(q.tag, d)
       /\ [parts EXCEPT !.tag = IF q.digest = <<>> THEN @ ELSE Latest, !.digest = q.digest] =
              Parts(IF q.digest = <<>> THEN q.tag ELSE Latest, q.digest)
  <2>1. \A d : [parts EXCEPT !.digest = d] = Parts(q.tag, d)
    OBVIOUS
  <2>2. parts.tag = q.tag
    OBVIOUS
  <2>3. ASSUME NEW t, NEW d
        PROVE  [parts EXCEPT !.tag = t, !.digest = d] = Parts(t, d)
    <3> DEFINE e == [parts EXCEPT !.tag = t, !.digest = d]
    <3>1. /\ DOMAIN e = DOMAIN parts /\ e = [f \in DOMAIN e |-> e[f]]
          /\ e["registry"] = parts["registry"] /\ e["repository"] = parts["repository"]
          /\ e["tag"] = t /\ e["digest"] = d
      OBVIOUS
    <3>2. /\ DOMAIN parts = {"registry", "repository", "tag", "digest"}
          /\ parts["registry"] = q.registry /\ parts["repository"] = q.repository
      OBVIOUS
    <3> HIDE DEF e, parts
    <3>3. QED
      BY <3>1, <3>2
  <2> HIDE DEF parts, Parts
  <2>4. QED
    BY <2>1, <2>2, <2>3
<1> HIDE DEF Parts
<1>11. /\ ParseImageReference(normal) = [parts EXCEPT !.digest =
              IF q.digest = <<>> THEN <<>> ELSE WithPrefix(q.digest)]
       /\ ParseImageReference(FormatImageRef(q)) =
              [parts EXCEPT !.tag = IF q.digest = <<>> THEN @ ELSE Latest, !.digest = q.digest]
  <2>1. ParseImageReference(normal) = [parts EXCEPT !.digest =
            IF q.digest = <<>> THEN <<>> ELSE WithPrefix(q.digest)]
    BY <1>7, <1>10, Zenon DEF normal
  <2>2. ParseImageReference(FormatImageRef(q)) =
            [parts EXCEPT !.tag = IF q.digest = <<>> THEN @ ELSE Latest, !.digest = q.digest]
    BY <1>6, <1>10, Zenon
  <2>3. QED
    BY <2>1, <2>2
<1>12. QED
  BY <1>5, <1>9, <1>11, Zenon DEF normal, Parts

--------------------------------------------------------------------------------
(* The webhook: the requests that the parsers build *)

\* A finite set of numbers has a k-th element: the ranks of its elements are all there.
LEMMA NthIsThere ==
  ASSUME NEW S \in SUBSET Nat, IsFiniteSet(S), NEW k \in 1 .. Cardinality(S)
  PROVE  Nth(k, S) \in S
<1> DEFINE n == Cardinality(S)
           UpTo(i) == {j \in S : j <= i}
           rank == [i \in S |-> Cardinality(UpTo(i))]
<1>1. n \in Nat /\ IsFiniteSet(1 .. n) /\ Cardinality(1 .. n) = n
  BY FS_CardinalityType, FS_Interval
<1>2. ASSUME NEW i \in S
      PROVE  IsFiniteSet(UpTo(i)) /\ Cardinality(UpTo(i)) \in 1 .. n
  <2>1. UpTo(i) \subseteq S /\ UpTo(i) # {}
    OBVIOUS
  <2> HIDE DEF UpTo
  <2>2. /\ IsFiniteSet(UpTo(i)) /\ Cardinality(UpTo(i)) <= n
        /\ Cardinality(UpTo(i)) \in Nat /\ Cardinality(UpTo(i)) # 0
    BY <2>1, FS_Subset, FS_CardinalityType, FS_EmptySet
  <2>3. QED
    BY <1>1, <2>2
<1>3. ASSUME NEW i \in S, NEW j \in S, i < j
      PROVE  Cardinality(UpTo(i)) # Cardinality(UpTo(j))
  <2>1. UpTo(i) \subseteq UpTo(j) /\ j \in UpTo(j) /\ j \notin UpTo(i)
    <3>1. i \in Nat /\ j \in Nat /\ \A m \in S : m \in Nat
      OBVIOUS
    <3>2. j <= j /\ ~(j <= i) /\ \A m \in S : m <= i => m <= j
      BY <1>3, <3>1
    <3>3. QED
      BY <3>2
  <2> HIDE DEF UpTo
  <2>2. IsFiniteSet(UpTo(j)) /\ UpTo(i) # UpTo(j)
    BY <1>2, <2>1
  <2>3. QED
    BY <2>1, <2>2, FS_Subset
<1>4. rank \in Injection(S, 1 .. n)
  <2>1. rank \in [S -> 1 .. n]
    BY <1>2
  <2>2. ASSUME NEW i \in S, NEW j \in S, rank[i] = rank[j]
        PROVE  i = j
    <3>1. i \in Nat /\ j \in Nat /\ ~(i < j) /\ ~(j < i)
      BY <1>3, <2>2
    <3>2. QED
      BY <3>1
  <2> HIDE DEF rank
  <2>3. QED
    BY <2>1, <2>2 DEF Injection, IsInjective
<1>5. rank \in Surjection(S, 1 .. n)
  BY <1>1, <1>4, FS_Injection
<1>6. PICK i \in S : rank[i] = k
  BY <1>5 DEF Surjection
<1>7. \E m \in S : Cardinality({j \in S : j <= m}) = k
  BY <1>6
<1>8. QED
  BY <1>7 DEF Nth

LEMMA TrimmedText ==
  ASSUME NEW text \in Texts, NEW prefix \in Texts
  PROVE  TrimPrefix(text, prefix) \in Texts
<1>1. Len(text) \in Nat /\ Len(prefix) \in Nat
  BY LenProperties DEF Texts
<1>2. \A i \in (Len(prefix) + 1) .. Len(text) : text[i] \in Tokens
  BY <1>1, ElementOfSeq DEF Texts
<1>3. SubSeq(text, Len(prefix) + 1, Len(text)) \in Texts
  BY <1>1, <1>2, SubSeqProperties DEF Texts
<1>4. QED
  BY <1>3 DEF TrimPrefix

LEMMA HostsAreTexts ==
  ASSUME NEW url \in Texts, NEW default \in Texts
  PROVE  Host(url, default) \in Texts
<1>1. <<"https://">> \in Texts /\ <<"http://">> \in Texts
  BY IntakeAssumption DEF Texts
<1>2. QED
  BY <1>1, TrimmedText DEF Host

LEMMA DockerHubBuilds ==
  ASSUME NEW p, {p.repository, p.tag} \subseteq Texts, NEW i \in DOMAIN ParseDockerHub(p)
  PROVE  Built(ParseDockerHub(p)[i])
<1> DEFINE q == Request(p.repository \o <<":">> \o p.tag, "dockerhub", DockerIO,
                        p.repository, p.tag, <<>>)
<1>1. ParseDockerHub(p) = <<q>> /\ p.repository # <<>> /\ p.tag # <<>> /\ i = 1
  BY DEF ParseDockerHub
<1>2. /\ q.ref = p.repository \o <<":">> \o p.tag /\ q.registry = DockerIO
      /\ q.repository = p.repository /\ q.tag = p.tag /\ q.digest = <<>>
  BY DEF Request
<1> HIDE DEF q
<1>3. Built(q)
  BY <1>1, <1>2, TokensAreThere DEF Built
<1>4. QED
  BY <1>1, <1>3

LEMMA HarborBuilds ==
  ASSUME NEW p, p.kind = "harbor", Decoded(p), NEW url \in Texts,
         NEW i \in DOMAIN ParseHarbor(p, url)
  PROVE  Built(ParseHarbor(p, url)[i])
<1> DEFINE host == Host(url, <<"harbor", ".", "local">>)
           of(resource) == Request(Reference(host, p.repository, resource.tag), "harbor", host,
                                   p.repository, resource.tag, resource.digest)
           S == Tagged(p)
           r == p.resources[Nth(i, S)]
<1>1. /\ i \in 1 .. Cardinality(S) /\ p.repository # <<>>
      /\ ParseHarbor(p, url)[i] = of(r)
  BY DEF ParseHarbor
<1>2. Nth(i, S) \in S
  <2>1. S \subseteq 1 .. Len(p.resources) /\ Len(p.resources) \in Nat
    BY DEF Tagged, Decoded
  <2> HIDE DEF S
  <2>2. IsFiniteSet(1 .. Len(p.resources)) /\ 1 .. Len(p.resources) \subseteq Nat
    BY <2>1, FS_Interval
  <2>3. IsFiniteSet(S) /\ S \in SUBSET Nat
    BY <2>1, <2>2, FS_Subset
  <2>4. QED
    BY <1>1, <2>3, NthIsThere
<1>3. r.tag # <<>> /\ {r.tag, r.digest, p.repository} \subseteq Texts
  BY <1>2 DEF Tagged, Decoded
<1>4. host \in Texts
  <2>1. <<"harbor", ".", "local">> \in Texts
    BY IntakeAssumption, TokensAssumption DEF Texts
  <2>2. QED
    BY <2>1, HostsAreTexts
<1> HIDE DEF host, r
<1>5. /\ of(r).ref = Reference(host, p.repository, r.tag) /\ of(r).registry = host
      /\ of(r).repository = p.repository /\ of(r).tag = r.tag /\ of(r).digest = r.digest
  BY DEF Request
<1> HIDE DEF of
<1>6. Built(of(r))
  BY <1>1, <1>3, <1>4, <1>5 DEF Built
<1>7. QED
  BY <1>1, <1>6

\* The tag of a push to GitLab is that of the reference, or the commit: without either the
\* parser panics.
LEMMA GitLabBuilds ==
  ASSUME NEW p, p.kind = "gitlab", Decoded(p), ~SliceOutOfRange(p), NEW url \in Texts,
         NEW i \in DOMAIN ParseGitLab(p, url)
  PROVE  Built(ParseGitLab(p, url)[i])
<1> DEFINE host == Host(url, <<"registry", ".", "gitlab", ".", "com">>)
           tag == IF NeedsCommit(p) THEN p.after ELSE GitTag(p)
           q == Request(Reference(host, p.project, tag), "gitlab", host, p.project, tag, <<>>)
<1>1. ParseGitLab(p, url) = <<q>> /\ p.event = "push" /\ p.project # <<>> /\ i = 1
  BY DEF ParseGitLab
<1>2. {p.project, p.ref, p.after} \subseteq Texts
  BY DEF Decoded
<1>3. tag \in Texts /\ tag # <<>>
  <2>1. <<"refs/", "tags/">> \in Texts
    BY IntakeAssumption DEF Texts
  <2>2. GitTag(p) \in Texts
    BY <1>2, <2>1, TrimmedText DEF GitTag
  <2>3. NeedsCommit(p) => p.after # <<>>
    BY <1>1 DEF SliceOutOfRange
  <2>4. ~NeedsCommit(p) => GitTag(p) # <<>>
    BY DEF NeedsCommit
  <2>5. QED
    BY <1>2, <2>2, <2>3, <2>4
<1>4. host \in Texts
  <2>1. <<"registry", ".", "gitlab", ".", "com">> \in Texts
    BY IntakeAssumption, TokensAssumption DEF Texts
  <2>2. QED
    BY <2>1, HostsAreTexts
<1> HIDE DEF host, tag
<1>5. /\ q.ref = Reference(host, p.project, tag) /\ q.registry = host
      /\ q.repository = p.project /\ q.tag = tag /\ q.digest = <<>>
  BY DEF Request
<1> HIDE DEF q
<1>6. Built(q)
  BY <1>1, <1>2, <1>3, <1>4, <1>5, TokensAreThere DEF Built
<1>7. QED
  BY <1>1, <1>6

\* The parser that was picked is one of a registry, and what it returned it has built.
BuiltSoFar ==
    /\ parser.url \in Texts
    /\ stage = "parsing" => parser.type \in RegistryTypes
    /\ \A i \in DOMAIN requests : Built(requests[i])

LEMMA BuiltFromStart == IntakeInit => BuiltSoFar
<1> SUFFICES ASSUME IntakeInit
             PROVE  BuiltSoFar
  OBVIOUS
<1>1. parser.url = <<>> /\ stage = "authenticating" /\ requests = <<>>
  BY DEF IntakeInit, NoParser
<1>2. DOMAIN requests = {}
  BY <1>1
<1>3. QED
  BY <1>1, <1>2, TokensAreThere DEF BuiltSoFar

LEMMA BuiltByParse ==
  ASSUME IntakeTypeOK, BuiltSoFar, Parse
  PROVE  BuiltSoFar'
<1> DEFINE p == webhook.payload
           returned == IF Readable /\ ~Panics(p) THEN Parsed(p) ELSE <<>>
<1>1. /\ stage = "parsing" /\ stage' # "parsing"
      /\ requests' = returned /\ UNCHANGED parser
  BY DEF Parse
<1>2. Decoded(p) /\ parser.url \in Texts /\ parser.type \in RegistryTypes
  BY <1>1, IntakeAssumption DEF IntakeTypeOK, BuiltSoFar
<1>3. ASSUME NEW i \in DOMAIN returned
      PROVE  Built(returned[i])
  <2>0. returned # <<>>
    BY <1>3
  <2>1. returned = Parsed(p) /\ ~Panics(p) /\ p.kind = parser.type
    BY <2>0 DEF Parsed
  <2>2. CASE p.kind = "dockerhub"
    BY <1>2, <1>3, <2>1, <2>2, DockerHubBuilds DEF Parsed, Decoded
  <2>3. CASE p.kind = "harbor"
    BY <1>2, <1>3, <2>1, <2>3, HarborBuilds DEF Parsed
  <2>4. CASE p.kind = "gitlab"
    BY <1>2, <1>3, <2>1, <2>4, GitLabBuilds DEF Parsed, Panics
  <2>5. QED
    BY <1>2, <2>1, <2>2, <2>3, <2>4 DEF RegistryTypes
<1> HIDE DEF returned
<1>4. \A i \in DOMAIN requests' : Built(requests'[i])
  BY <1>1, <1>3
<1>5. QED
  BY <1>1, <1>2, <1>4 DEF BuiltSoFar, Built

LEMMA BuiltByOthers ==
  ASSUME IntakeTypeOK, BuiltSoFar, TryRegistry \/ Decide \/ PickParser \/ UNCHANGED intakeVars
  PROVE  BuiltSoFar'
<1>1. UNCHANGED requests
  BY DEF TryRegistry, Decide, PickParser, intakeVars
<1>2. \A i \in DOMAIN requests' : Built(requests'[i])
  BY <1>1 DEF BuiltSoFar
<1>3. CASE PickParser
  <2>1. CASE UNCHANGED parser /\ stage' = "refused"
    BY <1>2, <2>1 DEF BuiltSoFar, Built
  <2>2. ASSUME NEW i \in DOMAIN cfg.registries, parser' = ParserOf(cfg.registries[i])
        PROVE  BuiltSoFar'
    <3>1. cfg.registries[i].url \in Texts /\ cfg.registries[i].type \in RegistryTypes
      BY IntakeAssumption DEF IntakeTypeOK, Validate
    <3>2. parser'.url \in Texts /\ parser'.type \in RegistryTypes
      BY <2>2, <3>1 DEF ParserOf
    <3>3. QED
      BY <1>2, <3>2 DEF BuiltSoFar, Built
  <2>3. QED
    BY <1>3, <2>1, <2>2 DEF PickParser
<1>4. CASE TryRegistry \/ Decide \/ UNCHANGED intakeVars
  <2>1. UNCHANGED parser /\ (stage' = "parsing" => stage = "parsing")
    BY <1>4 DEF TryRegistry, Decide, intakeVars
  <2>2. QED
    BY <1>2, <2>1 DEF BuiltSoFar, Built
<1>5. QED
  BY <1>3, <1>4

\* What a scanner pulls is what the request says: for every payload whose names are as
\* registries allow them, the reference, its normal form and its form by digest lead to the
\* registry, the repository and the tag or digest next to them.
THEOREM ReferencesAgree == IntakeSpec => []ReferenceAgrees
<1>1. IntakeTypeOK /\ BuiltSoFar /\ [IntakeNext]_intakeVars => BuiltSoFar'
  BY BuiltByParse, BuiltByOthers DEF IntakeNext
<1>2. BuiltSoFar => ReferenceAgrees
  BY FormsAgree DEF BuiltSoFar, ReferenceAgrees
<1>3. IntakeSafe => IntakeTypeOK
  BY DEF IntakeSafe
<1>4. QED
  BY <1>1, <1>2, <1>3, BuiltFromStart, IntakeInvariant, PTL DEF IntakeSpec
================================================================================
