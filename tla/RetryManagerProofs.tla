--------------------------- MODULE RetryManagerProofs ---------------------------
(***************************************************************************)
(* Proofs about the retries of RetryManager, for any number of jobs, retries   *)
(* and workers and any backoff.  What is inductive is that the wait of a job    *)
(* is the one its count asks for; that it is capped and that it grows follow,   *)
(* if the products fit into a duration.                                      *)
(***************************************************************************)
EXTENDS RetryManager, FiniteSetTheorems, SequenceTheorems, TLAPS

--------------------------------------------------------------------------------
(* The product of the backoff, a recursive function *)

\* Every set of natural numbers that has an element has a least one.
LEMMA LeastElement ==
  ASSUME NEW T \in SUBSET Nat, T # {}
  PROVE  \E n \in T : \A m \in T : n <= m
<1>1. \E n \in T : \A m \in T : ~(<<m, n>> \in OpToRel(<, Nat))
  BY WFMin, NatLessThanWellFounded, Zenon
<1>2. PICK n \in T : \A m \in T : ~(<<m, n>> \in OpToRel(<, Nat))
  BY <1>1, Zenon
<1>3. ASSUME NEW m \in T, m < n
      PROVE  FALSE
  <2>1. <<m, n>> \in OpToRel(<, Nat)
    BY <1>3, Zenon DEF OpToRel
  <2>2. QED
    BY <1>2, <2>1, Zenon
<1>4. QED
  BY <1>3

Fractions == [num : Nat, den : Nat \ {0}]
Initially == [num |-> InitialBackoff, den |-> 1]
Times(x) == [num |-> x.num * Numerator, den |-> x.den * Denominator]

\* The product after count runs of the loop is that after one run less, multiplied.
Multiplied(f, count) == f[count] = IF count <= 1 THEN Initially ELSE Times(f[count - 1])

\* A table of the products up to n.
Table(f, n) == f \in [0 .. n -> Fractions] /\ \A k \in 0 .. n : Multiplied(f, k)

LEMMA FractionFacts ==
  /\ Initially \in Fractions
  /\ \A x \in Fractions : Times(x) \in Fractions
<1>1. Initially \in Fractions
  BY RetryAssumption DEF Initially, Fractions
<1>2. ASSUME NEW x \in Fractions
      PROVE  Times(x) \in Fractions
  <2>1. x.num \in Nat /\ x.den \in Nat \ {0} /\ Numerator \in Nat /\ Denominator \in Nat \ {0}
    BY RetryAssumption DEF Fractions
  <2>2. x.num * Numerator \in Nat /\ x.den * Denominator \in Nat \ {0}
    BY <2>1
  <2>3. QED
    BY <2>2 DEF Times, Fractions
<1>3. QED
  BY <1>1, <1>2

LEMMA TablesExist == \A n \in Nat : \E f : Table(f, n)
<1> DEFINE T == {n \in Nat : ~\E f : Table(f, n)}
<1> SUFFICES ASSUME T # {}
             PROVE  FALSE
  OBVIOUS
<1>1. PICK n \in T : \A m \in T : n <= m
  BY LeastElement
<1>2. n \in Nat /\ ~\E f : Table(f, n)
  OBVIOUS
<1>3. CASE n = 0
  <2>1. Table([k \in 0 .. 0 |-> Initially], 0)
    BY FractionFacts DEF Table, Multiplied
  <2>2. QED
    BY <1>2, <1>3, <2>1
<1>4. CASE n # 0
  <2>1. n - 1 \in Nat /\ n - 1 \notin T
    BY <1>1, <1>2, <1>4
  <2>2. PICK f : Table(f, n - 1)
    BY <2>1
  <2> DEFINE last == IF n <= 1 THEN Initially ELSE Times(f[n - 1])
             g == [k \in 0 .. n |-> IF k = n THEN last ELSE f[k]]
  <2>3. last \in Fractions
    BY <1>2, <2>1, <2>2, FractionFacts DEF Table
  <2>4. g \in [0 .. n -> Fractions]
    BY <1>2, <2>1, <2>2, <2>3 DEF Table
  <2>5. ASSUME NEW k \in 0 .. n
        PROVE  Multiplied(g, k)
    <3>1. CASE k = n
      BY <1>2, <3>1 DEF Multiplied
    <3>2. CASE k # n
      <4>1. k \in 0 .. (n - 1) /\ g[k] = f[k] /\ (k > 1 => g[k - 1] = f[k - 1])
        BY <1>2, <3>2
      <4>2. QED
        BY <2>2, <4>1 DEF Table, Multiplied
    <3>3. QED
      BY <3>1, <3>2
  <2>6. Table(g, n)
    BY <2>4, <2>5 DEF Table
  <2>7. QED
    BY <1>2, <2>6
<1>5. QED
  BY <1>3, <1>4

LEMMA TablesAgree ==
  ASSUME NEW n \in Nat, NEW m \in Nat, n <= m, NEW f, Table(f, n), NEW g, Table(g, m)
  PROVE  f[n] = g[n]
<1> DEFINE T == {k \in Nat : k <= n /\ f[k] # g[k]}
<1> SUFFICES ASSUME T # {}
             PROVE  FALSE
  OBVIOUS
<1>1. PICK k \in T : \A l \in T : k <= l
  BY LeastElement
<1>2. k \in 0 .. n /\ k \in 0 .. m /\ f[k] # g[k]
  OBVIOUS
<1>3. Multiplied(f, k) /\ Multiplied(g, k)
  BY <1>2, Zenon DEF Table
<1>4. k > 1 => f[k - 1] = g[k - 1]
  <2>1. k > 1 => k - 1 \in Nat /\ k - 1 <= n /\ k - 1 \notin T
    BY <1>1, <1>2
  <2>2. QED
    BY <2>1
<1>5. k <= 1 \/ k > 1
  BY <1>2
<1>6. QED
  BY <1>2, <1>3, <1>4, <1>5, Zenon DEF Multiplied

\* The recursive definition of Product defines a function: the loop of calculateBackoff.
LEMMA ProductUnfolds ==
  ASSUME NEW n \in Nat
  PROVE  Product[n] \in Fractions /\ Multiplied(Product, n)
<1> DEFINE table(k) == CHOOSE f : Table(f, k)
           p == [k \in Nat |-> table(k)[k]]
<1>1. \A k \in Nat : Table(table(k), k)
  BY TablesExist
<1>2. ASSUME NEW k \in Nat
      PROVE  p[k] \in Fractions /\ Multiplied(p, k)
  <2>1. table(k)[k] \in Fractions /\ Multiplied(table(k), k)
    <3>1. k \in 0 .. k
      OBVIOUS
    <3> HIDE DEF table
    <3>2. QED
      BY <1>1, <3>1 DEF Table
  <2>2. k > 1 => table(k)[k - 1] = table(k - 1)[k - 1]
    <3> SUFFICES ASSUME k > 1
                 PROVE  table(k)[k - 1] = table(k - 1)[k - 1]
      OBVIOUS
    <3>1. k - 1 \in Nat /\ k - 1 <= k
      OBVIOUS
    <3>2. Table(table(k - 1), k - 1) /\ Table(table(k), k)
      BY <1>1, <3>1
    <3> HIDE DEF table
    <3>3. QED
      BY <3>1, <3>2, TablesAgree
  <2> HIDE DEF table
  <2>3. QED
    BY <2>1, <2>2 DEF Multiplied
<1>3. p = [k \in Nat |-> IF k <= 1 THEN Initially ELSE Times(p[k - 1])]
  <2> HIDE DEF table
  <2>1. \A k \in Nat :
            p[k] = IF k <= 1 THEN Initially ELSE Times(p[k - 1])
    BY <1>2 DEF Multiplied
  <2>2. QED
    BY <2>1, Zenon
<1>4. Product = [k \in Nat |-> IF k <= 1 THEN Initially ELSE Times(Product[k - 1])]
  <2> HIDE DEF p
  <2>1. QED
    BY <1>3, Zenon DEF Product, Initially, Times
<1>5. ASSUME NEW k \in Nat
      PROVE  Multiplied(Product, k)
  BY <1>4, Zenon DEF Multiplied
<1> DEFINE T == {l \in Nat : Product[l] \notin Fractions}
<1>6. ASSUME NEW k \in Nat
      PROVE  Product[k] \in Fractions
  <2> SUFFICES ASSUME T # {}
               PROVE  FALSE
    OBVIOUS
  <2>1. PICK l \in T : \A m \in T : l <= m
    BY LeastElement
  <2>2. l \in Nat /\ Product[l] \notin Fractions /\ Multiplied(Product, l)
    BY <1>5
  <2>3. l > 1 => Product[l - 1] \in Fractions
    <3>1. l > 1 => l - 1 \in Nat /\ l - 1 \notin T
      BY <2>1, <2>2
    <3>2. QED
      BY <3>1
  <2>4. l <= 1 \/ l > 1
    BY <2>2
  <2>5. QED
    BY <2>2, <2>3, <2>4, FractionFacts, Zenon DEF Multiplied
<1>7. QED
  BY <1>5, <1>6

--------------------------------------------------------------------------------
(* The bounds of a duration, and what the cap makes of the product *)

LEMMA WidthBounds == Greatest \in Nat /\ Least \in Int /\ Least <= 0 /\ MaxBackoff <= Greatest
<1>1. 2 ^ (Width - 1) \in Int
  BY RetryAssumption, Z3
<1>2. QED
  BY <1>1, RetryAssumption DEF Greatest, Least

LEMMA Quotient ==
  ASSUME NEW a \in Nat, NEW b \in Nat \ {0}
  PROVE  a \div b \in Nat /\ (a \div b) * b <= a /\ a < (a \div b) * b + b
OBVIOUS

LEMMA ProductsOrdered ==
  ASSUME NEW a \in Nat, NEW b \in Nat, NEW c \in Nat, a <= b
  PROVE  a * c <= b * c
OBVIOUS

\* The quotient is the greatest number whose product is not above the dividend.
LEMMA QuotientIsGreatest ==
  ASSUME NEW a \in Nat, NEW b \in Nat \ {0}, NEW q \in Nat, q * b <= a
  PROVE  q <= a \div b
<1> DEFINE p == a \div b
<1>1. p \in Nat /\ a < p * b + b
  BY Quotient
<1> HIDE DEF p
<1>2. CASE p + 1 <= q
  <2>1. (p + 1) * b <= q * b
    BY <1>1, <1>2, ProductsOrdered
  <2>2. (p + 1) * b = p * b + b /\ p * b \in Nat /\ q * b \in Nat
    BY <1>1
  <2>3. QED
    BY <1>1, <2>1, <2>2
<1>3. QED
  BY <1>1, <1>2 DEF p

\* Multiplying by a fraction of one or more does not make the quotient less.
LEMMA QuotientGrows ==
  ASSUME NEW a \in Nat, NEW b \in Nat \ {0}, NEW n \in Nat, NEW d \in Nat \ {0}, d <= n
  PROVE  a \div b <= (a * n) \div (b * d)
<1> DEFINE q == a \div b
<1>1. q \in Nat /\ q * b <= a
  BY Quotient
<1> HIDE DEF q
<1>2. q * b \in Nat /\ a * n \in Nat /\ b * d \in Nat \ {0} /\ a * d \in Nat
  BY <1>1
<1>3. (q * b) * d <= a * d
  BY <1>1, <1>2, ProductsOrdered
<1>4. a * d <= a * n
  OBVIOUS
<1>5. q * (b * d) = (q * b) * d
  BY <1>1
<1>6. q * (b * d) <= a * n
  BY <1>1, <1>2, <1>3, <1>4, <1>5
<1>7. QED
  BY <1>1, <1>2, <1>6, QuotientIsGreatest DEF q

LEMMA TruncatedIsNat ==
  ASSUME NEW n \in Nat
  PROVE  Truncated(n) \in Nat
<1>1. Product[n].num \in Nat /\ Product[n].den \in Nat \ {0}
  BY ProductUnfolds DEF Fractions
<1>2. QED
  BY <1>1, Quotient DEF Truncated

\* The products of the retries that may be made fit into a duration.
BackoffFits == \A n \in 1 .. MaxRetries : Truncated(n) <= Greatest

\* What a conversion that fits yields: the product, or the cap.
CappedProduct(count) == IF Truncated(count) > MaxBackoff THEN MaxBackoff ELSE Truncated(count)

LEMMA BackoffIsDuration ==
  ASSUME NEW n \in Nat, NEW d \in CalculateBackoff(n)
  PROVE  d \in Least .. Greatest
<1>1. PICK x \in AsDuration(Truncated(n)) : d = IF x > MaxBackoff THEN MaxBackoff ELSE x
  BY DEF CalculateBackoff
<1>2. x \in Least .. Greatest
  BY TruncatedIsNat, WidthBounds DEF AsDuration
<1>3. QED
  BY <1>1, <1>2, WidthBounds, RetryAssumption

LEMMA BackoffThatFits ==
  ASSUME BackoffFits, NEW n \in 1 .. MaxRetries
  PROVE  CalculateBackoff(n) = {CappedProduct(n)} /\ CappedProduct(n) \in 0 .. MaxBackoff
<1>1. AsDuration(Truncated(n)) = {Truncated(n)}
  BY DEF AsDuration, BackoffFits
<1>2. Truncated(n) \in Nat
  BY TruncatedIsNat
<1>3. QED
  BY <1>1, <1>2, RetryAssumption DEF CalculateBackoff, CappedProduct

\* One retry more does not shorten the wait if the multiplier is at least one.
LEMMA BackoffIsMonotone ==
  ASSUME Numerator >= Denominator, NEW n \in Nat, n >= 1
  PROVE  CappedProduct(n) <= CappedProduct(n + 1)
<1>1. Product[n] \in Fractions /\ Multiplied(Product, n + 1)
  BY ProductUnfolds
<1>2. Product[n + 1] = Times(Product[n])
  BY <1>1 DEF Multiplied
<1>3. Truncated(n) <= Truncated(n + 1)
  <2>1. /\ Product[n].num \in Nat /\ Product[n].den \in Nat \ {0}
        /\ Numerator \in Nat /\ Denominator \in Nat \ {0}
    BY <1>1, RetryAssumption DEF Fractions
  <2>2. Truncated(n + 1) = (Product[n].num * Numerator) \div (Product[n].den * Denominator)
    BY <1>2 DEF Truncated, Times
  <2>3. QED
    BY <2>1, <2>2, QuotientGrows DEF Truncated
<1>4. Truncated(n) \in Nat /\ Truncated(n + 1) \in Nat
  BY TruncatedIsNat
<1>5. QED
  BY <1>3, <1>4, RetryAssumption DEF CappedProduct

--------------------------------------------------------------------------------
(* The queue of jobs *)

LEMMA JobJoins ==
  ASSUME NEW s \in Seq(Jobs), NEW j \in Jobs, IsInjective(s), j \notin Range(s)
  PROVE  /\ Append(s, j) \in Seq(Jobs) /\ IsInjective(Append(s, j))
         /\ Range(Append(s, j)) = Range(s) \cup {j}
<1> DEFINE a == Append(s, j)
<1>1. /\ a \in Seq(Jobs) /\ DOMAIN a = 1 .. (Len(s) + 1)
      /\ \A i \in 1 .. Len(s) : a[i] = s[i]
      /\ a[Len(s) + 1] = j
      /\ DOMAIN s = 1 .. Len(s) /\ Len(s) \in Nat
  OBVIOUS
<1> HIDE DEF a
<1>2. \A i \in 1 .. (Len(s) + 1) : i \in 1 .. Len(s) \/ i = Len(s) + 1
  BY <1>1
<1>3. IsInjective(a)
  BY <1>1, <1>2 DEF IsInjective, Range
<1>4. Range(a) = Range(s) \cup {j}
  BY <1>1, <1>2 DEF Range
<1>5. QED
  BY <1>1, <1>3, <1>4 DEF a

LEMMA JobLeaves ==
  ASSUME NEW s \in Seq(Jobs), s # <<>>, IsInjective(s)
  PROVE  /\ Tail(s) \in Seq(Jobs) /\ IsInjective(Tail(s)) /\ Head(s) \in Jobs
         /\ Range(Tail(s)) = Range(s) \ {Head(s)} /\ Len(Tail(s)) <= Len(s)
<1> DEFINE t == Tail(s)
<1>1. /\ t \in Seq(Jobs) /\ DOMAIN t = 1 .. (Len(s) - 1) /\ Len(t) = Len(s) - 1
      /\ \A i \in 1 .. (Len(s) - 1) : t[i] = s[i + 1]
      /\ Head(s) = s[1] /\ s[1] \in Jobs
      /\ DOMAIN s = 1 .. Len(s) /\ Len(s) \in Nat \ {0}
  OBVIOUS
<1> HIDE DEF t
<1>2. IsInjective(t)
  <2> SUFFICES ASSUME NEW i \in DOMAIN t, NEW k \in DOMAIN t, t[i] = t[k]
               PROVE  i = k
    BY DEF IsInjective
  <2>1. s[i + 1] = s[k + 1] /\ i + 1 \in DOMAIN s /\ k + 1 \in DOMAIN s
    BY <1>1
  <2>2. i + 1 = k + 1
    BY <2>1 DEF IsInjective
  <2>3. QED
    BY <1>1, <2>2
<1>3. Range(t) = Range(s) \ {s[1]}
  <2>1. ASSUME NEW i \in DOMAIN t
        PROVE  t[i] \in Range(s) \ {s[1]}
    <3>1. t[i] = s[i + 1] /\ i + 1 \in DOMAIN s /\ 1 \in DOMAIN s /\ i + 1 # 1
      BY <1>1
    <3>2. QED
      BY <3>1 DEF IsInjective, Range
  <2>2. ASSUME NEW i \in DOMAIN s, s[i] # s[1]
        PROVE  s[i] \in Range(t)
    <3>1. i - 1 \in DOMAIN t /\ t[i - 1] = s[i]
      BY <1>1, <2>2
    <3>2. QED
      BY <3>1 DEF Range
  <2>3. QED
    BY <2>1, <2>2 DEF Range
<1>4. QED
  BY <1>1, <1>2, <1>3 DEF t

\* What a step does to the queue and to the states: a job joins, or is refused, or leaves
\* for a worker, or the queue is as before and so is who is queued.
EnqueueHalf(j, from, to, refusal) ==
    EnqueueCheck(j, from, to, refusal) \/ EnqueueSend(j, to, refusal)

LEMMA EnqueueKeepsQueue ==
  ASSUME RetryTypeOK, NEW j \in Jobs, NEW from \in {"new", "sleeping"}, NEW to \in Entering,
         NEW refusal \in {"lost", "refused"}, EnqueueHalf(j, from, to, refusal)
  PROVE  /\ queue' \in Seq(Jobs) /\ IsInjective(queue') /\ Len(queue') <= Capacity
         /\ Range(queue') = {k \in Jobs : state'[k] = "queued"}
         /\ state' \in [Jobs -> JobStates]
<1>0. state[j] # "queued"
  BY DEF EnqueueHalf, EnqueueCheck, EnqueueSend, Entering
<1>1. /\ queue \in Seq(Jobs) /\ IsInjective(queue) /\ Len(queue) <= Capacity
      /\ Range(queue) = {k \in Jobs : state[k] = "queued"}
      /\ state \in [Jobs -> JobStates] /\ j \notin Range(queue)
  BY <1>0 DEF RetryTypeOK
<1>2. CASE Len(queue) < Capacity /\ queue' = Append(queue, j)
           /\ state' = [state EXCEPT ![j] = "queued"]
  <2>1. Range(queue') = Range(queue) \cup {j} /\ IsInjective(queue') /\ queue' \in Seq(Jobs)
    BY <1>1, <1>2, JobJoins
  <2>2. Len(queue') = Len(queue) + 1
    BY <1>1, <1>2
  <2>3. Range(queue') = {k \in Jobs : state'[k] = "queued"}
    BY <1>1, <1>2, <2>1
  <2>4. state' \in [Jobs -> JobStates]
    BY <1>1, <1>2 DEF JobStates
  <2>5. QED
    BY <1>1, <1>2, <2>1, <2>2, <2>3, <2>4, RetryAssumption
<1>3. ASSUME NEW s \in Entering \cup Settled, state' = [state EXCEPT ![j] = s], queue' = queue
      PROVE  /\ queue' \in Seq(Jobs) /\ IsInjective(queue') /\ Len(queue') <= Capacity
             /\ Range(queue') = {k \in Jobs : state'[k] = "queued"}
             /\ state' \in [Jobs -> JobStates]
  <2>1. s # "queued" /\ s \in JobStates
    BY DEF JobStates, Entering, Settled
  <2>2. QED
    BY <1>1, <1>3, <2>1
<1>4. to \in Entering \cup Settled /\ refusal \in Entering \cup Settled
      /\ "panicked" \in Entering \cup Settled
  BY DEF Settled
<1>5. CASE EnqueueCheck(j, from, to, refusal)
  <2>1. UNCHANGED queue /\ \E s \in {to, refusal} : state' = [state EXCEPT ![j] = s]
    BY <1>5 DEF EnqueueCheck
  <2>2. QED
    BY <1>3, <1>4, <2>1
<1>6. CASE EnqueueSend(j, to, refusal)
  <2>1. \/ Len(queue) < Capacity /\ queue' = Append(queue, j)
           /\ state' = [state EXCEPT ![j] = "queued"]
        \/ UNCHANGED queue /\ \E s \in {refusal, "panicked"} : state' = [state EXCEPT ![j] = s]
    BY <1>6 DEF EnqueueSend
  <2>2. QED
    BY <1>2, <1>3, <1>4, <2>1
<1>7. QED
  BY <1>5, <1>6 DEF EnqueueHalf

\* The types, which include that the queue and the states agree.
LEMMA RetryTypeKept == RetryTypeOK /\ [RetryNext]_retryVars => RetryTypeOK'
<1> SUFFICES ASSUME RetryTypeOK, [RetryNext]_retryVars
             PROVE  RetryTypeOK'
  OBVIOUS
<1>1. ASSUME NEW j \in Jobs, Submit(j)
      PROVE  RetryTypeOK'
  <2>1. EnqueueHalf(j, "new", "submitting", "refused")
        /\ UNCHANGED <<closed, err, retryCount, backoff, attempts>>
    BY <1>1 DEF Submit, EnqueueHalf, EnqueueCheck, EnqueueSend
  <2>2. QED
    BY <2>1, EnqueueKeepsQueue DEF RetryTypeOK, Entering
<1>2. ASSUME NEW j \in Jobs, Reenqueue(j)
      PROVE  RetryTypeOK'
  <2>1. EnqueueHalf(j, "sleeping", "returning", "lost")
        /\ UNCHANGED <<closed, err, retryCount, backoff, attempts>>
    BY <1>2 DEF Reenqueue, EnqueueHalf, EnqueueCheck, EnqueueSend
  <2>2. QED
    BY <2>1, EnqueueKeepsQueue DEF RetryTypeOK, Entering
<1>3. ASSUME NEW j \in Jobs, StartAttempt(j)
      PROVE  RetryTypeOK'
  <2>1. /\ queue \in Seq(Jobs) /\ queue # <<>> /\ IsInjective(queue) /\ Len(queue) <= Capacity
        /\ queue' = Tail(queue) /\ Head(queue) = j
        /\ state' = [state EXCEPT ![j] = "running"]
        /\ UNCHANGED <<closed, err, retryCount, backoff>>
    BY <1>3 DEF StartAttempt, RetryTypeOK
  <2>2. /\ queue' \in Seq(Jobs) /\ IsInjective(queue') /\ Len(queue') <= Len(queue)
        /\ Range(queue') = Range(queue) \ {j}
    BY <2>1, JobLeaves
  <2>3. Len(queue') <= Capacity
    BY <2>1, <2>2, RetryAssumption
  <2>4. Range(queue') = {k \in Jobs : state'[k] = "queued"} /\ state' \in [Jobs -> JobStates]
    BY <2>1, <2>2 DEF RetryTypeOK, JobStates
  <2>5. attempts' \in [Jobs -> Nat]
    BY <1>3 DEF StartAttempt, RetryTypeOK
  <2>6. QED
    BY <2>1, <2>2, <2>3, <2>4, <2>5 DEF RetryTypeOK
<1>4. ASSUME NEW j \in Jobs, NEW to \in JobStates \ {"queued"}, state[j] # "queued",
             state' = [state EXCEPT ![j] = to], UNCHANGED <<queue, closed, attempts>>,
             err' \in [Jobs -> Errors \cup {NoError}], retryCount' \in [Jobs -> 0 .. MaxRetries],
             backoff' \in [Jobs -> Least .. Greatest]
      PROVE  RetryTypeOK'
  <2>1. Range(queue') = {k \in Jobs : state'[k] = "queued"} /\ state' \in [Jobs -> JobStates]
    BY <1>4 DEF RetryTypeOK
  <2>2. QED
    BY <1>4, <2>1 DEF RetryTypeOK
<1>5. ASSUME NEW j \in Jobs, EndAttempt(j)
      PROVE  RetryTypeOK'
  <2>1. CASE AttemptSucceeds(j)
    BY <1>4, <2>1 DEF AttemptSucceeds, JobStates, Settled, RetryTypeOK
  <2>2. ASSUME NEW e \in Errors, AttemptFails(j, e)
        PROVE  RetryTypeOK'
    <3>1. err' \in [Jobs -> Errors \cup {NoError}]
      BY <2>2 DEF AttemptFails, RetryTypeOK
    <3>2. QED
      BY <1>4, <2>2, <3>1 DEF AttemptFails, JobStates, RetryTypeOK
  <2>3. QED
    BY <1>5, <2>1, <2>2 DEF EndAttempt
<1>6. ASSUME NEW j \in Jobs, GiveUp(j)
      PROVE  RetryTypeOK'
  BY <1>4, <1>6 DEF GiveUp, JobStates, Settled, RetryTypeOK
<1>7. ASSUME NEW j \in Jobs, ScheduleRetry(j)
      PROVE  RetryTypeOK'
  <2>1. retryCount[j] \in 0 .. MaxRetries /\ retryCount[j] < MaxRetries
    BY <1>7 DEF ScheduleRetry, ShouldRetry, RetryTypeOK
  <2>2. retryCount' \in [Jobs -> 0 .. MaxRetries] /\ retryCount'[j] \in Nat
    BY <1>7, <2>1, RetryAssumption DEF ScheduleRetry, RetryTypeOK
  <2>3. PICK d \in CalculateBackoff(retryCount'[j]) : backoff' = [backoff EXCEPT ![j] = d]
    BY <1>7 DEF ScheduleRetry
  <2>4. backoff' \in [Jobs -> Least .. Greatest]
    BY <2>2, <2>3, BackoffIsDuration DEF RetryTypeOK
  <2>5. QED
    BY <1>4, <1>7, <2>2, <2>4 DEF ScheduleRetry, JobStates, RetryTypeOK
<1>8. CASE CloseQueue
  BY <1>8 DEF CloseQueue, RetryTypeOK
<1>9. CASE UNCHANGED retryVars
  BY <1>9 DEF retryVars, RetryTypeOK
<1>10. QED
  BY <1>1, <1>2, <1>3, <1>5, <1>6, <1>7, <1>8, <1>9 DEF RetryNext, RetryStep

LEMMA RetryTypeInit == RetryInit => RetryTypeOK
<1> SUFFICES ASSUME RetryInit
             PROVE  RetryTypeOK
  OBVIOUS
<1>1. queue \in Seq(Jobs) /\ IsInjective(queue) /\ Len(queue) <= Capacity
  BY RetryAssumption DEF RetryInit, IsInjective
<1>2. Range(queue) = {j \in Jobs : state[j] = "queued"}
  BY DEF RetryInit, Range
<1>3. state \in [Jobs -> JobStates] /\ err \in [Jobs -> Errors \cup {NoError}]
  BY DEF RetryInit, JobStates
<1>4. /\ retryCount \in [Jobs -> 0 .. MaxRetries] /\ backoff \in [Jobs -> Least .. Greatest]
      /\ attempts \in [Jobs -> Nat]
  BY WidthBounds, RetryAssumption DEF RetryInit
<1>5. QED
  BY <1>1, <1>2, <1>3, <1>4 DEF RetryInit, RetryTypeOK

\* The queue holds the queued jobs, each once, and the counters stay within their bounds,
\* however the jobs, the workers and the closing of the queue interleave.
THEOREM RetryTyping == RetrySpec => []RetryTypeOK
BY RetryTypeInit, RetryTypeKept, PTL DEF RetrySpec

--------------------------------------------------------------------------------
(* Retries are counted, bounded, capped and spaced *)

\* What the count of each job is against its scans: a scan is counted before it starts, a
\* retry before it sleeps.
CountIsTrue(j) ==
    /\ state[j] \in {"running", "failed", "succeeded", "givenUp"}
          => retryCount[j] = attempts[j] - 1
    /\ state[j] \in {"new", "queued", "sleeping", "lost", "refused", "panicked"} \cup Entering
          => retryCount[j] = attempts[j]

LEMMA CountBoundsAttempts ==
  RetryTypeOK => (CountMatchesAttempts <=> \A j \in Jobs : CountIsTrue(j))
<1> SUFFICES ASSUME RetryTypeOK, NEW j \in Jobs, CountIsTrue(j)
             PROVE  attempts[j] <= MaxRetries + 1
  BY DEF CountMatchesAttempts, CountIsTrue
<1>1. retryCount[j] \in 0 .. MaxRetries /\ attempts[j] \in Nat /\ state[j] \in JobStates
  BY DEF RetryTypeOK
<1>2. retryCount[j] = attempts[j] - 1 \/ retryCount[j] = attempts[j]
  BY <1>1 DEF CountIsTrue, JobStates, Settled, Entering
<1>3. QED
  BY <1>1, <1>2, RetryAssumption

\* Where a step of a job takes it and its counters; the other jobs stay.
LEMMA CountKept ==
  ASSUME RetryTypeOK, \A k \in Jobs : CountIsTrue(k), [RetryNext]_retryVars
  PROVE  \A k \in Jobs : CountIsTrue(k)'
<1> USE DEF CountIsTrue, Entering
<1>1. ASSUME NEW j \in Jobs, EndAttempt(j) \/ GiveUp(j)
      PROVE  /\ state[j] \in {"running", "failed"} /\ UNCHANGED <<retryCount, attempts>>
             /\ \E to \in {"failed", "succeeded", "givenUp"} : state' = [state EXCEPT ![j] = to]
  BY <1>1 DEF EndAttempt, AttemptSucceeds, AttemptFails, GiveUp
<1>2. ASSUME NEW j \in Jobs, Submit(j) \/ Reenqueue(j)
      PROVE  /\ state[j] \in {"new", "sleeping"} \cup Entering
             /\ UNCHANGED <<retryCount, attempts>>
             /\ \E to \in {"queued", "lost", "refused", "panicked"} \cup Entering :
                   state' = [state EXCEPT ![j] = to]
  BY <1>2 DEF Submit, Reenqueue, EnqueueCheck, EnqueueSend
<1>3. ASSUME NEW j \in Jobs, StartAttempt(j)
      PROVE  /\ state[j] = "queued" /\ state' = [state EXCEPT ![j] = "running"]
             /\ attempts' = [attempts EXCEPT ![j] = @ + 1] /\ UNCHANGED retryCount
  <2>1. queue \in Seq(Jobs) /\ queue # <<>> /\ Head(queue) = j
    BY <1>3 DEF StartAttempt, RetryTypeOK
  <2>2. j \in Range(queue)
    BY <2>1 DEF Range
  <2>3. QED
    BY <1>3, <2>2 DEF StartAttempt, RetryTypeOK
<1>4. ASSUME NEW j \in Jobs, ScheduleRetry(j)
      PROVE  /\ state[j] = "failed" /\ state' = [state EXCEPT ![j] = "sleeping"]
             /\ retryCount' = [retryCount EXCEPT ![j] = @ + 1] /\ UNCHANGED attempts
  BY <1>4 DEF ScheduleRetry
<1>5. CASE UNCHANGED <<state, retryCount, attempts>>
  BY <1>5
<1> SUFFICES ASSUME NEW k \in Jobs
             PROVE  CountIsTrue(k)'
  OBVIOUS
<1>6. /\ retryCount \in [Jobs -> 0 .. MaxRetries] /\ attempts \in [Jobs -> Nat]
      /\ state \in [Jobs -> JobStates]
  BY DEF RetryTypeOK
<1>7. ASSUME NEW j \in Jobs, EndAttempt(j) \/ GiveUp(j)
      PROVE  CountIsTrue(k)'
  BY <1>1, <1>6, <1>7
<1>8. ASSUME NEW j \in Jobs, Submit(j) \/ Reenqueue(j)
      PROVE  CountIsTrue(k)'
  BY <1>2, <1>6, <1>8
<1>9. ASSUME NEW j \in Jobs, StartAttempt(j)
      PROVE  CountIsTrue(k)'
  BY <1>3, <1>6, <1>9
<1>10. ASSUME NEW j \in Jobs, ScheduleRetry(j)
       PROVE  CountIsTrue(k)'
  BY <1>4, <1>6, <1>10
<1>11. QED
  BY <1>5, <1>7, <1>8, <1>9, <1>10 DEF RetryNext, RetryStep, CloseQueue, retryVars

\* The wait of each job is the one its count asks for: what the cap and the order of the
\* waits follow from.
BackoffIsOfCount ==
    \A j \in Jobs : backoff[j] \in IF retryCount[j] = 0 THEN {0}
                                                        ELSE CalculateBackoff(retryCount[j])

LEMMA BackoffIsOfCountKept ==
  RetryTypeOK /\ BackoffIsOfCount /\ [RetryNext]_retryVars => BackoffIsOfCount'
<1> SUFFICES ASSUME RetryTypeOK, BackoffIsOfCount, [RetryNext]_retryVars
             PROVE  BackoffIsOfCount'
  OBVIOUS
<1>1. ASSUME NEW j \in Jobs, ScheduleRetry(j)
      PROVE  BackoffIsOfCount'
  <2>1. PICK d \in CalculateBackoff(retryCount'[j]) : backoff' = [backoff EXCEPT ![j] = d]
    BY <1>1 DEF ScheduleRetry
  <2>2. retryCount'[j] # 0 /\ \A k \in Jobs \ {j} : retryCount'[k] = retryCount[k]
    BY <1>1 DEF ScheduleRetry, RetryTypeOK
  <2>3. backoff'[j] = d /\ \A k \in Jobs \ {j} : backoff'[k] = backoff[k]
    BY <2>1 DEF RetryTypeOK
  <2>4. QED
    BY <2>1, <2>2, <2>3, Zenon DEF BackoffIsOfCount
<1>2. CASE UNCHANGED <<retryCount, backoff>>
  BY <1>2 DEF BackoffIsOfCount
<1>3. QED
  BY <1>1, <1>2 DEF RetryNext, RetryStep, EndAttempt, AttemptSucceeds, AttemptFails, GiveUp,
     Submit, Reenqueue, EnqueueCheck, EnqueueSend, StartAttempt, CloseQueue, retryVars

\* A job is scanned at most once more often than it may be retried, and its count says how
\* often it was, whatever the configuration.
THEOREM CountsAreAttempts ==
  RetrySpec => [](RetryTypeOK /\ CountMatchesAttempts /\ BackoffIsOfCount)
<1> DEFINE Inv == RetryTypeOK /\ (\A j \in Jobs : CountIsTrue(j)) /\ BackoffIsOfCount
<1>1. RetryInit => Inv
  <2>1. RetryInit => (\A j \in Jobs : CountIsTrue(j)) /\ BackoffIsOfCount
    BY DEF RetryInit, CountIsTrue, BackoffIsOfCount
  <2>2. QED
    BY <2>1, RetryTypeInit
<1>2. Inv /\ [RetryNext]_retryVars => Inv'
  BY RetryTypeKept, CountKept, BackoffIsOfCountKept
<1>3. Inv => RetryTypeOK /\ CountMatchesAttempts /\ BackoffIsOfCount
  BY CountBoundsAttempts
<1> HIDE DEF Inv
<1>4. QED
  BY <1>1, <1>2, <1>3, PTL DEF RetrySpec

\* With a configuration whose products fit into a duration no wait is longer than MaxBackoff
\* or negative.  RetryManagerOverflow shows that this is needed.
THEOREM RetriesAreSafe ==
  ASSUME BackoffFits
  PROVE  RetrySpec => []RetryInv
<1>1. RetryTypeOK /\ BackoffIsOfCount => BackoffCapped
  <2> SUFFICES ASSUME RetryTypeOK, BackoffIsOfCount, NEW j \in Jobs
               PROVE  backoff[j] \in 0 .. MaxBackoff
    BY DEF BackoffCapped
  <2>1. CASE retryCount[j] = 0
    BY <2>1, RetryAssumption DEF BackoffIsOfCount
  <2>2. CASE retryCount[j] # 0
    <3>1. retryCount[j] \in 1 .. MaxRetries
      BY <2>2, RetryAssumption DEF RetryTypeOK
    <3>2. QED
      BY <2>2, <3>1, BackoffThatFits DEF BackoffIsOfCount
  <2>3. QED
    BY <2>1, <2>2
<1>2. QED
  BY <1>1, CountsAreAttempts, PTL DEF RetryInv

\* And with a multiplier of one or more, fractions included, each retry of a job waits at
\* least as long as the one before, cap or no cap.
THEOREM RetriesAreSpaced ==
  ASSUME BackoffFits, Numerator >= Denominator
  PROVE  RetrySpec => BackoffGrows
<1>1. RetryTypeOK /\ BackoffIsOfCount /\ [RetryNext]_retryVars
        => [\A j \in Jobs : backoff'[j] >= backoff[j]]_retryVars
  <2> SUFFICES ASSUME RetryTypeOK, BackoffIsOfCount, RetryNext, NEW k \in Jobs
               PROVE  backoff'[k] >= backoff[k]
    OBVIOUS
  <2>1. retryCount \in [Jobs -> 0 .. MaxRetries] /\ backoff \in [Jobs -> Least .. Greatest]
        /\ Least \in Int /\ Greatest \in Nat
    BY WidthBounds DEF RetryTypeOK
  <2>2. CASE ScheduleRetry(k)
    <3>1. /\ retryCount[k] \in 0 .. MaxRetries /\ retryCount[k] < MaxRetries
          /\ retryCount'[k] = retryCount[k] + 1
      BY <2>1, <2>2 DEF ScheduleRetry, ShouldRetry
    <3>2. backoff'[k] \in CalculateBackoff(retryCount'[k])
      BY <2>1, <2>2 DEF ScheduleRetry
    <3>3. backoff'[k] = CappedProduct(retryCount'[k]) /\ backoff'[k] \in Nat
      <4>1. retryCount'[k] \in 1 .. MaxRetries
        BY <3>1, RetryAssumption
      <4>2. QED
        BY <3>2, <4>1, BackoffThatFits
    <3>4. CASE retryCount[k] = 0
      BY <3>3, <3>4 DEF BackoffIsOfCount
    <3>5. CASE retryCount[k] # 0
      <4>1. retryCount[k] \in 1 .. MaxRetries /\ retryCount[k] \in Nat /\ retryCount[k] >= 1
        BY <3>1, <3>5
      <4>2. backoff[k] = CappedProduct(retryCount[k]) /\ CappedProduct(retryCount[k]) \in Nat
        BY <3>5, <4>1, BackoffThatFits DEF BackoffIsOfCount
      <4>3. CappedProduct(retryCount[k]) <= CappedProduct(retryCount[k] + 1)
        BY <4>1, BackoffIsMonotone
      <4>4. QED
        BY <3>1, <3>3, <4>2, <4>3
    <3>6. QED
      BY <3>4, <3>5
  <2>3. ASSUME NEW j \in Jobs, j # k, ScheduleRetry(j)
        PROVE  backoff'[k] >= backoff[k]
    <3>1. backoff'[k] = backoff[k] /\ backoff[k] \in Int
      BY <2>1, <2>3 DEF ScheduleRetry
    <3>2. QED
      BY <3>1
  <2>4. CASE UNCHANGED backoff
    BY <2>1, <2>4
  <2>5. UNCHANGED backoff \/ \E j \in Jobs : ScheduleRetry(j)
    BY DEF RetryNext, RetryStep, EndAttempt, AttemptSucceeds,
       AttemptFails, GiveUp, Submit, Reenqueue, EnqueueCheck, EnqueueSend, StartAttempt, CloseQueue
  <2>6. QED
    BY <2>2, <2>3, <2>4, <2>5
<1>2. QED
  BY <1>1, CountsAreAttempts, PTL DEF RetrySpec, BackoffGrows
================================================================================
