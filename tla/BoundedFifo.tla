------------------------------ MODULE BoundedFifo ------------------------------
(***************************************************************************)
(* What the scan queue promises to the goroutines that call it, with every  *)
(* detail of the calls left out: requests are taken in the order in which   *)
(* they were put, each at most once, at most Bound of them wait at a time,   *)
(* a refused request never comes out, and nothing is put after Shut.        *)
(* ScanQueue.tla is shown to implement this specification.                  *)
(***************************************************************************)
EXTENDS Naturals, Sequences, Functions

CONSTANTS Items,      \* what the buffer may carry, each put at most once
          Bound       \* how many items may wait

VARIABLES log,        \* the items put so far, in the order they were put
          taken,      \* how many of them have been taken: always the oldest
          refused,    \* the items the buffer has turned away
          open        \* FALSE once the buffer is shut

fifoVars == <<log, taken, refused, open>>

Fresh(r) == r \in Items \ (Range(log) \cup refused)

FifoInit ==
    /\ log = <<>>
    /\ taken = 0
    /\ refused = {}
    /\ open = TRUE

\* A new item joins the waiting ones.
Put(r) ==
    /\ open
    /\ Fresh(r)
    /\ Len(log) - taken < Bound
    /\ log' = Append(log, r)
    /\ UNCHANGED <<taken, refused, open>>

\* The oldest waiting item is taken.
Take ==
    /\ taken < Len(log)
    /\ taken' = taken + 1
    /\ UNCHANGED <<log, refused, open>>

\* Nothing waits but a taker does: the item goes through without waiting.
PassThrough(r) ==
    /\ open
    /\ Fresh(r)
    /\ taken = Len(log)
    /\ log' = Append(log, r)
    /\ taken' = taken + 1
    /\ UNCHANGED <<refused, open>>

Refuse(r) ==
    /\ Fresh(r)
    /\ refused' = refused \cup {r}
    /\ UNCHANGED <<log, taken, open>>

Shut ==
    /\ open
    /\ open' = FALSE
    /\ UNCHANGED <<log, taken, refused>>

FifoNext ==
    \/ Take
    \/ Shut
    \/ \E r \in Items : Put(r) \/ PassThrough(r) \/ Refuse(r)

FifoSpec == FifoInit /\ [][FifoNext]_fifoVars
================================================================================
