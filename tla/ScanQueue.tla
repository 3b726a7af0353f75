------------------------------- MODULE ScanQueue -------------------------------
(***************************************************************************)
(* The in-memory scan queue, pkg/queue/queue.go: a buffered Go channel, a    *)
(* flag that says the queue is closed, and an atomic counter kept beside the *)
(* channel.  A request r stands for one call Enqueue(ctx, r) and for the     *)
(* goroutine that makes it; a consumer c is a goroutine that calls           *)
(* Dequeue(ctx) again and again.                                             *)
(*                                                                         *)
(* A step is what the runtime does in one go: the check of the closed flag   *)
(* under the read lock, one select on the channel, one atomic addition, and  *)
(* Close, which keeps its two writes under the write lock.                   *)
(*                                                                         *)
(* Of the Go runtime the module keeps: a select with several ready cases     *)
(* takes any of them, and its default only when none is ready; a send with a *)
(* receiver parked on the channel hands the value over without buffering it; *)
(* a closed channel still yields what it buffers; a send on a closed channel *)
(* panics.  A sender may serve any of the parked receivers (the runtime      *)
(* serves the one parked first), which no property here depends on.          *)
(***************************************************************************)
EXTENDS Integers, Sequences, FiniteSets, Functions

CONSTANTS Requests,    \* the requests, each passed to one call of Enqueue
          Consumers,   \* the goroutines that call Dequeue
          Capacity,    \* the capacity given to NewScanQueue
          NoRequest    \* not a request: what a consumer holds when it holds none

ASSUME QueueAssumption ==
    /\ Capacity \in Nat
    /\ NoRequest \notin Requests
    /\ IsFiniteSet(Requests)
    /\ IsFiniteSet(Consumers)
    /\ Requests \cap Consumers = {}

VARIABLES
    queue,     \* what the channel buffers
    closed,    \* ScanQueue.closed, set together with close(queue)
    depth,     \* ScanQueue.depth
    enq,       \* where each call of Enqueue is, or what it returned
    deq,       \* where each consumer's call of Dequeue is, or what it returned
    held,      \* the request each consumer got from its last Dequeue
    done,      \* the calls of Enqueue and the consumers whose ctx is done
    sent,      \* history: the requests that entered the channel, in order
    received   \* history: the requests that left it, in order

queueVars == <<queue, closed, depth, enq, deq, held, done, sent, received>>

Rejections == {"closed", "full", "cancelled", "panicked"}
EnqStates == {"idle", "checked", "sent", "accepted"} \cup Rejections
DeqErrors == {"closed", "cancelled"}
DeqStates == {"idle", "parked", "received", "returned"} \cup DeqErrors

Parked == {c \in Consumers : deq[c] = "parked"}
Uncounted == {r \in Requests : enq[r] = "sent"}         \* depth is still to grow
Undiscounted == {c \in Consumers : deq[c] = "received"} \* depth is still to shrink

QueueInit ==
    /\ queue = <<>>
    /\ closed = FALSE
    /\ depth = 0
    /\ enq = [r \in Requests |-> "idle"]
    /\ deq = [c \in Consumers |-> "idle"]
    /\ held = [c \in Consumers |-> NoRequest]
    /\ done = {}
    /\ sent = <<>>
    /\ received = <<>>

--------------------------------------------------------------------------------
(* Enqueue *)

EnqueueMoves(r, from, to) ==
    /\ enq[r] = from
    /\ enq' = [enq EXCEPT ![r] = to]

\* The closed flag is read under the read lock, which is given back at once.
EnqueueCheck(r) ==
    /\ EnqueueMoves(r, "idle", IF closed THEN "closed" ELSE "checked")
    /\ UNCHANGED <<queue, closed, depth, deq, held, done, sent, received>>

\* Mutant of EnqueueSend: room for one more than the channel buffers.
EnqueueSendOverfull(r) ==
    /\ EnqueueMoves(r, "checked", "sent")
    /\ ~closed
    /\ Parked = {}
    /\ Len(queue) <= Capacity
    /\ queue' = Append(queue, r)
    /\ sent' = Append(sent, r)
    /\ UNCHANGED <<closed, depth, deq, held, done, received>>

\* The select sends: nobody is parked and the buffer has room.
EnqueueSend(r) ==
    /\ EnqueueMoves(r, "checked", "sent")
    /\ ~closed
    /\ Parked = {}
    /\ Len(queue) < Capacity
    /\ queue' = Append(queue, r)
    /\ sent' = Append(sent, r)
    /\ UNCHANGED <<closed, depth, deq, held, done, received>>

\* The select sends to a receiver that is parked on the channel.
EnqueueHandOff(r, c) ==
    /\ EnqueueMoves(r, "checked", "sent")
    /\ ~closed
    /\ c \in Parked
    /\ deq' = [deq EXCEPT ![c] = "received"]
    /\ held' = [held EXCEPT ![c] = r]
    /\ sent' = Append(sent, r)
    /\ received' = Append(received, r)
    /\ UNCHANGED <<queue, closed, depth, done>>

\* The queue was closed after the check: the send panics.
EnqueuePanic(r) ==
    /\ EnqueueMoves(r, "checked", "panicked")
    /\ closed
    /\ UNCHANGED <<queue, closed, depth, deq, held, done, sent, received>>

\* Mutant of EnqueueCancelled: the counter grew before the select and stays so.
EnqueueCancelledCounted(r) ==
    /\ EnqueueMoves(r, "checked", "cancelled")
    /\ r \in done
    /\ depth' = depth + 1
    /\ UNCHANGED <<queue, closed, deq, held, done, sent, received>>

EnqueueCancelled(r) ==
    /\ EnqueueMoves(r, "checked", "cancelled")
    /\ r \in done
    /\ UNCHANGED <<queue, closed, depth, deq, held, done, sent, received>>

\* The default case: neither the send nor ctx.Done is ready.
EnqueueFull(r) ==
    /\ EnqueueMoves(r, "checked", "full")
    /\ ~closed
    /\ Parked = {}
    /\ Len(queue) >= Capacity
    /\ r \notin done
    /\ UNCHANGED <<queue, closed, depth, deq, held, done, sent, received>>

\* Mutant of EnqueueCount: ctx is looked at again once the request is queued.
EnqueueCountOrCancel(r) ==
    /\ EnqueueMoves(r, "sent", IF r \in done THEN "cancelled" ELSE "accepted")
    /\ depth' = depth + 1
    /\ UNCHANGED <<queue, closed, deq, held, done, sent, received>>

\* The counter grows after the request is in the channel; then nil is returned.
EnqueueCount(r) ==
    /\ EnqueueMoves(r, "sent", "accepted")
    /\ depth' = depth + 1
    /\ UNCHANGED <<queue, closed, deq, held, done, sent, received>>

EnqueueStep(r) ==
    \/ EnqueueCheck(r)
    \/ EnqueueSend(r)
    \/ \E c \in Consumers : EnqueueHandOff(r, c)
    \/ EnqueuePanic(r)
    \/ EnqueueCancelled(r)
    \/ EnqueueFull(r)
    \/ EnqueueCount(r)

--------------------------------------------------------------------------------
(* Dequeue *)

DequeueMoves(c, from, to) ==
    /\ deq[c] = from
    /\ deq' = [deq EXCEPT ![c] = to]

DequeueReceive(c) ==
    /\ DequeueMoves(c, "idle", "received")
    /\ queue # <<>>
    /\ held' = [held EXCEPT ![c] = Head(queue)]
    /\ queue' = Tail(queue)
    /\ received' = Append(received, Head(queue))
    /\ UNCHANGED <<closed, depth, enq, done, sent>>

\* No case of the select is ready: the goroutine waits.
DequeuePark(c) ==
    /\ DequeueMoves(c, "idle", "parked")
    /\ queue = <<>>
    /\ ~closed
    /\ c \notin done
    /\ UNCHANGED <<queue, closed, depth, enq, held, done, sent, received>>

\* Mutant of DequeueClosed: the closed flag is looked at before the channel.
DequeueClosedEarly(c) ==
    /\ DequeueMoves(c, "idle", "closed")
    /\ closed
    /\ UNCHANGED <<queue, closed, depth, enq, held, done, sent, received>>

\* ok = FALSE: the channel is closed and drained.
DequeueClosed(c) ==
    /\ DequeueMoves(c, "idle", "closed")
    /\ closed
    /\ queue = <<>>
    /\ UNCHANGED <<queue, closed, depth, enq, held, done, sent, received>>

DequeueCancelled(c) ==
    /\ DequeueMoves(c, "idle", "cancelled")
    /\ c \in done
    /\ UNCHANGED <<queue, closed, depth, enq, held, done, sent, received>>

\* The counter shrinks after the request has left the channel.
DequeueCount(c) ==
    /\ DequeueMoves(c, "received", "returned")
    /\ depth' = depth - 1
    /\ UNCHANGED <<queue, closed, enq, held, done, sent, received>>

DequeueStep(c) ==
    \/ DequeueReceive(c)
    \/ DequeuePark(c)
    \/ DequeueClosed(c)
    \/ DequeueCancelled(c)
    \/ DequeueCount(c)

\* The caller takes what Dequeue returned and may call it again.
DequeueReturn(c) ==
    /\ deq[c] \in {"returned"} \cup DeqErrors
    /\ deq' = [deq EXCEPT ![c] = "idle"]
    /\ held' = [held EXCEPT ![c] = NoRequest]
    /\ UNCHANGED <<queue, closed, depth, enq, done, sent, received>>

--------------------------------------------------------------------------------
(* Close, and the contexts of the callers *)

\* Parked receivers wake up with what woke them.
WakeParked(C, why) ==
    deq' = [c \in Consumers |-> IF c \in C \cap Parked THEN why ELSE deq[c]]

\* Mutant of Close: the flag is set, the channel is not closed.
CloseFlagOnly ==
    /\ ~closed
    /\ closed' = TRUE
    /\ UNCHANGED <<queue, depth, enq, deq, held, done, sent, received>>

Close ==
    /\ ~closed
    /\ closed' = TRUE
    /\ WakeParked(Consumers, "closed")
    /\ UNCHANGED <<queue, depth, enq, held, done, sent, received>>

\* The ctx of the consumers in C is cancelled.
CancelConsumers(C) ==
    /\ done' = done \cup C
    /\ WakeParked(C, "cancelled")
    /\ UNCHANGED <<queue, closed, depth, enq, held, sent, received>>

\* The ctx of a call of Enqueue is cancelled, or its deadline passes.
CancelEnqueue(r) ==
    /\ enq[r] \in {"idle", "checked"}
    /\ r \notin done
    /\ done' = done \cup {r}
    /\ UNCHANGED <<queue, closed, depth, enq, deq, held, sent, received>>

QueueNext ==
    \/ \E r \in Requests : EnqueueStep(r) \/ CancelEnqueue(r)
    \/ \E c \in Consumers : DequeueStep(c) \/ DequeueReturn(c)
    \/ \E C \in SUBSET Consumers : CancelConsumers(C)
    \/ Close

QueueSpec == QueueInit /\ [][QueueNext]_queueVars

--------------------------------------------------------------------------------
(* What Depth, IsFull and IsEmpty report; Stats reports the three together. *)

Depth == depth
IsFull == Depth >= Capacity
IsEmpty == Depth = 0

--------------------------------------------------------------------------------
(* Correctness *)

\* Types; a consumer holds a request exactly when its Dequeue got one.
QueueTypeOK ==
    /\ queue \in Seq(Requests)
    /\ closed \in BOOLEAN
    /\ depth \in Int
    /\ enq \in [Requests -> EnqStates]
    /\ deq \in [Consumers -> DeqStates]
    /\ held \in [Consumers -> Requests \cup {NoRequest}]
    /\ \A c \in Consumers : held[c] # NoRequest <=> deq[c] \in {"received", "returned"}
    /\ done \subseteq Requests \cup Consumers
    /\ sent \in Seq(Requests)
    /\ received \in Seq(Requests)

\* The counter is not updated with the channel, so Depth, IsFull and IsEmpty are
\* wrong while calls are under way.  They are wrong by exactly the calls of
\* Enqueue that have sent and not counted and the calls of Dequeue that have
\* received and not counted: the counter never drifts.
DepthAccounting ==
    depth = Len(queue) - Cardinality(Uncounted) + Cardinality(Undiscounted)

\* First in, first out, and nothing lost: what left the channel followed by what
\* it still buffers is what was sent, also across Close and cancelled receivers.
FifoOrder == sent = received \o queue

\* The answer of Enqueue is the truth: a request went into the channel at most
\* once, and it did so exactly if Enqueue returns nil for it.
AcceptedExactlyOnce ==
    /\ IsInjective(sent)
    /\ Range(sent) = {r \in Requests : enq[r] \in {"sent", "accepted"}}

\* What every step of the queue keeps, whoever calls what when: the types, the order,
\* and that every answer of Enqueue is true.
QueueInv == QueueTypeOK /\ FifoOrder /\ AcceptedExactlyOnce

\* No two consumers hold the same request.
NoSharedRequest ==
    \A c, d \in Consumers : held[c] = held[d] /\ held[c] # NoRequest => c = d

\* What a consumer holds has left the channel, which the proofs need in addition.
HeldWasReceived == \A c \in Consumers : held[c] # NoRequest => held[c] \in Range(received)

\* No lost wakeup: a consumer waits only while there is nothing to receive, the
\* queue is open and its own ctx is live.
ParkedHasNothingToDo ==
    \A c \in Parked : queue = <<>> /\ ~closed /\ c \notin done

\* "queue is closed" from Dequeue means that every accepted request was received.
ClosedMeansDrained ==
    \A c \in Consumers : deq[c] = "closed" => closed /\ queue = <<>>

Fifo == INSTANCE BoundedFifo WITH
    Items <- Requests,
    Bound <- Capacity,
    log <- sent,
    taken <- Len(received),
    refused <- {r \in Requests : enq[r] \in Rejections},
    open <- ~closed

\* The queue implements the bounded first-in-first-out buffer.
ImplementsFifo == Fifo!FifoSpec

\* The comment of Enqueue: "Returns error if queue is full or closed".
EnqueueReturns == \A r \in Requests : enq[r] # "panicked"

\* The comment of Depth: "returns the current number of items in the queue".
DepthIsItemCount == Depth >= 0
================================================================================
