------------------------------ MODULE WaitQueue ------------------------------
(***************************************************************************)
(* The bounded wait queue of proxy/wait_queue.rs.  A client that cannot    *)
(* get a backend enqueues a oneshot sender and keeps the receiver in a     *)
(* Waiter; notify_one pops the front sender and sends on it.               *)
(*                                                                         *)
(* Each operation is an action on this module's variables only, so that    *)
(* PoolManager can conjoin it with what the caller does in the same step.  *)
(***************************************************************************)
EXTENDS Integers, Sequences, FiniteSets

CONSTANTS
    Clients,    \* the connection ids that may wait
    Dropped,    \* a sender whose receiver is gone
    MaxDepth    \* max_depth

ASSUME WaitQueueAssumption ==
    /\ IsFiniteSet(Clients)
    /\ Dropped \notin Clients
    /\ MaxDepth \in Nat

VARIABLES
    waiters,    \* the VecDeque of senders, each named by the client that
                \* holds its receiver, or Dropped
    depth,      \* the atomic counter
    waiter      \* per client, its Waiter: "none", "parked" or "notified"

wqVars == <<waiters, depth, waiter>>

Senders == Clients \cup {Dropped}

WaitQueueType ==
    /\ waiters \in Seq(Senders)
    /\ depth \in Int
    /\ waiter \in [Clients -> {"none", "parked", "notified"}]

WaitQueueInit ==
    /\ waiters = <<>>
    /\ depth = 0
    /\ waiter = [c \in Clients |-> "none"]

-----------------------------------------------------------------------------
(* The length test of enqueue: every sender in the deque counts, also one  *)
(* whose receiver is gone.                                                 *)
QueueFull == Len(waiters) >= MaxDepth

Enqueue(c) ==
    /\ ~QueueFull
    /\ waiters' = Append(waiters, c)
    /\ depth' = depth + 1
    /\ waiter' = [waiter EXCEPT ![c] = "parked"]

(* A faulty NotifyOne, which ServedInOrder must notice.                    *)
NotifyLast ==
    /\ waiters' = IF waiters = <<>> THEN waiters ELSE SubSeq(waiters, 1, Len(waiters) - 1)
    /\ waiter' = [c \in Clients |->
                    IF waiters # <<>> /\ waiters[Len(waiters)] = c THEN "notified"
                                                                  ELSE waiter[c]]
    /\ UNCHANGED depth

(* A faulty NotifyOne, which ParkedAreReachable must notice.               *)
NotifyNobody ==
    /\ waiters' = IF waiters = <<>> THEN waiters ELSE Tail(waiters)
    /\ UNCHANGED <<depth, waiter>>

(* notify_one: pop the front sender and send on it.  The send to a dropped *)
(* receiver fails and the error is ignored, so nobody else is woken.       *)
NotifyOne ==
    /\ waiters' = IF waiters = <<>> THEN waiters ELSE Tail(waiters)
    /\ waiter' = [c \in Clients |->
                    IF waiters # <<>> /\ Head(waiters) = c THEN "notified"
                                                          ELSE waiter[c]]
    /\ UNCHANGED depth

(* Drop for Waiter, with its receiver: the counter goes down, the sender   *)
(* stays in the deque.                                                     *)
DropWaiter(c) ==
    /\ waiter[c] # "none"
    /\ waiter' = [waiter EXCEPT ![c] = "none"]
    /\ depth' = depth - 1
    /\ waiters' = [i \in DOMAIN waiters |->
                     IF waiters[i] = c THEN Dropped ELSE waiters[i]]

-----------------------------------------------------------------------------
Parked == {c \in Clients : waiter[c] = "parked"}

(* The counter that metrics and the admin console read is the number of    *)
(* clients that hold a Waiter, whatever the deque holds.                   *)
DepthCountsWaiters ==
    depth = Cardinality({c \in Clients : waiter[c] # "none"})

(* A parked client can be reached: exactly one sender of the deque is      *)
(* paired with its receiver, and no sender is paired with anybody else.    *)
ParkedAreReachable ==
    /\ \A c \in Clients :
         waiter[c] = "parked" <=> \E i \in 1..Len(waiters) : waiters[i] = c
    /\ \A i, j \in 1..Len(waiters) :
         waiters[i] = waiters[j] /\ waiters[i] # Dropped => i = j

(* The deque never outgrows max_depth.                                     *)
QueueBounded == Len(waiters) <= MaxDepth
=============================================================================
