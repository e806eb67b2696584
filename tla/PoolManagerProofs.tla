-------------------------- MODULE PoolManagerProofs --------------------------
(***************************************************************************)
(* Proofs about the pool manager and its wait queue, for any number of     *)
(* clients, backends and any queue bound.                                  *)
(***************************************************************************)
EXTENDS PoolManager, FiniteSetTheorems, TLAPS

QueueInv ==
    /\ WaitQueueType
    /\ ParkedAreReachable
    /\ QueueBounded
    /\ DepthCountsWaiters

(* The state of the wait queue that DepthCountsWaiters counts.             *)
Holders == {c \in Clients : waiter[c] # "none"}

(* Finitely many clients hold a Waiter.                                    *)
LEMMA HoldersFinite == IsFiniteSet(Holders)
  BY Zenon, WaitQueueAssumption, FS_Subset DEF Holders

-----------------------------------------------------------------------------
(* enqueue by a client that holds no Waiter keeps the queue consistent.    *)
LEMMA EnqueueInv ==
  ASSUME QueueInv, NEW c \in Clients, waiter[c] = "none", Enqueue(c)
  PROVE  QueueInv'
<1>1. WaitQueueType'
  BY DEF QueueInv, WaitQueueType, Enqueue, Senders
<1>2. /\ Len(waiters') = Len(waiters) + 1
      /\ \A i \in 1..Len(waiters) : waiters'[i] = waiters[i]
      /\ waiters'[Len(waiters) + 1] = c
  BY DEF QueueInv, WaitQueueType, Enqueue, Senders
<1>3. \A i \in 1..Len(waiters) : waiters[i] # c
  BY Zenon DEF QueueInv, ParkedAreReachable
<1>4. Len(waiters) \in Nat
  BY DEF QueueInv, WaitQueueType
<1>5. ParkedAreReachable'
  <2>1. ASSUME NEW d \in Clients
        PROVE  waiter'[d] = "parked" <=> \E i \in 1..Len(waiters') : waiters'[i] = d
    <3>1. CASE d = c
      BY <1>2, <1>4, <3>1 DEF QueueInv, WaitQueueType, Enqueue
    <3>2. CASE d # c
      <4>1. waiter'[d] = waiter[d]
        BY Zenon, <3>2 DEF QueueInv, WaitQueueType, Enqueue
      <4>2. waiter[d] = "parked" <=> \E i \in 1..Len(waiters) : waiters[i] = d
        BY Zenon DEF QueueInv, ParkedAreReachable
      <4>3. (\E i \in 1..Len(waiters) : waiters[i] = d)
              <=> \E i \in 1..Len(waiters') : waiters'[i] = d
        BY <1>2, <1>4, <3>2
      <4> QED BY Zenon, <4>1, <4>2, <4>3
    <3> QED BY Zenon, <3>1, <3>2
  <2>2. ASSUME NEW i \in 1..Len(waiters'), NEW j \in 1..Len(waiters'),
               waiters'[i] = waiters'[j], waiters'[i] # Dropped
        PROVE  i = j
    BY <1>2, <1>3, <1>4, <2>2 DEF QueueInv, ParkedAreReachable
  <2> QED BY Zenon, <2>1, <2>2 DEF ParkedAreReachable
<1>6. QueueBounded'
  BY <1>2, <1>4, WaitQueueAssumption DEF QueueBounded, Enqueue, QueueFull
<1>7. DepthCountsWaiters'
  <2>1. Holders' = Holders \cup {c} /\ c \notin Holders
    BY Zenon DEF Holders, QueueInv, WaitQueueType, Enqueue
  <2>2. Cardinality(Holders') = Cardinality(Holders) + 1
    BY Zenon, <2>1, HoldersFinite, FS_AddElement
  <2> QED
    BY Zenon, <2>2 DEF Holders, QueueInv, DepthCountsWaiters, Enqueue
<1> QED BY Zenon, <1>1, <1>5, <1>6, <1>7 DEF QueueInv

(* notify_one keeps it consistent, also when it meets a dead sender.       *)
LEMMA NotifyInv ==
  ASSUME QueueInv, NotifyOne
  PROVE  QueueInv'
<1>1. CASE waiters = <<>>
  <2>1. waiters' = waiters /\ depth' = depth
    BY Zenon, <1>1 DEF NotifyOne
  <2>2. waiter' = waiter
    BY Zenon, <1>1 DEF NotifyOne, QueueInv, WaitQueueType
  <2> QED
    BY <2>1, <2>2 DEF QueueInv, WaitQueueType, ParkedAreReachable, QueueBounded,
                      DepthCountsWaiters
<1>2. CASE waiters # <<>>
  <2>1. /\ waiters \in Seq(Senders)
        /\ waiters' = Tail(waiters)
        /\ waiters' \in Seq(Senders)
        /\ Len(waiters') = Len(waiters) - 1
        /\ \A i \in 1..Len(waiters') : waiters'[i] = waiters[i + 1]
        /\ Head(waiters) = waiters[1]
        /\ Len(waiters) \in Nat \ {0}
    BY <1>2 DEF NotifyOne, QueueInv, WaitQueueType
  <2>2. waiter' = [c \in Clients |-> IF waiters[1] = c THEN "notified" ELSE waiter[c]]
    BY Zenon, <1>2, <2>1 DEF NotifyOne
  <2>3. \A i \in 2..Len(waiters) : waiters[i] # Dropped => waiters[i] # waiters[1]
    BY <2>1 DEF QueueInv, ParkedAreReachable
  <2>4. WaitQueueType'
    BY <2>1, <2>2 DEF QueueInv, WaitQueueType, NotifyOne
  <2>5. ParkedAreReachable'
    <3>1. ASSUME NEW d \in Clients
          PROVE  waiter'[d] = "parked" <=> \E i \in 1..Len(waiters') : waiters'[i] = d
      <4>1. waiter[d] = "parked" <=> \E i \in 1..Len(waiters) : waiters[i] = d
        BY Zenon DEF QueueInv, ParkedAreReachable
      <4>2. CASE waiters[1] = d
        BY <2>1, <2>2, <2>3, <4>2, WaitQueueAssumption
      <4>3. CASE waiters[1] # d
        <5>1. (\E i \in 1..Len(waiters) : waiters[i] = d)
                <=> \E i \in 1..Len(waiters') : waiters'[i] = d
          <6>1. ASSUME NEW i \in 1..Len(waiters), waiters[i] = d
                PROVE  \E k \in 1..Len(waiters') : waiters'[k] = d
            <7>1. i - 1 \in 1..Len(waiters') /\ (i - 1) + 1 = i
              BY <2>1, <4>3, <6>1
            <7> QED BY Zenon, <2>1, <6>1, <7>1
          <6>2. ASSUME NEW i \in 1..Len(waiters'), waiters'[i] = d
                PROVE  \E k \in 1..Len(waiters) : waiters[k] = d
            BY <2>1, <6>2
          <6> QED BY Zenon, <6>1, <6>2
        <5> QED BY Zenon, <2>2, <4>1, <4>3, <5>1
      <4> QED BY Zenon, <4>2, <4>3
    <3>2. ASSUME NEW i \in 1..Len(waiters'), NEW j \in 1..Len(waiters'),
                 waiters'[i] = waiters'[j], waiters'[i] # Dropped
          PROVE  i = j
      <4>1. i + 1 \in 1..Len(waiters) /\ j + 1 \in 1..Len(waiters)
        BY <2>1
      <4>2. i + 1 = j + 1
        BY <2>1, <3>2, <4>1 DEF QueueInv, ParkedAreReachable
      <4> QED BY <4>2
    <3> QED BY Zenon, <3>1, <3>2 DEF ParkedAreReachable
  <2>6. QueueBounded'
    BY <2>1, WaitQueueAssumption DEF QueueInv, QueueBounded
  <2>7. DepthCountsWaiters'
    <3>1. \A c \in Clients : waiter'[c] # "none" <=> waiter[c] # "none"
      <4>1. ASSUME NEW c \in Clients, waiters[1] = c
            PROVE  waiter[c] = "parked"
        BY <2>1, <4>1 DEF QueueInv, ParkedAreReachable
      <4> QED BY Zenon, <2>2, <4>1
    <3>2. Holders' = Holders
      BY Zenon, <3>1 DEF Holders
    <3> QED BY Zenon, <3>2 DEF Holders, QueueInv, DepthCountsWaiters, NotifyOne
  <2> QED BY Zenon, <2>4, <2>5, <2>6, <2>7 DEF QueueInv
<1> QED BY Zenon, <1>1, <1>2

(* Dropping a Waiter, woken, timed out or aborted, keeps it consistent.    *)
LEMMA DropInv ==
  ASSUME QueueInv, NEW c \in Clients, DropWaiter(c)
  PROVE  QueueInv'
<1>1. /\ Len(waiters) \in Nat
      /\ DOMAIN waiters = 1..Len(waiters)
      /\ \A i \in 1..Len(waiters) : waiters[i] \in Senders
  BY DEF QueueInv, WaitQueueType
<1>2. waiters' = [i \in 1..Len(waiters) |->
                    IF waiters[i] = c THEN Dropped ELSE waiters[i]]
  BY Zenon, <1>1 DEF DropWaiter
<1>3. waiters' \in Seq(Senders) /\ Len(waiters') = Len(waiters)
  BY <1>1, <1>2 DEF Senders
<1>4. WaitQueueType'
  BY <1>3 DEF QueueInv, WaitQueueType, DropWaiter
<1>5. ParkedAreReachable'
  <2>1. ASSUME NEW d \in Clients
        PROVE  waiter'[d] = "parked" <=> \E i \in 1..Len(waiters') : waiters'[i] = d
    <3>1. CASE d = c
      BY Zenon, <1>2, <1>3, <3>1, WaitQueueAssumption DEF QueueInv, WaitQueueType, DropWaiter
    <3>2. CASE d # c
      <4>1. waiter'[d] = waiter[d]
        BY Zenon, <3>2 DEF QueueInv, WaitQueueType, DropWaiter
      <4>2. \A i \in 1..Len(waiters) : waiters'[i] = d <=> waiters[i] = d
        BY <1>2, <3>2, WaitQueueAssumption
      <4> QED BY Zenon, <1>3, <4>1, <4>2 DEF QueueInv, ParkedAreReachable
    <3> QED BY Zenon, <3>1, <3>2
  <2>2. ASSUME NEW i \in 1..Len(waiters'), NEW j \in 1..Len(waiters'),
               waiters'[i] = waiters'[j], waiters'[i] # Dropped
        PROVE  i = j
    <3>1. waiters[i] = waiters[j] /\ waiters[i] # Dropped
      BY Zenon, <1>2, <1>3, <2>2
    <3> QED BY Zenon, <1>3, <3>1 DEF QueueInv, ParkedAreReachable
  <2> QED BY Zenon, <2>1, <2>2 DEF ParkedAreReachable
<1>6. QueueBounded'
  BY Zenon, <1>3 DEF QueueInv, QueueBounded
<1>7. DepthCountsWaiters'
  <2>1. Holders' = Holders \ {c} /\ c \in Holders
    BY Zenon DEF Holders, QueueInv, WaitQueueType, DropWaiter
  <2>2. Cardinality(Holders') = Cardinality(Holders) - 1
    BY Zenon, <2>1, HoldersFinite, FS_RemoveElement
  <2> QED BY Zenon, <2>2 DEF Holders, QueueInv, DepthCountsWaiters, DropWaiter
<1> QED BY Zenon, <1>4, <1>5, <1>6, <1>7 DEF QueueInv

(* What notify_one may do to a client: nothing, or call a parked one.      *)
LEMMA NotifyWaiter ==
  ASSUME QueueInv, NotifyOne, NEW c \in Clients
  PROVE  /\ waiter'[c] # "none" <=> waiter[c] # "none"
         /\ waiter[c] = "notified" => waiter'[c] = "notified"
<1>1. ASSUME waiters # <<>>, Head(waiters) = c
      PROVE  waiter[c] = "parked"
  <2>1. Len(waiters) \in Nat \ {0} /\ waiters[1] = c
    BY <1>1 DEF QueueInv, WaitQueueType
  <2> QED BY <2>1 DEF QueueInv, ParkedAreReachable
<1> QED BY Zenon, <1>1 DEF NotifyOne

(* The queue invariant depends on the queue alone.                         *)
LEMMA QueueUnchanged ==
  ASSUME QueueInv, UNCHANGED wqVars
  PROVE  QueueInv'
BY ZenonT(30) DEF QueueInv, wqVars, WaitQueueType, ParkedAreReachable, QueueBounded,
       DepthCountsWaiters

-----------------------------------------------------------------------------
(* The types of what PoolManager adds to the queue.                        *)
PoolType ==
    /\ phase \in [Clients -> Phases]
    /\ conn \in [Clients -> Slots]
    /\ pinned \in [Clients -> BOOLEAN]
    /\ sticky \in [Clients -> Slots]
    /\ aged \in SUBSET Clients
    /\ toRemove \in SUBSET Clients
    /\ cleaned \in Nat
    /\ idle \in SUBSET Backends
    /\ permit \in SUBSET Clients
    /\ accepting \in BOOLEAN
    /\ circuit \in {"allows", "rejects"}

(* The inductive invariant.  ParkedAreReachable needs NoLeak (a client     *)
(* that enqueues holds no Waiter yet); BackendExclusive needs NoLeak (a    *)
(* client that gets a backend holds none).                                 *)
IInv == QueueInv /\ PoolType /\ NoLeak /\ BackendExclusive

(* The first state, with nothing acquired, satisfies the invariant.        *)
LEMMA InitInv == Init => IInv
<1> SUFFICES ASSUME Init PROVE IInv
  BY Zenon
<1>1. WaitQueueType /\ ParkedAreReachable /\ QueueBounded
  BY WaitQueueAssumption
  DEF Init, WaitQueueInit, WaitQueueType, ParkedAreReachable, QueueBounded
<1>2. DepthCountsWaiters
  <2>1. {c \in Clients : waiter[c] # "none"} = {}
    BY Zenon DEF Init, WaitQueueInit
  <2> QED BY Zenon, <2>1, FS_EmptySet DEF Init, WaitQueueInit, DepthCountsWaiters
<1>3. PoolType
  BY Zenon DEF Init, PoolType, Phases, Errors, Slots
<1>4. NoLeak /\ BackendExclusive
  BY Zenon, PoolAssumption
  DEF Init, WaitQueueInit, NoLeak, HoldsJust, BackendExclusive, HoldsConn, HoldsWaiter
<1> QED BY Zenon, <1>1, <1>2, <1>3, <1>4 DEF IInv, QueueInv

-----------------------------------------------------------------------------
(* wait_for_connection's first half, from a handler that holds nothing.    *)
LEMMA WaitForConnectionInv ==
  ASSUME IInv, NEW c \in Clients, waiter[c] = "none", WaitForConnection(c)
  PROVE  /\ QueueInv'
         /\ phase' \in [Clients -> Phases]
         /\ \A d \in Clients : d # c => phase'[d] = phase[d] /\ waiter'[d] = waiter[d]
         /\ \/ phase'[c] = "wait" /\ waiter'[c] = "parked"
            \/ phase'[c] = "QueueFull" /\ waiter'[c] = "none"
<1> USE DEF GoTo
<1>1. CASE Enqueue(c) /\ GoTo(c, "wait")
  <2>1. QueueInv'
    BY Zenon, <1>1, EnqueueInv DEF IInv
  <2> QED
    BY Zenon, <1>1, <2>1 DEF IInv, QueueInv, WaitQueueType, PoolType, Phases, Enqueue
<1>2. CASE QueueFull /\ GoTo(c, "QueueFull") /\ UNCHANGED wqVars
  <2>1. QueueInv'
    BY Zenon, <1>2, QueueUnchanged DEF IInv
  <2> QED
    BY Zenon, <1>2, <2>1 DEF IInv, PoolType, Phases, Errors, wqVars
<1> QED BY Zenon, <1>1, <1>2 DEF WaitForConnection

(* Every step of Next preserves the inductive invariant.                   *)
LEMMA NextInv == IInv /\ [Next]_vars => IInv'
<1> SUFFICES ASSUME IInv, [Next]_vars PROVE IInv'
  BY Zenon
<1> USE PoolAssumption, WaitQueueAssumption
<1> USE DEF GoTo, Slots
<1>0. CASE UNCHANGED vars
  <2>1. QueueInv'
    BY Zenon, <1>0, QueueUnchanged DEF IInv, vars
  <2> QED
    BY Zenon, <1>0, <2>1 DEF IInv, vars, poolVars, wqVars, PoolType, NoLeak, HoldsJust,
                      BackendExclusive, HoldsConn, HoldsWaiter
<1>1. ASSUME NEW c \in Clients, NEW s \in BOOLEAN, Acquire(c, s)
      PROVE  IInv'
  <2>1. waiter[c] = "none" /\ conn[c] = NoBackend /\ c \notin permit
    BY Zenon, <1>1 DEF Acquire, IInv, NoLeak, HoldsJust, HoldsConn, HoldsWaiter, Phases
  <2>2. CASE UNCHANGED wqVars
    <3>1. QueueInv'
      BY Zenon, <2>2, QueueUnchanged DEF IInv
    <3>2. CASE /\ conn' = [conn EXCEPT ![c] = sticky[c]]
               /\ sticky[c] # NoBackend
               /\ pinned' = [pinned EXCEPT ![c] = TRUE]
               /\ sticky' = [sticky EXCEPT ![c] = NoBackend]
               /\ aged' = aged \ {c}
               /\ phase' = [phase EXCEPT ![c] = "held"]
               /\ UNCHANGED <<toRemove, cleaned, idle, permit, accepting, circuit>>
      <4>1. PoolType'
        BY Zenon, <3>2 DEF IInv, PoolType, Phases
      <4>2. NoLeak'
        BY Zenon, <2>1, <2>2, <3>2 DEF IInv, PoolType, NoLeak, HoldsJust, HoldsConn, HoldsWaiter, wqVars
      <4>3. BackendExclusive'
        BY <2>1, <3>2 DEF IInv, PoolType, BackendExclusive
      <4> QED BY Zenon, <3>1, <4>1, <4>2, <4>3 DEF IInv
    <3>3. CASE /\ \E p \in Errors \cup {"get1"} : phase' = [phase EXCEPT ![c] = p]
               /\ UNCHANGED <<poolVars, accepting, circuit>>
      BY <2>1, <2>2, <3>1, <3>3
      DEF IInv, PoolType, Phases, Errors, NoLeak, HoldsJust, HoldsConn, HoldsWaiter,
          BackendExclusive, wqVars, poolVars
    <3> QED
      BY <1>1, <2>2, <3>2, <3>3
      DEF Acquire, EnterGet, WaitForConnection, Enqueue, Errors, wqVars, QueueInv,
          IInv, WaitQueueType
  <2>3. CASE WaitForConnection(c) /\ UNCHANGED <<poolVars, accepting, circuit>>
    <3>1. /\ QueueInv'
          /\ phase' \in [Clients -> Phases]
          /\ \A d \in Clients : d # c => phase'[d] = phase[d] /\ waiter'[d] = waiter[d]
          /\ \/ phase'[c] = "wait" /\ waiter'[c] = "parked"
             \/ phase'[c] = "QueueFull" /\ waiter'[c] = "none"
      BY Zenon, <2>1, <2>3, WaitForConnectionInv
    <3> QED
      BY <2>1, <2>3, <3>1
      DEF IInv, PoolType, NoLeak, HoldsJust, HoldsConn, HoldsWaiter, BackendExclusive, poolVars
  <2> QED BY Zenon, <1>1, <2>2, <2>3 DEF Acquire, EnterGet
<1>2. ASSUME NEW c \in Clients, TakePermit(c)
      PROVE  IInv'
  <2>1. QueueInv' /\ UNCHANGED wqVars
    BY Zenon, <1>2, QueueUnchanged DEF IInv, TakePermit
  <2>3. PoolType'
    BY Zenon, <1>2 DEF IInv, PoolType, Phases, Errors, Returned, poolVars, TakePermit
  <2>4. NoLeak'
    BY Zenon, <1>2, <2>1, <2>3 DEF IInv, PoolType, Phases, Errors, NoLeak, HoldsJust, HoldsConn, HoldsWaiter, poolVars, wqVars, TakePermit
  <2>5. BackendExclusive'
    BY Zenon, <1>2 DEF IInv, PoolType, BackendExclusive, NoLeak, HoldsJust, HoldsConn, HoldsWaiter, Held, Kept, Returned, poolVars, TakePermit
  <2> QED BY Zenon, <2>1, <2>3, <2>4, <2>5 DEF IInv
<1>3. ASSUME NEW c \in Clients, Recycle(c)
      PROVE  IInv'
  <2>1. phase[c] \in {"get1", "get2"} /\ conn[c] = NoBackend
    BY Zenon, <1>3 DEF Recycle, IInv, NoLeak, HoldsJust, HoldsConn
  <2>2. QueueInv' /\ (phase[c] = "get2" => DropWaiter(c)) /\ (phase[c] = "get1" => UNCHANGED wqVars)
    BY Zenon, <1>3, <2>1, DropInv, QueueUnchanged DEF Recycle, GotBackend, IInv
  <2>3. PoolType'
    BY <1>3 DEF Recycle, GotBackend, IInv, PoolType, Phases
  <2>4. NoLeak'
    <3>1. ASSUME NEW d \in Clients
          PROVE  HoldsJust(d)'
      <4>1. waiter'[c] = "none" /\ (d # c => waiter'[d] = waiter[d])
        BY Zenon, <2>1, <2>2 DEF IInv, NoLeak, HoldsJust, HoldsWaiter, wqVars, DropWaiter,
           QueueInv, WaitQueueType
      <4> QED
        BY <1>3, <4>1
        DEF Recycle, GotBackend, IInv, PoolType, NoLeak, HoldsJust, HoldsConn, HoldsWaiter
    <3> QED BY Zenon, <3>1 DEF NoLeak
  <2>5. BackendExclusive'
    BY <1>3, <2>1 DEF Recycle, GotBackend, IInv, PoolType, BackendExclusive, Held, Kept
  <2> QED BY Zenon, <2>2, <2>3, <2>4, <2>5 DEF IInv
<1>4. ASSUME NEW c \in Clients, Discard(c)
      PROVE  IInv'
  <2>1. QueueInv' /\ UNCHANGED wqVars
    BY Zenon, <1>4, QueueUnchanged DEF IInv, Discard
  <2>3. PoolType'
    BY Zenon, <1>4 DEF IInv, PoolType, Phases, Errors, Returned, poolVars, Discard
  <2>4. NoLeak'
    BY Zenon, <1>4, <2>1, <2>3 DEF IInv, PoolType, Phases, Errors, NoLeak, HoldsJust, HoldsConn, HoldsWaiter, poolVars, wqVars, Discard
  <2>5. BackendExclusive'
    BY Zenon, <1>4 DEF IInv, PoolType, BackendExclusive, NoLeak, HoldsJust, HoldsConn, HoldsWaiter, Held, Kept, Returned, poolVars, Discard
  <2> QED BY Zenon, <2>1, <2>3, <2>4, <2>5 DEF IInv
<1>5. ASSUME NEW c \in Clients, Create(c)
      PROVE  IInv'
  <2>1. phase[c] \in {"get1", "get2"} /\ conn[c] = NoBackend
    BY Zenon, <1>5 DEF Create, IInv, NoLeak, HoldsJust, HoldsConn
  <2>2. QueueInv' /\ (phase[c] = "get2" => DropWaiter(c)) /\ (phase[c] = "get1" => UNCHANGED wqVars)
    BY Zenon, <1>5, <2>1, DropInv, QueueUnchanged DEF Create, GotBackend, IInv
  <2>3. PoolType'
    BY <1>5 DEF Create, GotBackend, IInv, PoolType, Phases
  <2>4. NoLeak'
    <3>1. ASSUME NEW d \in Clients
          PROVE  HoldsJust(d)'
      <4>1. waiter'[c] = "none" /\ (d # c => waiter'[d] = waiter[d])
        BY Zenon, <2>1, <2>2 DEF IInv, NoLeak, HoldsJust, HoldsWaiter, wqVars, DropWaiter,
           QueueInv, WaitQueueType
      <4> QED
        BY <1>5, <4>1
        DEF Create, GotBackend, IInv, PoolType, NoLeak, HoldsJust, HoldsConn, HoldsWaiter
    <3> QED BY Zenon, <3>1 DEF NoLeak
  <2>5. BackendExclusive'
    BY <1>5, <2>1 DEF Create, GotBackend, IInv, PoolType, BackendExclusive, Held, Kept
  <2> QED BY Zenon, <2>2, <2>3, <2>4, <2>5 DEF IInv
<1>6. ASSUME NEW c \in Clients, CreateFails(c)
      PROVE  IInv'
  <2>1. phase[c] \in {"get1", "get2"} /\ conn[c] = NoBackend
    BY Zenon, <1>6 DEF CreateFails, IInv, NoLeak, HoldsJust, HoldsConn
  <2>2. CASE phase[c] = "get1" /\ WaitForConnection(c)
    <3>1. waiter[c] = "none"
      BY Zenon, <2>2 DEF IInv, NoLeak, HoldsJust, HoldsWaiter
    <3>2. /\ QueueInv'
          /\ phase' \in [Clients -> Phases]
          /\ \A d \in Clients : d # c => phase'[d] = phase[d] /\ waiter'[d] = waiter[d]
          /\ \/ phase'[c] = "wait" /\ waiter'[c] = "parked"
             \/ phase'[c] = "QueueFull" /\ waiter'[c] = "none"
      BY Zenon, <2>2, <3>1, WaitForConnectionInv
    <3> QED
      BY <1>6, <2>1, <3>2
      DEF CreateFails, IInv, PoolType, NoLeak, HoldsJust, HoldsConn, HoldsWaiter, BackendExclusive
  <2>3. CASE DropWaiter(c) /\ phase' = [phase EXCEPT ![c] = "PoolError"]
    <3>1. QueueInv'
      BY Zenon, <2>3, DropInv DEF IInv
    <3>2. PoolType'
      BY Zenon, <1>6, <2>3 DEF CreateFails, IInv, PoolType, Phases, Errors
    <3>3. NoLeak'
      BY <1>6, <2>1, <2>3 DEF CreateFails, IInv, PoolType, NoLeak, HoldsJust, HoldsConn,
         HoldsWaiter, DropWaiter, QueueInv, WaitQueueType
    <3> QED BY Zenon, <1>6, <3>1, <3>2, <3>3 DEF CreateFails, IInv, BackendExclusive
  <2> QED BY Zenon, <1>6, <2>2, <2>3 DEF CreateFails
<1>7. ASSUME NEW c \in Clients, Woken(c)
      PROVE  IInv'
  <2>1. conn[c] = NoBackend /\ c \notin permit
    BY Zenon, <1>7 DEF Woken, IInv, NoLeak, HoldsJust, HoldsConn
  <2>2. CASE phase' = [phase EXCEPT ![c] = "get2"] /\ UNCHANGED wqVars
    <3>1. QueueInv'
      BY Zenon, <2>2, QueueUnchanged DEF IInv
    <3> QED
      BY <1>7, <2>1, <2>2, <3>1 DEF Woken, IInv, PoolType, Phases, NoLeak, HoldsJust, HoldsConn,
         HoldsWaiter, BackendExclusive, wqVars, poolVars
  <2>3. CASE DropWaiter(c) /\ phase' = [phase EXCEPT ![c] = "PoolError"]
    <3>1. QueueInv'
      BY Zenon, <2>3, DropInv DEF IInv
    <3>2. PoolType' /\ BackendExclusive'
      BY Zenon, <1>7, <2>3 DEF Woken, IInv, PoolType, Phases, Errors, BackendExclusive, poolVars
    <3>3. NoLeak'
      BY <1>7, <2>1, <2>3 DEF Woken, IInv, PoolType, NoLeak, HoldsJust, HoldsConn,
         HoldsWaiter, DropWaiter, QueueInv, WaitQueueType, poolVars
    <3> QED BY Zenon, <3>1, <3>2, <3>3 DEF IInv
  <2> QED BY Zenon, <1>7, <2>2, <2>3 DEF Woken
<1>8. ASSUME NEW c \in Clients, TimesOut(c)
      PROVE  IInv'
  <2>0. DropWaiter(c)
    BY Zenon, <1>8 DEF TimesOut
  <2>1. QueueInv'
    BY Zenon, <2>0, DropInv DEF IInv
  <2>3. PoolType'
    BY Zenon, <1>8 DEF IInv, PoolType, Phases, Errors, Returned, poolVars, TimesOut
  <2>4. NoLeak'
    BY <1>8, <2>0, <2>3 DEF IInv, PoolType, Phases, Errors, NoLeak, HoldsJust, HoldsConn, HoldsWaiter, poolVars, DropWaiter, QueueInv, WaitQueueType, TimesOut
  <2>5. BackendExclusive'
    BY <1>8 DEF IInv, PoolType, BackendExclusive, NoLeak, HoldsJust, HoldsConn, HoldsWaiter, Held, Kept, Returned, poolVars, TimesOut
  <2> QED BY Zenon, <2>1, <2>3, <2>4, <2>5 DEF IInv
<1>9. ASSUME NEW c \in Clients, Release(c)
      PROVE  IInv'
  <2>0. NotifyOne
    BY Zenon, <1>9 DEF Release
  <2>1. QueueInv'
    BY Zenon, <2>0, NotifyInv DEF IInv
  <2>2. \A d \in Clients :
          /\ waiter'[d] # "none" <=> waiter[d] # "none"
          /\ waiter[d] = "notified" => waiter'[d] = "notified"
    BY Zenon, <2>0, NotifyWaiter DEF IInv
  <2>3. PoolType'
    BY <1>9 DEF IInv, PoolType, Phases, Errors, Returned, poolVars, Release
  <2>4. NoLeak'
    BY <1>9, <2>2
    DEF IInv, PoolType, NoLeak, HoldsJust, HoldsConn, HoldsWaiter, poolVars, Release
  <2>5. BackendExclusive'
    BY <1>9 DEF IInv, PoolType, BackendExclusive, NoLeak, HoldsJust, HoldsConn, HoldsWaiter, Held, Kept, Returned, poolVars, Release
  <2> QED BY Zenon, <2>1, <2>3, <2>4, <2>5 DEF IInv
<1>10. ASSUME NEW c \in Clients, DropConn(c)
      PROVE  IInv'
  <2>1. QueueInv' /\ UNCHANGED wqVars
    BY Zenon, <1>10, QueueUnchanged DEF IInv, DropConn
  <2>3. PoolType'
    BY Zenon, <1>10 DEF IInv, PoolType, Phases, Errors, Returned, poolVars, DropConn
  <2>4. NoLeak'
    BY <1>10, <2>1, <2>3 DEF IInv, PoolType, Phases, Errors, NoLeak, HoldsJust, HoldsConn, HoldsWaiter, poolVars, wqVars, DropConn
  <2>5. BackendExclusive'
    BY <1>10 DEF IInv, PoolType, BackendExclusive, NoLeak, HoldsJust, HoldsConn, HoldsWaiter, Held, Kept, Returned, poolVars, DropConn
  <2> QED BY Zenon, <2>1, <2>3, <2>4, <2>5 DEF IInv
<1>11. ASSUME NEW c \in Clients, Abort(c)
      PROVE  IInv'
  <2>1. QueueInv' /\ (waiter[c] = "none" => UNCHANGED wqVars) /\ (waiter[c] # "none" => DropWaiter(c))
    BY Zenon, <1>11, DropInv, QueueUnchanged DEF Abort, IInv
  <2>2. PoolType'
    BY Zenon, <1>11 DEF Abort, IInv, PoolType, Phases, Returned
  <2>3. NoLeak'
    <3>1. ASSUME NEW d \in Clients, d # c PROVE HoldsJust(d)'
      <4>1. /\ phase'[d] = phase[d] /\ conn'[d] = conn[d] /\ (d \in permit' => d \in permit)
            /\ waiter'[d] = waiter[d]
        BY Zenon, <1>11, <2>1, <3>1 DEF Abort, GoTo, IInv, PoolType, DropWaiter, QueueInv, WaitQueueType, wqVars
      <4> QED BY Zenon, <4>1 DEF IInv, NoLeak, HoldsJust, HoldsConn, HoldsWaiter
    <3>2. HoldsJust(c)'
      <4>1. phase'[c] = "out" /\ conn'[c] = NoBackend /\ c \notin permit'
        BY Zenon, <1>11 DEF Abort, GoTo, IInv, PoolType
      <4>2. waiter'[c] = "none"
        BY Zenon, <2>1 DEF DropWaiter, IInv, QueueInv, WaitQueueType, wqVars
      <4> QED BY Zenon, <4>1, <4>2 DEF HoldsJust, HoldsConn, HoldsWaiter
    <3> QED BY Zenon, <3>1, <3>2 DEF NoLeak
  <2>4. BackendExclusive'
    BY <1>11 DEF Abort, IInv, PoolType, BackendExclusive, Returned
  <2> QED BY Zenon, <2>1, <2>2, <2>3, <2>4 DEF IInv
<1>12. ASSUME NEW c \in Clients, HandleAcquireError(c)
      PROVE  IInv'
  <2>1. QueueInv' /\ UNCHANGED wqVars
    BY Zenon, <1>12, QueueUnchanged DEF IInv, HandleAcquireError
  <2>3. PoolType'
    BY Zenon, <1>12 DEF IInv, PoolType, Phases, Errors, Returned, poolVars, HandleAcquireError
  <2>4. NoLeak'
    BY <1>12, <2>1, <2>3 DEF IInv, PoolType, Phases, Errors, NoLeak, HoldsJust, HoldsConn, HoldsWaiter, poolVars, wqVars, HandleAcquireError
  <2>5. BackendExclusive'
    BY Zenon, <1>12 DEF IInv, PoolType, BackendExclusive, NoLeak, HoldsJust, HoldsConn, HoldsWaiter, Held, Kept, Returned, poolVars, HandleAcquireError
  <2> QED BY Zenon, <2>1, <2>3, <2>4, <2>5 DEF IInv
<1>13. ASSUME NEW c \in Clients, Pin(c)
      PROVE  IInv'
  <2>1. QueueInv' /\ UNCHANGED wqVars
    BY Zenon, <1>13, QueueUnchanged DEF IInv, Pin
  <2>3. PoolType'
    BY <1>13 DEF IInv, PoolType, Phases, Errors, Returned, poolVars, Pin
  <2>4. NoLeak'
    BY <1>13, <2>1, <2>3 DEF IInv, PoolType, Phases, Errors, NoLeak, HoldsJust, HoldsConn, HoldsWaiter, poolVars, wqVars, Pin
  <2>5. BackendExclusive'
    BY <1>13 DEF IInv, PoolType, BackendExclusive, NoLeak, HoldsJust, HoldsConn, HoldsWaiter, Held, Kept, Returned, poolVars, Pin
  <2> QED BY Zenon, <2>1, <2>3, <2>4, <2>5 DEF IInv
<1>14. ASSUME NEW c \in Clients, Unpin(c)
      PROVE  IInv'
  <2>0. NotifyOne
    BY Zenon, <1>14 DEF Unpin
  <2>1. QueueInv'
    BY Zenon, <2>0, NotifyInv DEF IInv
  <2>2. \A d \in Clients :
          /\ waiter'[d] # "none" <=> waiter[d] # "none"
          /\ waiter[d] = "notified" => waiter'[d] = "notified"
    BY Zenon, <2>0, NotifyWaiter DEF IInv
  <2>3. PoolType'
    BY Zenon, <1>14 DEF IInv, PoolType, Phases, Errors, Returned, poolVars, Unpin
  <2>4. NoLeak'
    BY <1>14, <2>2
    DEF IInv, PoolType, NoLeak, HoldsJust, HoldsConn, HoldsWaiter, poolVars, Unpin
  <2>5. BackendExclusive'
    BY <1>14 DEF IInv, PoolType, BackendExclusive, NoLeak, HoldsJust, HoldsConn, HoldsWaiter, Held, Kept, Returned, poolVars, Unpin
  <2> QED BY Zenon, <2>1, <2>3, <2>4, <2>5 DEF IInv
<1>15. ASSUME NEW c \in Clients, Age(c)
      PROVE  IInv'
  <2>1. QueueInv' /\ UNCHANGED wqVars
    BY Zenon, <1>15, QueueUnchanged DEF IInv, Age
  <2>3. PoolType'
    BY Zenon, <1>15 DEF IInv, PoolType, Phases, Errors, Returned, poolVars, Age
  <2>4. NoLeak'
    BY Zenon, <1>15, <2>1, <2>3 DEF IInv, PoolType, Phases, Errors, NoLeak, HoldsJust, HoldsConn, HoldsWaiter, poolVars, wqVars, Age
  <2>5. BackendExclusive'
    BY <1>15 DEF IInv, PoolType, BackendExclusive, NoLeak, HoldsJust, HoldsConn, HoldsWaiter, Held, Kept, Returned, poolVars, Age
  <2> QED BY Zenon, <2>1, <2>3, <2>4, <2>5 DEF IInv
<1>16. ASSUME CleanupScan
      PROVE  IInv'
  <2>1. QueueInv' /\ UNCHANGED wqVars
    BY Zenon, <1>16, QueueUnchanged DEF IInv, CleanupScan
  <2>3. PoolType'
    BY Zenon, <1>16 DEF IInv, PoolType, Phases, Errors, Returned, poolVars, CleanupScan
  <2>4. NoLeak'
    BY <1>16, <2>1, <2>3 DEF IInv, PoolType, Phases, Errors, NoLeak, HoldsJust, HoldsConn, HoldsWaiter, poolVars, wqVars, CleanupScan
  <2>5. BackendExclusive'
    BY <1>16 DEF IInv, PoolType, BackendExclusive, NoLeak, HoldsJust, HoldsConn, HoldsWaiter, Held, Kept, Returned, poolVars, CleanupScan
  <2> QED BY Zenon, <2>1, <2>3, <2>4, <2>5 DEF IInv
<1>17. ASSUME NEW c \in Clients, CleanupRemove(c)
      PROVE  IInv'
  <2>1. QueueInv' /\ UNCHANGED wqVars
    BY Zenon, <1>17, QueueUnchanged DEF IInv, CleanupRemove
  <2>3. PoolType'
    BY <1>17 DEF IInv, PoolType, Phases, Errors, Returned, poolVars, CleanupRemove
  <2>4. NoLeak'
    BY Zenon, <1>17, <2>1, <2>3 DEF IInv, PoolType, Phases, Errors, NoLeak, HoldsJust, HoldsConn, HoldsWaiter, poolVars, wqVars, CleanupRemove
  <2>5. BackendExclusive'
    BY <1>17 DEF IInv, PoolType, BackendExclusive, NoLeak, HoldsJust, HoldsConn, HoldsWaiter, Held, Kept, Returned, poolVars, CleanupRemove
  <2> QED BY Zenon, <2>1, <2>3, <2>4, <2>5 DEF IInv
<1>18. ASSUME CleanupNotify
      PROVE  IInv'
  <2>0. NotifyOne
    BY Zenon, <1>18 DEF CleanupNotify
  <2>1. QueueInv'
    BY Zenon, <2>0, NotifyInv DEF IInv
  <2>2. \A d \in Clients :
          /\ waiter'[d] # "none" <=> waiter[d] # "none"
          /\ waiter[d] = "notified" => waiter'[d] = "notified"
    BY Zenon, <2>0, NotifyWaiter DEF IInv
  <2>3. PoolType'
    BY <1>18 DEF IInv, PoolType, Phases, Errors, Returned, poolVars, CleanupNotify
  <2>4. NoLeak'
    BY Zenon, <1>18, <2>2
    DEF IInv, PoolType, NoLeak, HoldsJust, HoldsConn, HoldsWaiter, poolVars, CleanupNotify
  <2>5. BackendExclusive'
    BY Zenon, <1>18 DEF IInv, PoolType, BackendExclusive, NoLeak, HoldsJust, HoldsConn, HoldsWaiter, Held, Kept, Returned, poolVars, CleanupNotify
  <2> QED BY Zenon, <2>1, <2>3, <2>4, <2>5 DEF IInv
<1>19. ASSUME Pause
      PROVE  IInv'
  <2>1. QueueInv' /\ UNCHANGED wqVars
    BY Zenon, <1>19, QueueUnchanged DEF IInv, Pause
  <2>3. PoolType'
    BY Zenon, <1>19 DEF IInv, PoolType, Phases, Errors, Returned, poolVars, Pause
  <2>4. NoLeak'
    BY Zenon, <1>19, <2>1, <2>3 DEF IInv, PoolType, Phases, Errors, NoLeak, HoldsJust, HoldsConn, HoldsWaiter, poolVars, wqVars, Pause
  <2>5. BackendExclusive'
    BY <1>19 DEF IInv, PoolType, BackendExclusive, NoLeak, HoldsJust, HoldsConn, HoldsWaiter, Held, Kept, Returned, poolVars, Pause
  <2> QED BY Zenon, <2>1, <2>3, <2>4, <2>5 DEF IInv
<1>20. ASSUME Resume
      PROVE  IInv'
  <2>0. NotifyOne
    BY <1>20 DEF Resume
  <2>1. QueueInv'
    BY Zenon, <2>0, NotifyInv DEF IInv
  <2>2. \A d \in Clients :
          /\ waiter'[d] # "none" <=> waiter[d] # "none"
          /\ waiter[d] = "notified" => waiter'[d] = "notified"
    BY Zenon, <2>0, NotifyWaiter DEF IInv
  <2>3. PoolType'
    BY Zenon, <1>20 DEF IInv, PoolType, Phases, Errors, Returned, poolVars, Resume
  <2>4. NoLeak'
    BY Zenon, <1>20, <2>2
    DEF IInv, PoolType, NoLeak, HoldsJust, HoldsConn, HoldsWaiter, poolVars, Resume
  <2>5. BackendExclusive'
    BY <1>20 DEF IInv, PoolType, BackendExclusive, NoLeak, HoldsJust, HoldsConn, HoldsWaiter, Held, Kept, Returned, poolVars, Resume
  <2> QED BY Zenon, <2>1, <2>3, <2>4, <2>5 DEF IInv
<1>21. ASSUME CircuitChanges
      PROVE  IInv'
  <2>1. QueueInv' /\ UNCHANGED wqVars
    BY Zenon, <1>21, QueueUnchanged DEF IInv, CircuitChanges
  <2>3. PoolType'
    BY Zenon, <1>21 DEF IInv, PoolType, Phases, Errors, Returned, poolVars, CircuitChanges
  <2>4. NoLeak'
    BY <1>21, <2>1, <2>3 DEF IInv, PoolType, Phases, Errors, NoLeak, HoldsJust, HoldsConn, HoldsWaiter, poolVars, wqVars, CircuitChanges
  <2>5. BackendExclusive'
    BY <1>21 DEF IInv, PoolType, BackendExclusive, NoLeak, HoldsJust, HoldsConn, HoldsWaiter, Held, Kept, Returned, poolVars, CircuitChanges
  <2> QED BY Zenon, <2>1, <2>3, <2>4, <2>5 DEF IInv
<1> QED
  BY SMTT(30), <1>0, <1>1, <1>2, <1>3, <1>4, <1>5, <1>6, <1>7, <1>8, <1>9, <1>10, <1>11,
     <1>12, <1>13, <1>14, <1>15, <1>16, <1>17, <1>18, <1>19, <1>20, <1>21
  DEF Next, Handler, Cleanup

-----------------------------------------------------------------------------
(* The invariant holds in every reachable state.                           *)
LEMMA AlwaysIInv == Spec => []IInv
<1>1. Init => IInv
  BY Zenon, InitInv
<1>2. IInv /\ [Next]_vars => IInv'
  BY Zenon, NextInv
<1> QED BY <1>1, <1>2, PTL DEF Spec

(* Type correctness of the pool manager and the wait queue.                *)
THEOREM TypeCorrect == Spec => []TypeOK
<1>1. IInv => TypeOK
  BY Zenon DEF IInv, QueueInv, PoolType, TypeOK
<1> QED BY <1>1, AlwaysIInv, PTL

(* A backend is never with two clients, nor in use and idle at once, for   *)
(* any number of clients and backends: release, pin, unpin, cleanup_idle   *)
(* and aborts included.                                                    *)
THEOREM Exclusive == Spec => []BackendExclusive
<1>1. IInv => BackendExclusive
  BY Zenon DEF IInv
<1> QED BY <1>1, AlwaysIInv, PTL

(* No path through acquire() leaks a connection, a Waiter or a permit.     *)
THEOREM NothingLeaks == Spec => []NoLeak
<1>1. IInv => NoLeak
  BY Zenon DEF IInv
<1> QED BY <1>1, AlwaysIInv, PTL

(* The wait queue: every parked client has exactly one sender in the       *)
(* deque, the deque is bounded and the depth counter is exact.             *)
THEOREM QueueConsistent ==
  Spec => []ParkedAreReachable /\ []QueueBounded /\ []DepthCountsWaiters
<1>1. IInv => ParkedAreReachable /\ QueueBounded /\ DepthCountsWaiters
  BY Zenon DEF IInv, QueueInv
<1> QED BY <1>1, AlwaysIInv, PTL

-----------------------------------------------------------------------------
(* The backends that a map from clients to slots mentions: Held and Kept   *)
(* are Used(conn) and Used(sticky).                                        *)
Used(f) == {f[c] : c \in Clients} \ {NoBackend}

(* Finitely many backends are in use.                                      *)
LEMMA UsedFinite ==
  ASSUME NEW f \in [Clients -> Slots]
  PROVE  IsFiniteSet(Used(f)) /\ Cardinality(Used(f)) \in Nat
<1>1. Used(f) \in SUBSET Backends
  BY Zenon DEF Used, Slots
<1> QED BY Zenon, <1>1, PoolAssumption, FS_Subset, FS_CardinalityType

(* Giving a client that has none a backend that nobody has adds one.       *)
LEMMA PutIn ==
  ASSUME NEW f \in [Clients -> Slots], NEW c \in Clients, NEW b \in Backends,
         f[c] = NoBackend, \A d \in Clients : f[d] # b
  PROVE  Cardinality(Used([f EXCEPT ![c] = b])) = Cardinality(Used(f)) + 1
<1>1. Used([f EXCEPT ![c] = b]) = Used(f) \cup {b} /\ b \notin Used(f)
  BY Zenon, PoolAssumption DEF Used, Slots
<1> QED BY Zenon, <1>1, UsedFinite, FS_AddElement

(* Taking away the backend that only this client has removes one.          *)
LEMMA TakeOut ==
  ASSUME NEW f \in [Clients -> Slots], NEW c \in Clients,
         f[c] # NoBackend, \A d \in Clients : d # c => f[d] # f[c]
  PROVE  Cardinality(Used([f EXCEPT ![c] = NoBackend])) = Cardinality(Used(f)) - 1
<1>1. Used([f EXCEPT ![c] = NoBackend]) = Used(f) \ {f[c]} /\ f[c] \in Used(f)
  BY Zenon, PoolAssumption DEF Used, Slots
<1>2. IsFiniteSet(Used(f))
  BY Zenon, UsedFinite
<1>3. Cardinality(Used(f) \ {f[c]}) = Cardinality(Used(f)) - 1
  BY Zenon, <1>1, <1>2, FS_RemoveElement
<1> QED BY Zenon, <1>1, <1>3

(* Clearing a slot, taken or not, never adds one.                          *)
LEMMA Cleared ==
  ASSUME NEW f \in [Clients -> Slots], NEW c \in Clients
  PROVE  Cardinality(Used([f EXCEPT ![c] = NoBackend])) <= Cardinality(Used(f))
<1>1. Used([f EXCEPT ![c] = NoBackend]) \in SUBSET Used(f)
  BY Zenon DEF Used, Slots
<1> QED BY Zenon, <1>1, UsedFinite, FS_Subset

(* Giving up a permit frees one, taking it takes one.                      *)
LEMMA PermitFinite ==
  ASSUME permit \in SUBSET Clients, NEW c \in Clients
  PROVE  /\ Cardinality(permit) \in Nat
         /\ Cardinality(permit \ {c}) <= Cardinality(permit)
         /\ Cardinality(permit \ {c}) \in Nat
         /\ c \in permit => Cardinality(permit \ {c}) = Cardinality(permit) - 1
         /\ c \notin permit => Cardinality(permit \cup {c}) = Cardinality(permit) + 1
<1>1. IsFiniteSet(permit)
  BY Zenon, WaitQueueAssumption, FS_Subset
<1> QED BY <1>1, FS_CardinalityType, FS_RemoveElement, FS_AddElement

(* What is in use, by where it is.                                         *)
LEMMA InUseIs ==
  InUse = Cardinality(Used(conn)) + Cardinality(Used(sticky)) + Cardinality(permit)
  BY Zenon DEF InUse, Held, Kept, Used

(* get() turns a permit into a connection.                                 *)
LEMMA GotBackendBounded ==
  ASSUME IInv, PoolBounded, NEW c \in Clients, NEW b \in Backends, c \in permit,
         GotBackend(c, b), UNCHANGED sticky, \A d \in Clients : conn[d] # b
  PROVE  PoolBounded'
<1>1. conn[c] = NoBackend
  BY Zenon DEF IInv, NoLeak, HoldsJust, HoldsConn
<1>2. Cardinality(Used(conn')) = Cardinality(Used(conn)) + 1
  BY Zenon, <1>1, PutIn DEF GotBackend, IInv, PoolType
<1>3. Cardinality(permit') = Cardinality(permit) - 1
  BY Zenon, PermitFinite DEF GotBackend, IInv, PoolType
<1>4. /\ Cardinality(Used(conn)) \in Nat /\ Cardinality(Used(sticky)) \in Nat
      /\ Cardinality(permit) \in Nat
  BY Zenon, UsedFinite, PermitFinite DEF IInv, PoolType
<1>5. InUse' = Cardinality(Used(conn')) + Cardinality(Used(sticky)) + Cardinality(permit')
  BY Zenon, InUseIs DEF InUse, Held, Kept, Used
<1> QED BY <1>2, <1>3, <1>4, <1>5, InUseIs DEF PoolBounded

(* Every step keeps the connections in use within the slots of the pool.   *)
LEMMA BoundedStep == IInv /\ PoolBounded /\ [Next]_vars => PoolBounded'
<1> SUFFICES ASSUME IInv, PoolBounded, [Next]_vars PROVE PoolBounded'
  BY Zenon
<1> DEFINE H == Cardinality(Used(conn))
           K == Cardinality(Used(sticky))
           P == Cardinality(permit)
<1>a. conn \in [Clients -> Slots] /\ sticky \in [Clients -> Slots] /\ permit \in SUBSET Clients
  BY Zenon DEF IInv, PoolType
<1>b. H \in Nat /\ K \in Nat /\ P \in Nat /\ InUse = H + K + P
  <2>1. IsFiniteSet(permit)
    BY Zenon, <1>a, WaitQueueAssumption, FS_Subset
  <2> QED BY <1>a, <2>1, UsedFinite, InUseIs, FS_CardinalityType
<1>c. conn' \in [Clients -> Slots] /\ sticky' \in [Clients -> Slots] /\ permit' \in SUBSET Clients
  BY Zenon, NextInv DEF IInv, PoolType
<1>d. H' \in Nat /\ K' \in Nat /\ P' \in Nat /\ InUse' = H' + K' + P'
  <2>1. IsFiniteSet(permit')
    BY Zenon, <1>c, WaitQueueAssumption, FS_Subset
  <2> QED BY <1>c, <2>1, UsedFinite, FS_CardinalityType DEF InUse, Held, Kept, Used
<1>e. Cardinality(Backends) \in Nat
  BY Zenon, PoolAssumption, FS_CardinalityType
<1>f. ASSUME H' + K' + P' <= H + K + P PROVE PoolBounded'
  <2> QED BY <1>b, <1>d, <1>e, <1>f DEF PoolBounded
<1>g. CASE UNCHANGED <<conn, sticky, permit>>
  BY <1>f, <1>b, <1>g
<1>1. ASSUME NEW c \in Clients, NEW s \in BOOLEAN, Acquire(c, s)
      PROVE  PoolBounded'
  <2>1. CASE UNCHANGED poolVars
    BY Zenon, <1>g, <2>1 DEF poolVars
  <2>2. CASE /\ sticky[c] # NoBackend
             /\ conn' = [conn EXCEPT ![c] = sticky[c]]
             /\ sticky' = [sticky EXCEPT ![c] = NoBackend]
             /\ UNCHANGED permit
    <3>1. conn[c] = NoBackend /\ sticky[c] \in Backends
      BY <1>1, <1>a, <2>2 DEF Acquire, IInv, NoLeak, HoldsJust, HoldsConn, Slots
    <3>2. \A d \in Clients : conn[d] # sticky[c]
      BY Zenon, <2>2 DEF IInv, BackendExclusive
    <3>3. H' = H + 1
      BY <1>a, <2>2, <3>1, <3>2, PutIn
    <3>4. K' = K - 1
      BY Zenon, <1>a, <2>2, TakeOut DEF IInv, BackendExclusive
    <3>5. P' = P
      BY Zenon, <2>2
    <3> QED BY <1>b, <1>f, <3>3, <3>4, <3>5
  <2> QED BY Zenon, <1>1, <2>1, <2>2 DEF Acquire, poolVars
<1>2. ASSUME NEW c \in Clients, TakePermit(c)
      PROVE  PoolBounded'
  <2>1. P' = P + 1 /\ H' = H /\ K' = K
    BY Zenon, <1>a, <1>2, PermitFinite DEF TakePermit
  <2> QED BY <1>2, <1>b, <1>d, <1>e, <2>1 DEF TakePermit, PoolBounded
<1>3. ASSUME NEW c \in Clients, Recycle(c)
      PROVE  PoolBounded'
  <2>1. PICK b \in idle : GotBackend(c, b)
    BY Zenon, <1>3 DEF Recycle
  <2>2. b \in Backends /\ \A d \in Clients : conn[d] # b
    BY Zenon DEF IInv, PoolType, BackendExclusive
  <2> QED BY Zenon, <1>3, <2>1, <2>2, GotBackendBounded DEF Recycle
<1>4. ASSUME NEW c \in Clients, Create(c)
      PROVE  PoolBounded'
  <2>1. PICK b \in Backends \ (Held \cup Kept) : GotBackend(c, b)
    BY Zenon, <1>4 DEF Create
  <2>2. \A d \in Clients : conn[d] # b
    BY Zenon, PoolAssumption DEF Held
  <2> QED BY <1>4, <2>1, <2>2, GotBackendBounded DEF Create
<1>5. ASSUME NEW c \in Clients, CreateFails(c)
      PROVE  PoolBounded'
  <2>1. P' <= P /\ H' = H /\ K' = K
    BY Zenon, <1>5, <1>a, PermitFinite DEF CreateFails
  <2> QED BY <1>b, <1>d, <1>f, <2>1
<1>6. ASSUME NEW c \in Clients, Release(c)
      PROVE  PoolBounded'
  <2>1. CASE UNCHANGED <<conn, sticky>>
    BY Zenon, <1>6, <1>g, <2>1 DEF Release
  <2>2. CASE /\ sticky[c] = NoBackend
             /\ sticky' = [sticky EXCEPT ![c] = conn[c]]
             /\ conn' = [conn EXCEPT ![c] = NoBackend]
    <3>1. conn[c] # NoBackend /\ conn[c] \in Backends
      BY Zenon, <1>6, <1>a DEF Release, IInv, NoLeak, HoldsJust, HoldsConn, Slots
    <3>2. \A d \in Clients : sticky[d] # conn[c]
      BY Zenon, <3>1 DEF IInv, BackendExclusive
    <3>3. H' = H - 1
      BY <1>a, <2>2, <3>1, TakeOut DEF IInv, BackendExclusive
    <3>4. K' = K + 1
      BY <1>a, <2>2, <3>1, <3>2, PutIn
    <3>5. P' = P
      BY Zenon, <1>6 DEF Release
    <3> QED BY <1>b, <1>f, <3>3, <3>4, <3>5
  <2> QED BY <1>6, <2>1, <2>2 DEF Release
<1>7. ASSUME NEW c \in Clients, DropConn(c) \/ Abort(c)
      PROVE  PoolBounded'
  <2>1. H' <= H
    BY <1>7, <1>a, Cleared DEF DropConn, Abort
  <2>2. P' <= P
    <3>1. permit' = permit \/ permit' = permit \ {c}
      BY Zenon, <1>7 DEF DropConn, Abort
    <3> QED BY <1>a, <1>b, <3>1, PermitFinite
  <2>3. K' = K
    BY Zenon, <1>7 DEF DropConn, Abort
  <2> QED BY <1>b, <1>d, <1>f, <2>1, <2>2, <2>3
<1>8. ASSUME NEW c \in Clients, Pin(c)
      PROVE  PoolBounded'
  <2>1. conn[c] # NoBackend /\ conn[c] \in Backends
    BY Zenon, <1>8, <1>a DEF Pin, IInv, NoLeak, HoldsJust, HoldsConn, Slots
  <2>2. H' = H - 1
    BY <1>a, <1>8, <2>1, TakeOut DEF Pin, IInv, BackendExclusive
  <2>3. K' <= K + 1
    <3>1. CASE sticky[c] = NoBackend
      <4>1. \A d \in Clients : sticky[d] # conn[c]
        BY Zenon, <2>1 DEF IInv, BackendExclusive
      <4>2. K' = K + 1
        <5>1. sticky' = [sticky EXCEPT ![c] = conn[c]]
          BY Zenon, <1>8, <3>1 DEF Pin
        <5> QED BY <1>a, <2>1, <3>1, <4>1, <5>1, PutIn
      <4> QED BY <1>b, <4>2
    <3>2. CASE sticky[c] # NoBackend
      <4>1. K' = K
        BY Zenon, <1>8, <3>2 DEF Pin
      <4> QED BY <1>b, <4>1
    <3> QED BY Zenon, <3>1, <3>2
  <2>4. P' = P
    BY Zenon, <1>8 DEF Pin
  <2> QED BY <1>b, <1>d, <1>f, <2>2, <2>3, <2>4
<1>9. ASSUME NEW c \in Clients, Unpin(c) \/ CleanupRemove(c)
      PROVE  PoolBounded'
  <2>1. K' <= K
    BY <1>9, <1>a, <1>b, Cleared DEF Unpin, CleanupRemove
  <2>2. H' = H /\ P' = P
    BY Zenon, <1>9 DEF Unpin, CleanupRemove
  <2> QED BY <1>b, <1>d, <1>f, <2>1, <2>2
<1>10. CASE \/ \E c \in Clients : Discard(c) \/ Woken(c) \/ TimesOut(c)
                                  \/ HandleAcquireError(c) \/ Age(c)
            \/ CleanupScan \/ CleanupNotify \/ Pause \/ Resume \/ CircuitChanges
            \/ UNCHANGED vars
  BY Zenon, <1>g, <1>10
  DEF Discard, Woken, TimesOut, HandleAcquireError, Age, CleanupScan, CleanupNotify, Pause,
      Resume, CircuitChanges, vars, poolVars
<1> QED
  BY <1>1, <1>2, <1>3, <1>4, <1>5, <1>6, <1>7, <1>8, <1>9, <1>10 DEF Next, Handler, Cleanup

(* The pool's max_size holds for any number of clients and slots, so a     *)
(* client past deadpool's semaphore always finds a slot.                   *)
THEOREM Bounded == Spec => []PoolBounded
<1>1. Init => PoolBounded
  <2> SUFFICES ASSUME Init PROVE PoolBounded
    BY Zenon
  <2>1. Held = {} /\ Kept = {} /\ permit = {}
    BY Zenon DEF Init, Held, Kept
  <2> QED BY <2>1, FS_EmptySet, FS_CardinalityType, PoolAssumption DEF PoolBounded, InUse
<1>2. IInv /\ PoolBounded /\ [Next]_vars => PoolBounded'
  BY Zenon, BoundedStep
<1> QED BY <1>1, <1>2, AlwaysIInv, PTL DEF Spec

(* A sticky backend is lost to its client only by its own unpin() or to a  *)
(* cleanup pass that found the entry aged, for any number of clients.      *)
THEOREM StickyIsKept == Spec => StickyKept
<1>1. ASSUME IInv, [Next]_vars
      PROVE  [\A c \in Clients :
                sticky[c] # NoBackend /\ sticky'[c] # sticky[c] =>
                  \/ conn'[c] = sticky[c]
                  \/ c \in aged
                  \/ Unpin(c)]_vars
  <2> DEFINE Kept1(c) == sticky[c] # NoBackend /\ sticky'[c] # sticky[c] =>
                           conn'[c] = sticky[c] \/ c \in aged \/ Unpin(c)
  <2> USE <1>1 DEF IInv, PoolType
  <2>1. CASE UNCHANGED sticky
    BY Zenon, <2>1
  <2>2. ASSUME NEW d \in Clients, NEW s \in BOOLEAN, Acquire(d, s), sticky' # sticky
        PROVE  \A c \in Clients : Kept1(c)
    BY <2>2 DEF Acquire, poolVars
  <2>3. ASSUME NEW d \in Clients, Release(d) \/ Pin(d)
        PROVE  \A c \in Clients : Kept1(c)
    BY Zenon, <2>3 DEF Release, Pin
  <2>4. ASSUME NEW d \in Clients, Unpin(d)
        PROVE  \A c \in Clients : Kept1(c)
    <3>1. \A c \in Clients : c # d => sticky'[c] = sticky[c]
      BY Zenon, <2>4 DEF Unpin
    <3> QED BY Zenon, <2>4, <3>1
  <2>5. ASSUME NEW d \in Clients, CleanupRemove(d)
        PROVE  \A c \in Clients : Kept1(c)
    BY Zenon, <2>5 DEF CleanupRemove
  <2> QED
    BY ZenonT(30), <2>1, <2>2, <2>3, <2>4, <2>5
    DEF Next, Handler, Cleanup, TakePermit, Recycle, Discard, Create, CreateFails, Woken,
        TimesOut, DropConn, Abort, HandleAcquireError, Age, CleanupScan, CleanupNotify, Pause,
        Resume, CircuitChanges, vars, poolVars
<1> QED BY <1>1, AlwaysIInv, PTL DEF Spec, StickyKept

-----------------------------------------------------------------------------
(* The wait queue implements WaitingRoom.  The deque, senders whose        *)
(* receiver is gone left out, is the line; three operations change it.     *)
RoomVars == <<InDeque, Before, Called>>

(* The waiting room counts as the pool manager does.                       *)
LEMMA RoomCardinality == \A S : Room!Cardinality(S) = Cardinality(S)
  BY Zenon DEF Cardinality, Room!Cardinality

(* The line is the parked clients, and no longer than the deque.           *)
LEMMA LineLength ==
  ASSUME QueueInv
  PROVE  Cardinality(InDeque) <= Len(waiters)
<1>1. Len(waiters) \in Nat
  BY DEF QueueInv, WaitQueueType
<1> DEFINE at == [c \in InDeque |-> CHOOSE i \in 1..Len(waiters) : waiters[i] = c]
<1>2. \A c \in InDeque : at[c] \in 1..Len(waiters) /\ waiters[at[c]] = c
  BY Zenon DEF InDeque
<1>3. at \in Injection(InDeque, 1..Len(waiters))
  BY <1>2 DEF Injection, IsInjective
<1> HIDE DEF at
<1>4. IsFiniteSet(1..Len(waiters)) /\ Cardinality(1..Len(waiters)) = Len(waiters)
  <2>1. 1 \in Int /\ Len(waiters) \in Int /\ (1 > Len(waiters) => Len(waiters) = 0)
    BY <1>1
  <2> QED BY <2>1, FS_Interval
<1> QED BY <1>3, <1>4, FS_Injection

(* enqueue is a client joining at the end of the line.                     *)
LEMMA EnqueueJoins ==
  ASSUME QueueInv, NEW c \in Clients, waiter[c] = "none", Enqueue(c)
  PROVE  Room!Join(c)
<1>1. /\ Len(waiters) \in Nat
      /\ Len(waiters') = Len(waiters) + 1
      /\ \A i \in 1..Len(waiters) : waiters'[i] = waiters[i] /\ waiters[i] # c
      /\ waiters'[Len(waiters) + 1] = c
  BY DEF QueueInv, WaitQueueType, ParkedAreReachable, Enqueue, Senders
<1>2. c \notin InDeque /\ c \notin Called
  BY Zenon, <1>1 DEF InDeque, Called
<1>3. Cardinality(InDeque) < MaxDepth
  <2>1. IsFiniteSet(InDeque)
    BY Zenon, WaitQueueAssumption, FS_Subset DEF InDeque
  <2> QED
    BY <1>1, <2>1, LineLength, FS_CardinalityType, WaitQueueAssumption DEF Enqueue, QueueFull
<1>4. InDeque' = InDeque \cup {c}
  BY <1>1 DEF InDeque
<1>5. Before' = Before \cup (InDeque \X {c})
  <2>1. ASSUME NEW p \in Before' PROVE p \in Before \cup (InDeque \X {c})
    <3>1. PICK i \in 1..Len(waiters'), j \in 1..Len(waiters') :
                 i < j /\ waiters'[i] = p[1] /\ waiters'[j] = p[2]
      BY Zenon DEF Before
    <3>p. p \in Clients \X Clients
      BY Zenon DEF Before
    <3>i. ASSUME NEW n \in Nat, NEW k \in 1..(n + 1), NEW l \in 1..(n + 1), k < l
          PROVE  k \in 1..n /\ (l = n + 1 \/ l \in 1..n)
      BY <3>i
    <3>j. i \in 1..Len(waiters) /\ (j = Len(waiters) + 1 \/ j \in 1..Len(waiters))
      BY Zenon, <1>1, <3>1, <3>i
    <3>2. p \in Clients \X Clients /\ i \in 1..Len(waiters)
      BY Zenon, <3>p, <3>j
    <3>3. CASE j = Len(waiters) + 1
      BY <1>1, <3>1, <3>2, <3>3 DEF InDeque
    <3>4. CASE j # Len(waiters) + 1
      <4>1. waiters[i] = p[1] /\ waiters[j] = p[2] /\ j \in 1..Len(waiters)
        BY Zenon, <1>1, <3>1, <3>j, <3>4
      <4> QED BY Zenon, <3>1, <3>2, <4>1 DEF Before
    <3> QED BY Zenon, <3>3, <3>4
  <2>2. ASSUME NEW p \in Before PROVE p \in Before'
    BY <1>1 DEF Before
  <2>3. ASSUME NEW p \in InDeque \X {c} PROVE p \in Before'
    <3>1. PICK i \in 1..Len(waiters) : waiters[i] = p[1]
      BY Zenon DEF InDeque
    <3>2. i < Len(waiters) + 1 /\ i \in 1..Len(waiters') /\ Len(waiters) + 1 \in 1..Len(waiters')
      BY <1>1
    <3>3. p \in Clients \X Clients /\ p[2] = c
      BY Zenon DEF InDeque
    <3> QED BY <1>1, <3>1, <3>2, <3>3 DEF Before
  <2> QED BY Zenon, <2>1, <2>2, <2>3
<1>6. Called' = Called
  BY Zenon DEF Called, Enqueue, QueueInv, WaitQueueType
<1>7. Room!Cardinality(InDeque) < MaxDepth
  BY Zenon, <1>3, RoomCardinality
<1> QED BY Zenon, <1>2, <1>4, <1>5, <1>6, <1>7 DEF Room!Join


(* Drop for Waiter is a client stepping out of the line, or leaving after  *)
(* it was called.                                                          *)
LEMMA DropLeaves ==
  ASSUME QueueInv, NEW c \in Clients, DropWaiter(c)
  PROVE  Room!Leave(c)
<1>1. /\ Len(waiters) \in Nat /\ Len(waiters') = Len(waiters)
      /\ \A i \in 1..Len(waiters) :
           waiters'[i] = IF waiters[i] = c THEN Dropped ELSE waiters[i]
  <2>1. DOMAIN waiters = 1..Len(waiters) /\ Len(waiters) \in Nat
    BY DEF QueueInv, WaitQueueType
  <2>2. waiters' = [i \in 1..Len(waiters) |->
                      IF waiters[i] = c THEN Dropped ELSE waiters[i]]
    BY Zenon, <2>1 DEF DropWaiter
  <2> QED BY <2>1, <2>2
<1>2. InDeque' = InDeque \ {c}
  BY Zenon, <1>1, WaitQueueAssumption DEF InDeque
<1>3. Before' = {p \in Before : p[1] # c /\ p[2] # c}
  BY <1>1, WaitQueueAssumption DEF Before
<1>4. CASE waiter[c] = "parked"
  <2>1. c \in InDeque
    BY Zenon, <1>4 DEF QueueInv, ParkedAreReachable, InDeque
  <2>2. Called' = Called
    BY Zenon, <1>4 DEF Called, DropWaiter, QueueInv, WaitQueueType
  <2> QED BY Zenon, <1>2, <1>3, <2>1, <2>2 DEF Room!Leave, Room!StepsOut
<1>5. CASE waiter[c] = "notified"
  <2>1. c \notin InDeque
    BY Zenon, <1>5 DEF QueueInv, ParkedAreReachable, InDeque
  <2>2. InDeque' = InDeque
    BY Zenon, <1>2, <2>1
  <2>3. Before' = Before
    <3>1. \A p \in Before : p[1] # c /\ p[2] # c
      BY Zenon, <2>1 DEF Before, InDeque
    <3> QED BY Zenon, <1>3, <3>1 DEF Before
  <2>4. c \in Called /\ Called' = Called \ {c}
    BY Zenon, <1>5 DEF Called, DropWaiter, QueueInv, WaitQueueType
  <2> QED BY Zenon, <2>2, <2>3, <2>4 DEF Room!Leave
<1> QED BY Zenon, <1>4, <1>5 DEF DropWaiter, QueueInv, WaitQueueType

(* notify_one calls the client at the front of the line, or finds nobody   *)
(* or a dead sender and changes nothing.                                   *)
LEMMA NotifyCalls ==
  ASSUME QueueInv, NotifyOne
  PROVE  (\E c \in Clients : Room!Call(c)) \/ UNCHANGED RoomVars
<1>1. CASE waiters = <<>>
  <2>1. waiters' = waiters /\ waiter' = waiter
    BY Zenon, <1>1 DEF NotifyOne, QueueInv, WaitQueueType
  <2> QED BY <2>1 DEF RoomVars, InDeque, Before, Called
<1>2. CASE waiters # <<>>
  <2>1. /\ Len(waiters) \in Nat \ {0}
        /\ Len(waiters') = Len(waiters) - 1
        /\ \A i \in 1..Len(waiters') : waiters'[i] = waiters[i + 1]
        /\ waiters[1] \in Clients \cup {Dropped}
        /\ waiter' = [c \in Clients |-> IF waiters[1] = c THEN "notified" ELSE waiter[c]]
    BY <1>2 DEF NotifyOne, QueueInv, WaitQueueType, Senders
  <2>2. \A i \in 2..Len(waiters) : i - 1 \in 1..Len(waiters') /\ waiters'[i - 1] = waiters[i]
    BY <2>1
  <2>3. \A i \in 2..Len(waiters) : waiters[i] # Dropped => waiters[i] # waiters[1]
    BY <2>1 DEF QueueInv, ParkedAreReachable
  <2>4. InDeque' = InDeque \ {waiters[1]}
    <3>1. ASSUME NEW d \in InDeque, d # waiters[1] PROVE d \in InDeque'
      <4>1. PICK i \in 1..Len(waiters) : waiters[i] = d
        BY Zenon DEF InDeque
      <4>2. i \in 2..Len(waiters)
        BY <2>1, <3>1, <4>1
      <4> QED BY Zenon, <2>2, <4>1, <4>2 DEF InDeque
    <3>2. ASSUME NEW d \in InDeque' PROVE d \in InDeque \ {waiters[1]}
      <4>1. PICK i \in 1..Len(waiters') : waiters'[i] = d
        BY Zenon DEF InDeque
      <4>2. i + 1 \in 2..Len(waiters) /\ waiters[i + 1] = d /\ d \in Clients
        BY <2>1, <4>1 DEF InDeque
      <4>3. i + 1 \in 1..Len(waiters)
        BY <2>1, <4>2
      <4>4. d # waiters[1]
        BY Zenon, <2>3, <4>2, WaitQueueAssumption
      <4> QED BY Zenon, <4>2, <4>3, <4>4 DEF InDeque
    <3> QED BY Zenon, <3>1, <3>2
  <2>5. Before' = {p \in Before : p[1] # waiters[1] /\ p[2] # waiters[1]}
    <3>1. ASSUME NEW p \in Before, p[1] # waiters[1], p[2] # waiters[1]
          PROVE  p \in Before'
      <4>1. PICK i \in 1..Len(waiters), j \in 1..Len(waiters) :
                   i < j /\ waiters[i] = p[1] /\ waiters[j] = p[2]
        BY Zenon DEF Before
      <4>2. i \in 2..Len(waiters) /\ j \in 2..Len(waiters) /\ i - 1 < j - 1
        BY <2>1, <3>1, <4>1
      <4>3. waiters'[i - 1] = p[1] /\ waiters'[j - 1] = p[2]
        BY Zenon, <2>2, <4>1, <4>2
      <4> QED BY Zenon, <2>2, <4>2, <4>3 DEF Before
    <3>2. ASSUME NEW p \in Before'
          PROVE  p \in Before /\ p[1] # waiters[1] /\ p[2] # waiters[1]
      <4>1. PICK i \in 1..Len(waiters'), j \in 1..Len(waiters') :
                   i < j /\ waiters'[i] = p[1] /\ waiters'[j] = p[2]
        BY Zenon DEF Before
      <4>2. /\ i + 1 \in 2..Len(waiters) /\ j + 1 \in 2..Len(waiters) /\ i + 1 < j + 1
            /\ waiters[i + 1] = p[1] /\ waiters[j + 1] = p[2]
        BY <2>1, <4>1
      <4>3. p \in Clients \X Clients /\ p[1] # Dropped /\ p[2] # Dropped
        BY Zenon, WaitQueueAssumption DEF Before
      <4>4. p[1] # waiters[1] /\ p[2] # waiters[1]
        BY Zenon, <2>3, <4>2, <4>3
      <4>5. i + 1 \in 1..Len(waiters) /\ j + 1 \in 1..Len(waiters)
        BY <4>2
      <4> QED BY Zenon, <4>2, <4>3, <4>4, <4>5 DEF Before
    <3> QED BY Zenon, <3>1, <3>2
  <2>6. CASE waiters[1] = Dropped
    <3>1. InDeque' = InDeque /\ Called' = Called
      BY <2>1, <2>4, <2>6, WaitQueueAssumption DEF InDeque, Called
    <3>2. Before' = Before
      <4>1. \A p \in Before : p[1] # Dropped /\ p[2] # Dropped
        BY Zenon, WaitQueueAssumption DEF Before
      <4> QED BY Zenon, <2>5, <2>6, <4>1
    <3> QED BY Zenon, <3>1, <3>2 DEF RoomVars
  <2>7. CASE waiters[1] \in Clients
    <3>1. waiters[1] \in InDeque
      BY <2>1, <2>7 DEF InDeque
    <3>2. \A d \in InDeque : <<d, waiters[1]>> \notin Before
      <4>1. ASSUME NEW i \in 1..Len(waiters), NEW j \in 1..Len(waiters), i < j
            PROVE  waiters[j] # waiters[1]
        BY <2>1, <2>3, <2>7, <4>1, WaitQueueAssumption
      <4> QED BY Zenon, <4>1 DEF Before
    <3>3. Called' = Called \cup {waiters[1]}
      BY Zenon, <2>1, <2>7 DEF Called
    <3> QED BY Zenon, <2>4, <2>5, <2>7, <3>1, <3>2, <3>3 DEF Room!Call, Room!StepsOut
  <2> QED BY Zenon, <2>1, <2>6, <2>7
<1> QED BY Zenon, <1>1, <1>2

(* Every step of the pool manager is a step of the waiting room, or none.  *)
LEMMA RoomStep == IInv /\ [Next]_vars => [Room!Next]_RoomVars
<1> SUFFICES ASSUME IInv, [Next]_vars PROVE [Room!Next]_RoomVars
  BY Zenon
<1>1. CASE UNCHANGED wqVars
  BY <1>1 DEF wqVars, RoomVars, InDeque, Before, Called
<1>2. CASE NotifyOne
  BY Zenon, <1>2, NotifyCalls DEF IInv, Room!Next
<1>3. ASSUME NEW c \in Clients, DropWaiter(c)
      PROVE  Room!Next
  BY Zenon, <1>3, DropLeaves DEF IInv, Room!Next
<1>4. ASSUME NEW c \in Clients, waiter[c] = "none", WaitForConnection(c)
      PROVE  [Room!Next]_RoomVars
  BY Zenon, <1>1, <1>4, EnqueueJoins DEF WaitForConnection, IInv, Room!Next
<1>5. ASSUME NEW c \in Clients, NEW s \in BOOLEAN, Acquire(c, s)
      PROVE  [Room!Next]_RoomVars
  <2>1. waiter[c] = "none"
    BY Zenon, <1>5 DEF Acquire, IInv, NoLeak, HoldsJust, HoldsWaiter
  <2> QED BY <1>1, <1>4, <1>5, <2>1 DEF Acquire, EnterGet
<1>6. ASSUME NEW c \in Clients, CreateFails(c)
      PROVE  [Room!Next]_RoomVars
  <2>1. phase[c] = "get1" => waiter[c] = "none"
    BY Zenon DEF IInv, NoLeak, HoldsJust, HoldsWaiter
  <2> QED BY <1>3, <1>4, <1>6, <2>1 DEF CreateFails
<1>7. ASSUME NEW c \in Clients, Recycle(c) \/ Create(c)
      PROVE  [Room!Next]_RoomVars
  <2>1. UNCHANGED wqVars \/ DropWaiter(c)
    BY Zenon, <1>7 DEF Recycle, Create, GotBackend
  <2> QED BY Zenon, <1>1, <1>3, <2>1
<1>8. ASSUME NEW c \in Clients, Woken(c) \/ TimesOut(c) \/ Abort(c)
      PROVE  [Room!Next]_RoomVars
  <2>1. UNCHANGED wqVars \/ DropWaiter(c)
    BY Zenon, <1>8 DEF Woken, TimesOut, Abort
  <2> QED BY Zenon, <1>1, <1>3, <2>1
<1>9. ASSUME NEW c \in Clients, Release(c) \/ Unpin(c)
      PROVE  [Room!Next]_RoomVars
  BY Zenon, <1>2, <1>9 DEF Release, Unpin
<1>10. CASE CleanupNotify \/ Resume
  BY Zenon, <1>2, <1>10 DEF CleanupNotify, Resume
<1>11. CASE \/ \E c \in Clients :
                 TakePermit(c) \/ Discard(c) \/ DropConn(c) \/ HandleAcquireError(c)
                   \/ Pin(c) \/ Age(c) \/ CleanupRemove(c)
            \/ CleanupScan \/ Pause \/ CircuitChanges \/ UNCHANGED vars
  BY Zenon, <1>1, <1>11
  DEF TakePermit, Discard, DropConn, HandleAcquireError, Pin, Age, CleanupRemove, CleanupScan,
      Pause, CircuitChanges, vars
<1> QED
  BY <1>5, <1>6, <1>7, <1>8, <1>9, <1>10, <1>11 DEF Next, Handler, Cleanup

(* The wait queue serves strictly in order of arrival, for any number of   *)
(* clients and any bound: dead senders in the deque cost a notification    *)
(* but never let a later client overtake an earlier one.                   *)
THEOREM ServesInOrder == Spec => ServedInOrder
<1>1. Init => Room!Init
  BY DEF Init, WaitQueueInit, Room!Init, InDeque, Before, Called
<1>2. IInv /\ [Next]_vars => [Room!Next]_<<InDeque, Before, Called>>
  BY Zenon, RoomStep DEF RoomVars
<1> QED BY <1>1, <1>2, AlwaysIInv, PTL DEF Spec, ServedInOrder, Room!Spec
=============================================================================
