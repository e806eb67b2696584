----------------------------- MODULE PoolManager -----------------------------
(***************************************************************************)
(* Acquisition and release of backends: proxy/pool_manager.rs over         *)
(* proxy/tcp_pool.rs, with the wait queue it composes.  The deadpool       *)
(* library is modelled from its use: a semaphore of max_size permits, a    *)
(* set of idle objects, recycle on reuse, create when nothing is idle.     *)
(*                                                                         *)
(* A client is one connection handler.  Its task may be aborted, or leave  *)
(* through an error, at any await; both drop what it holds.                *)
(***************************************************************************)
EXTENDS WaitQueue

CONSTANTS
    Backends,       \* physical connection slots; max_size is their number
    NoBackend,      \* "no backend" in conn and sticky
    PinningClients, \* the clients whose handler calls pin() and unpin():
                    \* none in the proxy, which uses neither
    WaitTimeout     \* wait_timeout_ms > 0

ASSUME PoolAssumption ==
    /\ IsFiniteSet(Backends)
    /\ NoBackend \notin Backends
    /\ PinningClients \subseteq Clients
    /\ WaitTimeout \in BOOLEAN

VARIABLES
    phase,      \* where each handler is in acquire / release
    conn,       \* the backend a handler holds (ManagedConnection)
    pinned,     \* ManagedConnection::is_pinned
    sticky,     \* sticky_map, client -> backend
    aged,       \* clients whose sticky entry is older than idle_unpin_secs
    toRemove,   \* the clients the running cleanup_idle pass has still to visit
    cleaned,    \* the entries that pass removed and has not notified for
    idle,       \* deadpool: connected objects nobody uses
    permit,     \* deadpool: clients inside get() past the semaphore
    accepting,  \* the admin PAUSE flag
    circuit     \* whether allow_request() lets a request through

poolVars == <<conn, pinned, sticky, aged, toRemove, cleaned, idle, permit>>
vars == <<wqVars, poolVars, phase, accepting, circuit>>

Errors == {"Paused", "QueueFull", "WaitTimeout", "PoolError"}
Phases == {"out", "get1", "wait", "get2", "held", "releasing"} \cup Errors
Slots == Backends \cup {NoBackend}

Held == {conn[c] : c \in Clients} \ {NoBackend}
Kept == {sticky[c] : c \in Clients} \ {NoBackend}
InUse == Cardinality(Held) + Cardinality(Kept) + Cardinality(permit)

TypeOK ==
    /\ WaitQueueType
    /\ phase \in [Clients -> Phases]
    /\ conn \in [Clients -> Slots]
    /\ pinned \in [Clients -> BOOLEAN]
    /\ sticky \in [Clients -> Slots]
    /\ aged \in SUBSET Clients
    /\ toRemove \in SUBSET Clients
    /\ cleaned \in Nat
    /\ idle \in SUBSET Backends
    /\ permit \in SUBSET Clients
    /\ accepting \in BOOLEAN
    /\ circuit \in {"allows", "rejects"}

(* Warmup has opened any number of backends before the first client.       *)
Init ==
    /\ WaitQueueInit
    /\ phase = [c \in Clients |-> "out"]
    /\ conn = [c \in Clients |-> NoBackend]
    /\ pinned = [c \in Clients |-> FALSE]
    /\ sticky = [c \in Clients |-> NoBackend]
    /\ aged = {}
    /\ toRemove = {}
    /\ cleaned = 0
    /\ idle \in SUBSET Backends
    /\ permit = {}
    /\ accepting = TRUE
    /\ circuit = "allows"

-----------------------------------------------------------------------------
GoTo(c, p) == phase' = [phase EXCEPT ![c] = p]

(* Dropping a PooledConnection gives the object back to deadpool.          *)
Returned(b) == {b} \ {NoBackend}

(* wait_for_connection up to its first await.                              *)
WaitForConnection(c) ==
    \/ Enqueue(c) /\ GoTo(c, "wait")
    \/ QueueFull /\ GoTo(c, "QueueFull") /\ UNCHANGED wqVars

(* The entry of pool.get(): an open breaker rejects without touching the   *)
(* pool, and acquire() treats that error like any other.                   *)
EnterGet(c) ==
    \/ circuit = "allows" /\ GoTo(c, "get1") /\ UNCHANGED wqVars
    \/ circuit = "rejects" /\ WaitForConnection(c)

(* acquire(client_id, needs_sticky) up to its first await.                 *)
Acquire(c, needsSticky) ==
    /\ phase[c] = "out"
    /\ IF ~accepting
         THEN GoTo(c, "Paused") /\ UNCHANGED <<wqVars, poolVars>>
         ELSE IF needsSticky /\ sticky[c] # NoBackend
         THEN /\ conn' = [conn EXCEPT ![c] = sticky[c]]
              /\ pinned' = [pinned EXCEPT ![c] = TRUE]
              /\ sticky' = [sticky EXCEPT ![c] = NoBackend]
              /\ aged' = aged \ {c}
              /\ GoTo(c, "held")
              /\ UNCHANGED <<wqVars, toRemove, cleaned, idle, permit>>
         ELSE EnterGet(c) /\ UNCHANGED poolVars
    /\ UNCHANGED <<accepting, circuit>>

(* A faulty TakePermit, which PoolBounded must notice.                     *)
TakePermitLate(c) ==
    /\ phase[c] \in {"get1", "get2"} /\ c \notin permit
    /\ InUse <= Cardinality(Backends)
    /\ permit' = permit \cup {c}
    /\ UNCHANGED <<wqVars, conn, pinned, sticky, aged, toRemove, cleaned, idle,
                   phase, accepting, circuit>>

(* deadpool's semaphore.  No wait timeout is configured, so a client stays *)
(* here for as long as every permit is taken.                              *)
TakePermit(c) ==
    /\ phase[c] \in {"get1", "get2"} /\ c \notin permit
    /\ InUse < Cardinality(Backends)
    /\ permit' = permit \cup {c}
    /\ UNCHANGED <<wqVars, conn, pinned, sticky, aged, toRemove, cleaned, idle,
                   phase, accepting, circuit>>

(* get() returns the backend b: an unpinned ManagedConnection.  In the     *)
(* second attempt the Waiter goes out of scope with it.                    *)
GotBackend(c, b) ==
    /\ conn' = [conn EXCEPT ![c] = b]
    /\ pinned' = [pinned EXCEPT ![c] = FALSE]
    /\ permit' = permit \ {c}
    /\ GoTo(c, "held")
    /\ IF phase[c] = "get2" THEN DropWaiter(c) ELSE UNCHANGED wqVars

(* recycle passed: health check and DISCARD ALL.                           *)
Recycle(c) ==
    /\ c \in permit
    /\ \E b \in idle : GotBackend(c, b) /\ idle' = idle \ {b}
    /\ UNCHANGED <<sticky, aged, toRemove, cleaned, accepting, circuit>>

(* recycle failed: the object is discarded and get() looks further.        *)
Discard(c) ==
    /\ c \in permit
    /\ \E b \in idle : idle' = idle \ {b}
    /\ UNCHANGED <<wqVars, conn, pinned, sticky, aged, toRemove, cleaned,
                   permit, phase, accepting, circuit>>

Create(c) ==
    /\ c \in permit /\ idle = {}
    /\ \E b \in Backends \ (Held \cup Kept) : GotBackend(c, b)
    /\ UNCHANGED <<sticky, aged, toRemove, cleaned, idle, accepting, circuit>>

(* The connect (after its retries) failed or timed out.  The first attempt *)
(* falls back to the wait queue, the second one ends acquire().            *)
CreateFails(c) ==
    /\ c \in permit /\ idle = {}
    /\ permit' = permit \ {c}
    /\ \/ phase[c] = "get1" /\ WaitForConnection(c)
       \/ phase[c] = "get2" /\ DropWaiter(c) /\ GoTo(c, "PoolError")
    /\ UNCHANGED <<conn, pinned, sticky, aged, toRemove, cleaned, idle,
                   accepting, circuit>>

(* The oneshot fired: acquire() tries pool.get() a second time, still      *)
(* holding its Waiter.  accepting is not read again.                       *)
Woken(c) ==
    /\ phase[c] = "wait" /\ waiter[c] = "notified"
    /\ \/ circuit = "allows" /\ GoTo(c, "get2") /\ UNCHANGED wqVars
       \/ circuit = "rejects" /\ DropWaiter(c) /\ GoTo(c, "PoolError")
    /\ UNCHANGED <<poolVars, accepting, circuit>>

(* A faulty TimesOut, which NoLeak must notice.                            *)
TimesOutKeepsWaiter(c) ==
    /\ WaitTimeout
    /\ phase[c] = "wait" /\ waiter[c] = "parked"
    /\ GoTo(c, "WaitTimeout")
    /\ UNCHANGED <<wqVars, poolVars, accepting, circuit>>

(* A faulty TimesOut, which AcquireEnds must notice.                       *)
TimesOutLate(c) ==
    /\ WaitTimeout
    /\ phase[c] = "wait" /\ waiter[c] = "notified"
    /\ DropWaiter(c)
    /\ GoTo(c, "WaitTimeout")
    /\ UNCHANGED <<poolVars, accepting, circuit>>

(* wait_timeout_ms elapsed first.  A notification sent after the timer won *)
(* and before the receiver is dropped is lost exactly like one sent after. *)
TimesOut(c) ==
    /\ WaitTimeout
    /\ phase[c] = "wait" /\ waiter[c] = "parked"
    /\ DropWaiter(c)
    /\ GoTo(c, "WaitTimeout")
    /\ UNCHANGED <<poolVars, accepting, circuit>>

(* release(): the notification goes out before the connection is dropped.  *)
(* A pinned one goes back to the sticky map and only an unpinned one, or   *)
(* one whose client has an entry already, returns to the pool.             *)
Release(c) ==
    /\ phase[c] = "held"
    /\ NotifyOne
    /\ IF pinned[c] /\ sticky[c] = NoBackend
         THEN /\ sticky' = [sticky EXCEPT ![c] = conn[c]]
              /\ conn' = [conn EXCEPT ![c] = NoBackend]
              /\ GoTo(c, "out")
         ELSE GoTo(c, "releasing") /\ UNCHANGED <<conn, sticky>>
    /\ aged' = IF pinned[c] THEN aged \ {c} ELSE aged
    /\ UNCHANGED <<pinned, toRemove, cleaned, idle, permit, accepting, circuit>>

(* The ManagedConnection goes out of scope.                                *)
DropConn(c) ==
    /\ phase[c] = "releasing"
    /\ idle' = idle \cup Returned(conn[c])
    /\ conn' = [conn EXCEPT ![c] = NoBackend]
    /\ GoTo(c, "out")
    /\ UNCHANGED <<wqVars, pinned, sticky, aged, toRemove, cleaned, permit,
                   accepting, circuit>>

(* The handler's task is aborted (KILL, drain timeout) or leaves through   *)
(* `?`: the future is dropped, with the Waiter, permit or connection in    *)
(* it, and release() is not called.                                        *)
Abort(c) ==
    /\ phase[c] \in {"get1", "wait", "get2", "held"}
    /\ IF waiter[c] = "none" THEN UNCHANGED wqVars ELSE DropWaiter(c)
    /\ idle' = idle \cup Returned(conn[c])
    /\ conn' = [conn EXCEPT ![c] = NoBackend]
    /\ permit' = permit \ {c}
    /\ GoTo(c, "out")
    /\ UNCHANGED <<pinned, sticky, aged, toRemove, cleaned, accepting, circuit>>

(* handle_acquire_error: the client is told, or not, and disconnects.      *)
HandleAcquireError(c) ==
    /\ phase[c] \in Errors
    /\ GoTo(c, "out")
    /\ UNCHANGED <<wqVars, poolVars, accepting, circuit>>

-----------------------------------------------------------------------------
(* pin(): the connection moves to the sticky map; if the client has an     *)
(* entry already, that one stays and this connection returns to the pool.  *)
Pin(c) ==
    /\ c \in PinningClients /\ phase[c] = "held"
    /\ IF sticky[c] = NoBackend
         THEN sticky' = [sticky EXCEPT ![c] = conn[c]] /\ UNCHANGED idle
         ELSE idle' = idle \cup Returned(conn[c]) /\ UNCHANGED sticky
    /\ conn' = [conn EXCEPT ![c] = NoBackend]
    /\ aged' = aged \ {c}
    /\ GoTo(c, "out")
    /\ UNCHANGED <<wqVars, pinned, toRemove, cleaned, permit, accepting, circuit>>

(* A faulty Unpin, which BackendExclusive must notice.                     *)
UnpinKeepsEntry(c) ==
    /\ c \in PinningClients /\ sticky[c] # NoBackend
    /\ idle' = idle \cup Returned(sticky[c])
    /\ NotifyOne
    /\ UNCHANGED <<conn, pinned, sticky, aged, toRemove, cleaned, permit, phase,
                   accepting, circuit>>

Unpin(c) ==
    /\ c \in PinningClients /\ sticky[c] # NoBackend
    /\ idle' = idle \cup Returned(sticky[c])
    /\ sticky' = [sticky EXCEPT ![c] = NoBackend]
    /\ aged' = aged \ {c}
    /\ NotifyOne
    /\ UNCHANGED <<conn, pinned, toRemove, cleaned, permit, phase, accepting,
                   circuit>>

(* Time passes.  Ages are measured against the instant a cleanup pass      *)
(* starts at, so an entry does not age during one.                         *)
Age(c) ==
    /\ sticky[c] # NoBackend /\ c \notin aged /\ toRemove = {}
    /\ aged' = aged \cup {c}
    /\ UNCHANGED <<wqVars, conn, pinned, sticky, toRemove, cleaned, idle, permit,
                   phase, accepting, circuit>>

(* cleanup_idle(), first under the read lock, ...                          *)
CleanupScan ==
    /\ toRemove = {} /\ cleaned = 0
    /\ toRemove' = {c \in aged : sticky[c] # NoBackend}
    /\ toRemove' # {}
    /\ UNCHANGED <<wqVars, conn, pinned, sticky, aged, cleaned, idle, permit,
                   phase, accepting, circuit>>

(* A faulty CleanupRemove, which StickyKept must notice.                   *)
CleanupRemoveUnchecked(c) ==
    /\ c \in toRemove
    /\ toRemove' = toRemove \ {c}
    /\ sticky' = [sticky EXCEPT ![c] = NoBackend]
    /\ idle' = idle \cup Returned(sticky[c])
    /\ aged' = aged \ {c}
    /\ cleaned' = cleaned + 1
    /\ UNCHANGED <<wqVars, conn, pinned, permit, phase, accepting, circuit>>

(* ... then per client under the write lock, with the age checked again,   *)
CleanupRemove(c) ==
    /\ c \in toRemove
    /\ toRemove' = toRemove \ {c}
    /\ IF sticky[c] # NoBackend /\ c \in aged
         THEN /\ sticky' = [sticky EXCEPT ![c] = NoBackend]
              /\ idle' = idle \cup Returned(sticky[c])
              /\ aged' = aged \ {c}
              /\ cleaned' = cleaned + 1
         ELSE UNCHANGED <<sticky, idle, aged, cleaned>>
    /\ UNCHANGED <<wqVars, conn, pinned, permit, phase, accepting, circuit>>

(* A faulty CleanupNotify, which TypeOK must notice.                       *)
CleanupNotifyAlways ==
    /\ toRemove = {}
    /\ cleaned' = cleaned - 1
    /\ NotifyOne
    /\ UNCHANGED <<conn, pinned, sticky, aged, toRemove, idle, permit, phase,
                   accepting, circuit>>

(* ... and at last one notification per removed entry.                     *)
CleanupNotify ==
    /\ toRemove = {} /\ cleaned > 0
    /\ cleaned' = cleaned - 1
    /\ NotifyOne
    /\ UNCHANGED <<conn, pinned, sticky, aged, toRemove, idle, permit, phase,
                   accepting, circuit>>

Pause ==
    /\ accepting' = FALSE
    /\ UNCHANGED <<wqVars, poolVars, phase, circuit>>

Resume ==
    /\ accepting' = TRUE
    /\ NotifyOne
    /\ UNCHANGED <<poolVars, phase, circuit>>

(* The breaker of this database, seen from here: see CircuitBreaker.       *)
CircuitChanges ==
    /\ circuit' \in {"allows", "rejects"} \ {circuit}
    /\ UNCHANGED <<wqVars, poolVars, phase, accepting>>

Handler(c) ==
    \/ \E needsSticky \in BOOLEAN : Acquire(c, needsSticky)
    \/ TakePermit(c) \/ Recycle(c) \/ Discard(c) \/ Create(c) \/ CreateFails(c)
    \/ Woken(c) \/ TimesOut(c)
    \/ Release(c) \/ DropConn(c) \/ Abort(c) \/ HandleAcquireError(c)
    \/ Pin(c) \/ Unpin(c)

Cleanup == CleanupScan \/ CleanupNotify \/ \E c \in Clients : CleanupRemove(c)

Next ==
    \/ \E c \in Clients : Handler(c) \/ Age(c)
    \/ Cleanup
    \/ Pause \/ Resume \/ CircuitChanges

Spec == Init /\ [][Next]_vars

-----------------------------------------------------------------------------
(* The phases in which a handler holds a connection, a Waiter, a permit.   *)
HoldsConn(c) == phase[c] \in {"held", "releasing"}
HoldsWaiter(c) == phase[c] \in {"wait", "get2"}

(* What handler c holds is what its phase says.                            *)
HoldsJust(c) ==
    /\ conn[c] # NoBackend <=> HoldsConn(c)
    /\ waiter[c] # "none" <=> HoldsWaiter(c)
    /\ phase[c] = "get2" => waiter[c] = "notified"
    /\ c \in permit => phase[c] \in {"get1", "get2"}

(* No leak: on every path out of acquire() (success, each error, timeout,  *)
(* abort) a handler is left with exactly what its phase says: a connection *)
(* only while it is held, a Waiter only between enqueue and the end of     *)
(* wait_for_connection, a semaphore permit only inside get().              *)
NoLeak == \A c \in Clients : HoldsJust(c)

(* A backend serves one client: it is with at most one handler, or in the  *)
(* sticky map under one client, or idle in the pool, never in two places.  *)
BackendExclusive ==
    /\ \A c, d \in Clients :
         /\ c # d /\ conn[c] # NoBackend => conn[c] # conn[d]
         /\ c # d /\ sticky[c] # NoBackend => sticky[c] # sticky[d]
         /\ conn[c] # NoBackend => conn[c] # sticky[d]
    /\ \A c \in Clients : conn[c] \notin idle /\ sticky[c] \notin idle

(* pool max_size: connections in use and acquisitions past the semaphore   *)
(* never exceed the slots, so whoever has a permit finds an idle object or *)
(* may open a new one.                                                     *)
PoolBounded == InUse <= Cardinality(Backends)

(* A sticky entry leaves the map only into the hands of its own client, by *)
(* its own unpin(), or by a cleanup pass that finds it unused since before *)
(* that pass began.                                                        *)
StickyKept ==
    [][\A c \in Clients :
         sticky[c] # NoBackend /\ sticky'[c] # sticky[c] =>
           \/ conn'[c] = sticky[c]
           \/ c \in aged
           \/ Unpin(c)]_vars

(* The wait queue, whatever timeouts, aborts and dead senders do to it, is *)
(* a bounded first-come first-served line for the clients that are still   *)
(* waiting: wait_queue.rs promises strict ordering.                        *)
InDeque == {c \in Clients : \E i \in 1..Len(waiters) : waiters[i] = c}
Before == {p \in Clients \X Clients :
             \E i, j \in 1..Len(waiters) : i < j /\ waiters[i] = p[1] /\ waiters[j] = p[2]}
Called == {c \in Clients : waiter[c] = "notified"}
Room == INSTANCE WaitingRoom WITH line <- InDeque, ahead <- Before, called <- Called
ServedInOrder == Room!Spec

-----------------------------------------------------------------------------
(* Fairness.  tokio runs a ready task, fires an expired timer and serves   *)
(* semaphore waiters in order; a get() past the semaphore ends, since      *)
(* create and recycle are bounded by connect_timeout.                      *)
GetEnds(c) == Recycle(c) \/ Create(c) \/ CreateFails(c)

RuntimeFairness ==
    \A c \in Clients :
      /\ WF_vars(Woken(c)) /\ WF_vars(TimesOut(c)) /\ WF_vars(DropConn(c))
      /\ SF_vars(TakePermit(c)) /\ SF_vars(GetEnds(c))

(* Sessions that hold a backend finish with it.                            *)
SessionsRelease == \A c \in Clients : WF_vars(Release(c))

LiveSpec == Spec /\ RuntimeFairness /\ SessionsRelease

(* Every acquire() ends, with a backend or an error, however breaker,      *)
(* pause, connect failures and lost notifications fall.                    *)
Acquiring(c) == phase[c] \in {"get1", "wait", "get2"}
AcquireEnds == \A c \in Clients : Acquiring(c) ~> ~Acquiring(c)
=============================================================================
