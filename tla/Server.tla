------------------------------- MODULE Server -------------------------------
(***************************************************************************)
(* The life of the process and of its client connections: the accept loop, *)
(* connection limit and drain of proxy/server.rs, the client registry of   *)
(* proxy/admin_handles.rs, and the admin commands KILL and SHUTDOWN of     *)
(* admin/commands.rs.  What a connection does between its registration and *)
(* its end is Session's concern.                                           *)
(*                                                                         *)
(* Connection ids are never used twice.  A task that is aborted ends at    *)
(* its next await; its drop guard runs in three steps, one per lock.       *)
(***************************************************************************)
EXTENDS Integers, FiniteSets

CONSTANTS
    Conns,          \* bound: the connections ever attempted, by conn_id
    NoConn,
    Outside,        \* a caller of the admin commands that is no connection
    Databases,      \* the configured databases
    Admin,          \* the admin console's own database name
    Unknown,        \* the identity of a UNIX-socket client: empty
    MaxConnections  \* max_connections

ASSUME ServerAssumption ==
    /\ IsFiniteSet(Conns) /\ {NoConn, Outside} \cap Conns = {}
    /\ Admin \notin Databases /\ Unknown \notin Databases /\ Admin # Unknown
    /\ MaxConnections \in Nat

VARIABLES
    mode,           \* run(): "accepting", "draining", "aborting", "drained"
    requested,      \* the admin shutdown_trigger has been sent
    spawning,       \* the connection between its spawn and
                    \* register_abort_handle
    task,           \* per connection, its task
    joinSet,        \* connection_tasks
    active,         \* active_connections
    db,             \* per connection, the database of its startup message
    entries,        \* ClientRegistry::inner
    handles,        \* ClientRegistry::abort_handles
    aborted,        \* the connections whose task has been told to abort
    kill,           \* the KILL that is being executed
    waiting,        \* the callers blocked in SHUTDOWN WAIT
    drainComplete   \* the value of the drain_complete watch

serverVars == <<mode, requested, spawning, joinSet, drainComplete>>
registryVars == <<db, entries, handles>>
vars == <<serverVars, registryVars, task, active, aborted, kill, waiting>>

Identities == Databases \cup {Admin, Unknown}

(* "spawned" has not been polled yet; "leaving" to "handles" are the steps *)
(* of the drop guard.                                                      *)
Stages == {"none", "refused", "spawned", "starting", "serving",
           "leaving", "entry", "handle", "done"}

NoKill == [by |-> NoConn, db |-> Unknown, matched |-> {}, aborting |-> FALSE]

TypeOK ==
    /\ mode \in {"accepting", "draining", "aborting", "drained"}
    /\ requested \in BOOLEAN /\ drainComplete \in BOOLEAN
    /\ spawning \in Conns \cup {NoConn}
    /\ task \in [Conns -> Stages]
    /\ active \in 0..MaxConnections
    /\ db \in [Conns -> Identities]
    /\ kill \in [by : Conns \cup {NoConn}, db : Identities,
                 matched : SUBSET Conns, aborting : BOOLEAN]
    /\ joinSet \subseteq Conns /\ entries \subseteq Conns /\ handles \subseteq Conns
    /\ aborted \subseteq Conns /\ waiting \subseteq Conns \cup {Outside}

Init ==
    /\ mode = "accepting" /\ requested = FALSE /\ spawning = NoConn
    /\ task = [c \in Conns |-> "none"] /\ joinSet = {}
    /\ active = 0
    /\ db = [c \in Conns |-> Unknown] /\ entries = {} /\ handles = {}
    /\ aborted = {} /\ kill = NoKill /\ waiting = {} /\ drainComplete = FALSE

GoTo(c, s) == task' = [task EXCEPT ![c] = s]

-----------------------------------------------------------------------------
(* The accept arm of the loop, up to the spawn.                            *)
Accept(c) ==
    /\ mode = "accepting" /\ spawning = NoConn /\ task[c] = "none"
    /\ IF active >= MaxConnections
         THEN GoTo(c, "refused") /\ UNCHANGED <<active, joinSet, spawning>>
         ELSE /\ active' = active + 1
              /\ joinSet' = joinSet \cup {c}
              /\ spawning' = c
              /\ GoTo(c, "spawned")
    /\ UNCHANGED <<mode, requested, drainComplete, registryVars,
                   aborted, kill, waiting>>

(* The end of spawn_*_connection_handler.                                  *)
RegisterAbortHandle ==
    /\ spawning # NoConn
    /\ handles' = handles \cup {spawning}
    /\ spawning' = NoConn
    /\ UNCHANGED <<mode, requested, joinSet, drainComplete, db, entries,
                   task, active, aborted, kill, waiting>>

(* The first poll of the task: the guard exists from here on.              *)
Start(c) ==
    /\ task[c] = "spawned"
    /\ GoTo(c, "starting")
    /\ UNCHANGED <<serverVars, registryVars, active, aborted, kill, waiting>>

(* handle_client_connection, once TLS and startup message are through.     *)
Register(c) ==
    /\ task[c] = "starting"
    /\ \E d \in Identities : db' = [db EXCEPT ![c] = d]
    /\ entries' = entries \cup {c}
    /\ GoTo(c, "serving")
    /\ UNCHANGED <<serverVars, handles, active, aborted, kill, waiting>>

(* A failed startup, or the end of the session.                            *)
Leave(c) ==
    /\ task[c] \in {"starting", "serving"} /\ c \notin waiting /\ kill.by # c
    /\ GoTo(c, "leaving")
    /\ UNCHANGED <<serverVars, registryVars, active, aborted, kill, waiting>>

(* A faulty Cancel, which CountIsExact must notice.                        *)
CancelUnguarded(c) ==
    /\ c \in aborted /\ kill.by # c
    /\ task[c] \in {"spawned", "starting", "serving"} /\ GoTo(c, "done")
    /\ waiting' = waiting \ {c}
    /\ UNCHANGED <<serverVars, registryVars, active, aborted, kill>>

(* An aborted task is dropped at an await.  If it was never polled there   *)
(* is no guard yet.                                                        *)
Cancel(c) ==
    /\ c \in aborted /\ kill.by # c
    /\ \/ task[c] = "spawned" /\ GoTo(c, "done")
       \/ task[c] \in {"starting", "serving"} /\ GoTo(c, "leaving")
    /\ waiting' = waiting \ {c}
    /\ UNCHANGED <<serverVars, registryVars, active, aborted, kill>>

(* Drop for ConnectionCountGuard: the counter, ...                         *)
DropCount(c) ==
    /\ task[c] = "leaving"
    /\ active' = active - 1
    /\ GoTo(c, "entry")
    /\ UNCHANGED <<serverVars, registryVars, aborted, kill, waiting>>

(* A faulty DeregisterEntry, which NoStaleEntry must notice.               *)
DeregisterNothing(c) ==
    /\ task[c] = "entry"
    /\ GoTo(c, "handle")
    /\ UNCHANGED <<serverVars, registryVars, active, aborted, kill, waiting>>

(* ... then deregister, one map after the other.                           *)
DeregisterEntry(c) ==
    /\ task[c] = "entry"
    /\ entries' = entries \ {c}
    /\ GoTo(c, "handle")
    /\ UNCHANGED <<serverVars, db, handles, active, aborted, kill, waiting>>

DeregisterHandle(c) ==
    /\ task[c] = "handle"
    /\ handles' = handles \ {c}
    /\ GoTo(c, "done")
    /\ UNCHANGED <<serverVars, db, entries, active, aborted, kill, waiting>>

-----------------------------------------------------------------------------
(* An admin console reads its next command.                                *)
Console(a) ==
    task[a] = "serving" /\ db[a] = Admin /\ a \notin waiting /\ kill.by # a

(* KILL of a known database, first under the read lock of the entries, ... *)
KillMatch(a, d) ==
    /\ Console(a) /\ kill = NoKill
    /\ LET matched == {c \in entries : db[c] = d} IN
         /\ matched # {}
         /\ kill' = [by |-> a, db |-> d, matched |-> matched, aborting |-> TRUE]
    /\ UNCHANGED <<serverVars, registryVars, task, active, aborted, waiting>>

(* A faulty KillAbort, which KillsOnlyMatching must notice.                *)
KillAbortAll ==
    /\ kill.aborting
    /\ aborted' = aborted \cup handles
    /\ handles' = handles \ kill.matched
    /\ kill' = [kill EXCEPT !.aborting = FALSE]
    /\ UNCHANGED <<serverVars, db, entries, task, active, waiting>>

(* ... then under the lock of the handles: whoever has none yet, or none   *)
(* any more, is not aborted, ...                                           *)
KillAbort ==
    /\ kill.aborting
    /\ aborted' = aborted \cup (kill.matched \cap handles)
    /\ handles' = handles \ kill.matched
    /\ kill' = [kill EXCEPT !.aborting = FALSE]
    /\ UNCHANGED <<serverVars, db, entries, task, active, waiting>>

(* ... and under the write lock of the entries.                            *)
KillRemove ==
    /\ kill # NoKill /\ ~kill.aborting
    /\ entries' = entries \ kill.matched
    /\ kill' = NoKill
    /\ UNCHANGED <<serverVars, db, handles, task, active, aborted, waiting>>

(* SHUTDOWN: the trigger is refused once run() listens no more.  With WAIT *)
(* the caller subscribes to the drain before it pulls the trigger.         *)
Shutdown(a, wait) ==
    /\ IF a = Outside THEN a \notin waiting ELSE Console(a)
    /\ mode = "accepting"
    /\ requested' = TRUE
    /\ waiting' = IF wait THEN waiting \cup {a} ELSE waiting
    /\ UNCHANGED <<mode, spawning, joinSet, drainComplete, registryVars,
                   task, active, aborted, kill>>

(* SHUTDOWN WAIT sees the drain complete, or gives up two seconds after    *)
(* the drain timeout.                                                      *)
WaitEnds(a) ==
    /\ a \in waiting
    /\ drainComplete \/ mode = "aborting"
    /\ waiting' = waiting \ {a}
    /\ UNCHANGED <<serverVars, registryVars, task, active, aborted, kill>>

-----------------------------------------------------------------------------
(* SIGINT, SIGTERM or the trigger ends the accept loop.                    *)
StopAccepting(signal) ==
    /\ mode = "accepting" /\ spawning = NoConn
    /\ signal \/ requested
    /\ mode' = "draining"
    /\ UNCHANGED <<requested, spawning, joinSet, drainComplete, registryVars,
                   task, active, aborted, kill, waiting>>

(* join_next, before and after the timeout.                                *)
JoinNext(c) ==
    /\ mode \in {"draining", "aborting"}
    /\ c \in joinSet /\ task[c] = "done"
    /\ joinSet' = joinSet \ {c}
    /\ UNCHANGED <<mode, requested, spawning, drainComplete, registryVars,
                   task, active, aborted, kill, waiting>>

(* A faulty DrainTimeout, which ShutdownEnds must notice.                  *)
DrainTimeoutOnly ==
    /\ mode = "draining" /\ joinSet # {}
    /\ mode' = "aborting"
    /\ UNCHANGED <<requested, spawning, joinSet, drainComplete,
                   registryVars, task, active, aborted, kill, waiting>>

(* shutdown_timeout_secs elapsed: JoinSet::shutdown aborts every task left *)
(* and waits for them.                                                     *)
DrainTimeout ==
    /\ mode = "draining" /\ joinSet # {}
    /\ mode' = "aborting"
    /\ aborted' = aborted \cup joinSet
    /\ UNCHANGED <<requested, spawning, joinSet, drainComplete,
                   registryVars, task, active, kill, waiting>>

(* A faulty Drained, which DrainedMeansGone must notice.                   *)
DrainedEarly ==
    /\ mode \in {"draining", "aborting"}
    /\ mode = "aborting" \/ joinSet = {}
    /\ mode' = "drained"
    /\ drainComplete' = (waiting # {})
    /\ UNCHANGED <<requested, spawning, joinSet, registryVars, task,
                   active, aborted, kill, waiting>>

(* signal_drain_complete: a watch without a receiver keeps its value.      *)
Drained ==
    /\ mode \in {"draining", "aborting"} /\ joinSet = {}
    /\ mode' = "drained"
    /\ drainComplete' = (waiting # {})
    /\ UNCHANGED <<requested, spawning, joinSet, registryVars, task,
                   active, aborted, kill, waiting>>

-----------------------------------------------------------------------------
Guard(c) == DropCount(c) \/ DeregisterEntry(c) \/ DeregisterHandle(c)
Killing == KillAbort \/ KillRemove

Next ==
    \/ \E c \in Conns :
         \/ Accept(c) \/ Start(c) \/ Register(c) \/ Leave(c) \/ Cancel(c) \/ Guard(c)
         \/ \E d \in Databases : KillMatch(c, d)
         \/ JoinNext(c)
    \/ \E a \in Conns \cup {Outside} :
         WaitEnds(a) \/ \E wait \in BOOLEAN : Shutdown(a, wait)
    \/ RegisterAbortHandle \/ Killing
    \/ \E signal \in BOOLEAN : StopAccepting(signal)
    \/ DrainTimeout \/ Drained

Spec == Init /\ [][Next]_vars

-----------------------------------------------------------------------------
Live == {c \in Conns : task[c] \in {"spawned", "starting", "serving", "leaving"}}

(* The connection limit: until the drain aborts what is left, the counter  *)
(* that the accept loop checks is the number of connections that are being *)
(* handled, so there are never more of them than max_connections and a     *)
(* client is not refused while there are fewer.                            *)
CountIsExact ==
    /\ mode \in {"accepting", "draining"} => active = Cardinality(Live)
    /\ Cardinality(Live) <= MaxConnections

(* "the registry can never hold a stale entry", however KILL, the drop     *)
(* guard and the registration itself interleave.                           *)
NoStaleEntry == \A c \in entries : task[c] \in {"serving", "leaving", "entry"}

(* KILL ends sessions of the database it names and no other, although it   *)
(* lets go of the registry between finding them and aborting them; only    *)
(* the drain timeout aborts the others, and the admin consoles.            *)
KillsOnlyMatching ==
    [][\A c \in aborted' \ aborted : mode' = "aborting" \/ db[c] = kill.db]_vars

(* SHUTDOWN WAIT tells no lie: when the drain is complete no connection is *)
(* being handled or listed, and a caller that still waits will be told.    *)
DrainedMeansGone ==
    /\ drainComplete => mode = "drained"
    /\ mode = "drained" => Live = {} /\ entries = {}
    /\ mode = "drained" /\ waiting # {} => drainComplete

(* The runtime polls spawned and aborted tasks, a drop guard and a KILL    *)
(* run to their end, the drain's timer fires.  Sessions need not end.      *)
Fairness ==
    /\ WF_vars(RegisterAbortHandle) /\ WF_vars(Killing)
    /\ WF_vars(StopAccepting(FALSE)) /\ WF_vars(DrainTimeout) /\ WF_vars(Drained)
    /\ WF_vars(WaitEnds(Outside))
    /\ \A c \in Conns : WF_vars(Cancel(c)) /\ WF_vars(Guard(c)) /\ WF_vars(JoinNext(c))

LiveSpec == Spec /\ Fairness

(* SHUTDOWN, also SHUTDOWN WAIT from a connection that the drain itself    *)
(* waits for, leads to a drained process in which nobody waits any more:   *)
(* "never an infinite hang".                                               *)
ShutdownEnds == requested ~> mode = "drained" /\ waiting = {}
=============================================================================
