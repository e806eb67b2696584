------------------------------ MODULE Session ------------------------------
(***************************************************************************)
(* The life of client sessions on pooled backends: the handler loop        *)
(* handle_with_managed_connection of proxy/connection.rs, the startup      *)
(* handshake with its captured response, and recycle of proxy/tcp_pool.rs  *)
(* with the health check and reset of protocol/postgres.rs.                *)
(*                                                                         *)
(* Both directions of a backend connection are streams.  One element of    *)
(* inbox is a statement on its way to the server, one of outbox a whole    *)
(* response that ends in ReadyForQuery.  Who gets which backend, and when, *)
(* is PoolManager's concern; here acquire() takes any idle backend, or a   *)
(* new one when none is idle.                                              *)
(***************************************************************************)
EXTENDS Integers, Sequences, Postgres

CONSTANTS
    Clients, Backends, NoBackend,
    Proxy,          \* the sender of the statements recycle sends
    Modes,          \* the pooling strategies the proxy may be configured with
    Warm,           \* the backends warmup() tries to connect
    QueryTimeout,   \* query_timeout_secs > 0
    Kinds,          \* the statements clients send
    Depth,          \* bound: statements a client has outstanding; 1 if it
                    \* waits for each answer
    Window,         \* statements are numbered modulo Window
    Interrupts,     \* sessions may end with work outstanding: the client
                    \* vanishes, or KILL aborts the handler
    Splits          \* a response may arrive in pieces, and its rest never

ASSUME SessionAssumption ==
    /\ NoBackend \notin Backends /\ Proxy \notin Clients
    /\ Modes \subseteq {"Session", "Transaction", "Hybrid"}
    /\ Warm \subseteq Backends /\ Kinds \subseteq Statements
    /\ QueryTimeout \in BOOLEAN /\ Interrupts \in BOOLEAN /\ Splits \in BOOLEAN
    /\ Depth \in Nat /\ Window \in Nat /\ Window > Depth

VARIABLES
    mode,       \* the pooling strategy in force, fixed at startup
    stage,      \* where each handler is
    begun,      \* the clients that have completed their startup
    conn,       \* managed_conn
    tracker,    \* txn_tracker
    pinned,     \* conn_state.is_pinned()
    armed,      \* query_deadline is set, which it is while the pending entry
                \* of the unnamed portal is
    partial,    \* how far the response that is being read has come: "no", up
                \* to the end of a message ("even"), or into one ("cut")
    asked,      \* per client, the statements it has no answer to yet
    answer,     \* per client, the last answer it got
    did,        \* per client, which of "begin" and "set" it has ever sent
    idle,       \* the pool's idle backends
    captured,   \* the backends with a startup_response
    up,         \* the backends whose server has not closed the connection
    started,    \* the backends whose server has done its startup
    session,    \* the server's session state
    inbox, outbox

handlerVars == <<stage, begun, conn, tracker, pinned, armed, partial>>
clientVars == <<asked, answer, did>>
serverVars == <<up, started, session, inbox, outbox>>
vars == <<mode, handlerVars, clientVars, idle, captured, serverVars>>

Stages == {"acquire", "health", "reset", "startup", "greet", "loop", "done"}
Requests == [from : Clients \cup {Proxy}, n : 0..Window-1,
             kind : Statements \cup {"health", "terminate"}]
Responses == [from : Clients \cup {Proxy}, n : 0..Window-1, shows : Sessions]

NoAnswer(c) == [from |-> c, n |-> 0, shows |-> FreshSession]

TypeOK ==
    /\ mode \in Modes
    /\ stage \in [Clients -> Stages]
    /\ begun \subseteq Clients
    /\ conn \in [Clients -> Backends \cup {NoBackend}]
    /\ tracker \in [Clients -> Statuses]
    /\ pinned \subseteq Clients /\ armed \subseteq Clients
    /\ partial \in [Clients -> {"no", "even", "cut"}]
    /\ asked \in [Clients -> Seq(Kinds)] /\ did \in [Clients -> SUBSET Kinds]
    /\ answer \in [Clients -> Responses]
    /\ idle \subseteq Backends /\ captured \subseteq Backends
    /\ up \subseteq Backends /\ started \subseteq Backends
    /\ session \in [Backends -> Sessions]
    /\ inbox \in [Backends -> Seq(Requests)] /\ outbox \in [Backends -> Seq(Responses)]
    /\ \A c \in Clients : conn[c] # NoBackend <=> stage[c] \notin {"acquire", "done"}

(* warmup: some connections are opened, without a startup, before any      *)
(* client comes.                                                           *)
Warmup == idle \in SUBSET Warm

Init ==
    /\ mode \in Modes
    /\ stage = [c \in Clients |-> "acquire"]
    /\ begun = {} /\ pinned = {} /\ armed = {}
    /\ conn = [c \in Clients |-> NoBackend]
    /\ tracker = [c \in Clients |-> "I"] /\ partial = [c \in Clients |-> "no"]
    /\ asked = [c \in Clients |-> <<>>]
    /\ answer = [c \in Clients |-> NoAnswer(c)]
    /\ did = [c \in Clients |-> {}]
    /\ Warmup /\ captured = {} /\ up = Backends /\ started = {}
    /\ session = [b \in Backends |-> FreshSession]
    /\ inbox = [b \in Backends |-> <<>>]
    /\ outbox = [b \in Backends |-> <<>>]

-----------------------------------------------------------------------------
GoTo(c, s) == stage' = [stage EXCEPT ![c] = s]
Take(c, b) == conn' = [conn EXCEPT ![c] = b]
Request(from, n, kind) == [from |-> from, n |-> n, kind |-> kind]

(* The number of c's next statement.                                       *)
Number(c) == (answer[c].n + Len(asked[c]) + 1) % Window

(* The client sends statement k, unless it is waiting.                     *)
Ask(c, k) ==
    /\ Len(asked[c]) < Depth
    /\ asked' = [asked EXCEPT ![c] = Append(@, k)]
    /\ did' = [did EXCEPT ![c] = @ \cup ({k} \cap {"begin", "set"})]
    /\ UNCHANGED answer

(* Bytes for the server of b.  A closed connection swallows them.          *)
Write(b, reqs) ==
    inbox' = [inbox EXCEPT ![b] = IF b \in up THEN @ \o reqs ELSE @]

(* The proxy drops the socket: b is free for a new connection.             *)
Close(b) ==
    /\ up' = up \cup {b}
    /\ started' = started \ {b}
    /\ captured' = captured \ {b}
    /\ session' = [session EXCEPT ![b] = FreshSession]
    /\ inbox' = [inbox EXCEPT ![b] = <<>>]
    /\ outbox' = [outbox EXCEPT ![b] = <<>>]

(* The handler is gone with its locals, and so is its client.              *)
Over(c) ==
    /\ GoTo(c, "done")
    /\ Take(c, NoBackend)
    /\ begun' = begun \ {c} /\ pinned' = pinned \ {c} /\ armed' = armed \ {c}
    /\ tracker' = [tracker EXCEPT ![c] = "I"] /\ partial' = [partial EXCEPT ![c] = "no"]
    /\ asked' = [asked EXCEPT ![c] = <<>>]
    /\ answer' = [answer EXCEPT ![c] = NoAnswer(c)]
    /\ did' = [did EXCEPT ![c] = {}]

(* The handler returns, through release() or through `?`: either way the   *)
(* ManagedConnection is dropped and its backend is idle in the pool.       *)
Finish(c) == Over(c) /\ idle' = idle \cup ({conn[c]} \ {NoBackend})

(* PostgreSQL, one statement.  A server that has not had its startup takes *)
(* the proxy's query for a broken startup packet and closes.               *)
Serve(b) ==
    /\ inbox[b] # <<>> /\ b \in up
    /\ LET r == Head(inbox[b]) IN
         IF r.kind = "terminate" \/ b \notin started
           THEN /\ up' = up \ {b}
                /\ inbox' = [inbox EXCEPT ![b] = <<>>]
                /\ UNCHANGED <<session, outbox>>
           ELSE /\ session' = [session EXCEPT ![b] = After(@, r.kind)]
                /\ inbox' = [inbox EXCEPT ![b] = Tail(@)]
                /\ outbox' = [outbox EXCEPT ![b] =
                     Append(@, [from |-> r.from, n |-> r.n, shows |-> session'[b]])]
                /\ UNCHANGED up
    /\ UNCHANGED <<mode, handlerVars, clientVars, idle, captured, started>>

(* The server goes away, with whatever it has not answered.                *)
Crash(b) ==
    /\ b \in up /\ b \in started
    /\ up' = up \ {b}
    /\ inbox' = [inbox EXCEPT ![b] = <<>>]
    /\ UNCHANGED <<mode, handlerVars, clientVars, idle, captured, started, session, outbox>>

-----------------------------------------------------------------------------
(* deadpool hands out an idle object after recycle(): first health_check.  *)
AcquireIdle(c) ==
    /\ stage[c] = "acquire"
    /\ \E b \in idle :
         /\ idle' = idle \ {b}
         /\ Take(c, b)
         /\ Write(b, <<Request(Proxy, 0, "health")>>)
    /\ GoTo(c, "health")
    /\ UNCHANGED <<mode, begun, tracker, pinned, armed, partial, clientVars, captured,
                   up, started, session, outbox>>

AcquireNew(c) ==
    /\ stage[c] = "acquire" /\ idle = {}
    /\ \E b \in Backends : (\A d \in Clients : conn[d] # b) /\ Take(c, b)
    /\ GoTo(c, "startup")
    /\ UNCHANGED <<mode, begun, tracker, pinned, armed, partial, clientVars, idle,
                   captured, serverVars>>

(* acquire() ends in an error: see PoolManager.                            *)
AcquireFails(c) ==
    /\ stage[c] = "acquire"
    /\ Finish(c)
    /\ UNCHANGED <<mode, captured, serverVars>>

(* recycle() gives up on its backend: deadpool discards it and goes on.    *)
RecycleFails(c) ==
    /\ Close(conn[c])
    /\ Take(c, NoBackend)
    /\ GoTo(c, "acquire")

(* A faulty RecycleReads, which ServedClean must notice.                   *)
RecycleUnreset(c) ==
    /\ stage[c] \in {"health", "reset"}
    /\ LET b == conn[c] IN
       \E m \in 1..Len(outbox[b]) :
         IF outbox[b][m].shows.txn # "I"
           THEN RecycleFails(c)
           ELSE /\ outbox' = [outbox EXCEPT ![b] = SubSeq(@, m + 1, Len(@))]
                /\ GoTo(c, "startup")
                /\ UNCHANGED <<inbox, conn, captured, up, started, session>>
    /\ UNCHANGED <<mode, begun, tracker, pinned, armed, partial, clientVars, idle>>

(* read_until_ready_for_query: one read returns m responses, and the last  *)
(* status among them decides.  After health_check comes reset_connection.  *)
RecycleReads(c) ==
    /\ stage[c] \in {"health", "reset"}
    /\ LET b == conn[c] IN
       \E m \in 1..Len(outbox[b]) :
         IF outbox[b][m].shows.txn # "I"
           THEN RecycleFails(c)
           ELSE /\ outbox' = [outbox EXCEPT ![b] = SubSeq(@, m + 1, Len(@))]
                /\ IF stage[c] = "health"
                     THEN Write(b, <<Request(Proxy, 0, "discard")>>) /\ GoTo(c, "reset")
                     ELSE GoTo(c, "startup") /\ UNCHANGED inbox
                /\ UNCHANGED <<conn, captured, up, started, session>>
    /\ UNCHANGED <<mode, begun, tracker, pinned, armed, partial, clientVars, idle>>

(* No answer within a second (five for DISCARD ALL), or end of stream.     *)
RecycleTimesOut(c) ==
    /\ stage[c] \in {"health", "reset"}
    /\ RecycleFails(c)
    /\ UNCHANGED <<mode, begun, tracker, pinned, armed, partial, clientVars, idle>>

(* An abort inside get() drops the object it was recycling.                *)
RecycleInterrupted(c) ==
    /\ Interrupts /\ stage[c] \in {"health", "reset"}
    /\ Close(conn[c])
    /\ Over(c)
    /\ UNCHANGED <<mode, idle>>

-----------------------------------------------------------------------------
(* The reuse-aware startup.  With a captured response nothing is sent to   *)
(* the backend.                                                            *)
ReplayStartup(c) ==
    /\ stage[c] = "startup" /\ conn[c] \in captured
    /\ begun' = begun \cup {c}
    /\ GoTo(c, "loop")
    /\ UNCHANGED <<mode, conn, tracker, pinned, armed, partial, clientVars, idle,
                   captured, serverVars>>

(* Without one, initialize_backend_startup.  Mid-session the response is   *)
(* stored at once; for a new client it is first written to that client.    *)
InitializeBackend(c) ==
    /\ stage[c] = "startup" /\ conn[c] \notin captured
    /\ conn[c] \in up \ started
    /\ started' = started \cup {conn[c]}
    /\ IF c \in begun
         THEN captured' = captured \cup {conn[c]} /\ GoTo(c, "loop")
         ELSE GoTo(c, "greet") /\ UNCHANGED captured
    /\ UNCHANGED <<mode, begun, conn, tracker, pinned, armed, partial, clientVars, idle,
                   up, session, inbox, outbox>>

(* A second StartupMessage makes the server close; so does a dead one fail *)
(* the handshake.                                                          *)
InitializeFails(c) ==
    /\ stage[c] = "startup" /\ conn[c] \notin captured
    /\ conn[c] \in started \/ conn[c] \notin up
    /\ up' = up \ {conn[c]}
    /\ inbox' = [inbox EXCEPT ![conn[c]] = <<>>]
    /\ Finish(c)
    /\ UNCHANGED <<mode, captured, started, session, outbox>>

(* A faulty Greet, which StartedOnce must notice.                          *)
GreetUncaptured(c) ==
    /\ stage[c] = "greet"
    /\ begun' = begun \cup {c}
    /\ GoTo(c, "loop")
    /\ UNCHANGED <<mode, conn, tracker, pinned, armed, partial, clientVars, idle, captured, serverVars>>

Greet(c) ==
    /\ stage[c] = "greet"
    /\ captured' = captured \cup {conn[c]}
    /\ begun' = begun \cup {c}
    /\ GoTo(c, "loop")
    /\ UNCHANGED <<mode, conn, tracker, pinned, armed, partial, clientVars, idle, serverVars>>

(* The client fails its authentication or vanishes, or its handler is      *)
(* aborted, before the loop.                                               *)
StartupInterrupted(c) ==
    /\ Interrupts /\ stage[c] \in {"startup", "greet"}
    /\ Finish(c)
    /\ UNCHANGED <<mode, captured, serverVars>>

-----------------------------------------------------------------------------
(* ModeEnforcer::validate.                                                 *)
Rejected(c, k) == mode = "Transaction" /\ k = "set" /\ tracker[c] = "I"

(* conn_state.apply_query: a SET pins, DISCARD ALL forgets every pin.      *)
PinnedAfter(c, k) ==
    CASE k = "set" -> pinned \cup {c}
      [] k = "discard" -> pinned \ {c}
      [] OTHER -> pinned

(* Executing a statement prepared earlier through a portal with a name     *)
(* leaves no entry under the unnamed one.                                  *)
Timed == Kinds \ {"fetch"}

(* A faulty ForwardQuery, which Answered must notice.                      *)
ForwardUnarmed(c, k) ==
    /\ stage[c] = "loop" /\ ~Rejected(c, k)
    /\ Ask(c, k)
    /\ Write(conn[c], <<Request(c, Number(c), k)>>)
    /\ pinned' = PinnedAfter(c, k)
    /\ UNCHANGED <<mode, stage, begun, conn, tracker, armed, partial, idle, captured, up,
                   started, session, outbox>>

(* The client's next statement arrives and is forwarded.  The deadline is  *)
(* armed, if it is not running already, for a statement that has a pending *)
(* entry under the unnamed portal: a simple query, or one that is parsed.  *)
ForwardQuery(c, k) ==
    /\ stage[c] = "loop" /\ ~Rejected(c, k)
    /\ Ask(c, k)
    /\ Write(conn[c], <<Request(c, Number(c), k)>>)
    /\ pinned' = PinnedAfter(c, k)
    /\ armed' = IF QueryTimeout /\ k \in Timed THEN armed \cup {c} ELSE armed
    /\ UNCHANGED <<mode, stage, begun, conn, tracker, partial, idle, captured, up, started,
                   session, outbox>>

(* It is refused: the proxy answers, with the status it has tracked.       *)
RejectQuery(c, k) ==
    /\ stage[c] = "loop" /\ Rejected(c, k)
    /\ Len(asked[c]) < Depth
    /\ answer' = [answer EXCEPT ![c].n = Number(c), ![c].shows.txn = tracker[c]]
    /\ UNCHANGED <<mode, handlerVars, asked, did, idle, captured, serverVars>>

(* The client says Terminate, or its socket ends: break, and release().    *)
ClientLeaves(c) ==
    /\ stage[c] = "loop"
    /\ Interrupts \/ asked[c] = <<>>
    /\ Finish(c)
    /\ UNCHANGED <<mode, captured, serverVars>>

(* A statement and Terminate in one read: both are forwarded, and the      *)
(* client's socket ends next.                                              *)
QueryThenTerminate(c, k) ==
    /\ Interrupts /\ stage[c] = "loop" /\ ~Rejected(c, k)
    /\ Len(asked[c]) < Depth
    /\ Write(conn[c], <<Request(c, Number(c), k), Request(c, 0, "terminate")>>)
    /\ Finish(c)
    /\ UNCHANGED <<mode, captured, up, started, session, outbox>>

(* A faulty ShouldRelease, which Transparent must notice.                  *)
ReleasePinned(c, status) ==
    /\ tracker[c] # "I" /\ status = "I"
    /\ mode \in {"Transaction", "Hybrid"}

(* should_release_connection, asked when a transaction has just ended.     *)
ShouldRelease(c, status) ==
    /\ tracker[c] # "I" /\ status = "I"
    /\ mode \in {"Transaction", "Hybrid"} /\ c \notin pinned

(* update_from_ready_for_query                                             *)
Track(c, status) == tracker' = [tracker EXCEPT ![c] = status]

(* A read that ends before the ReadyForQuery: the response is forwarded as *)
(* far as it goes.  A completion or an error in it takes the pending entry *)
(* and the deadline with it; a read that began inside a message shows none.*)
ResponseBegins(c) ==
    /\ Splits /\ stage[c] = "loop" /\ outbox[conn[c]] # <<>>
    /\ armed' \in IF partial[c] = "cut" THEN {armed} ELSE {armed, armed \ {c}}
    /\ \E p \in {"even", "cut"} : partial' = [partial EXCEPT ![c] = p]
    /\ UNCHANGED <<mode, stage, begun, conn, tracker, pinned, clientVars, idle, captured,
                   serverVars>>

(* A read that ends with the m-th ReadyForQuery.  What the proxy makes of  *)
(* it: the pending entry is taken by the first completion, the last        *)
(* ReadyForQuery is the new transaction status, and the end of a           *)
(* transaction releases the backend and acquires again.                    *)
BackendResponds(c, m) ==
    /\ stage[c] = "loop" /\ m \in 1..Len(outbox[conn[c]]) /\ partial[c] # "cut"
    /\ LET b == conn[c]
           status == outbox[b][m].shows.txn
       IN /\ answer' = [answer EXCEPT ![c] = outbox[b][m]]
          /\ asked' = [asked EXCEPT ![c] = SubSeq(@, m + 1, Len(@))]
          /\ outbox' = [outbox EXCEPT ![b] = SubSeq(@, m + 1, Len(@))]
          /\ armed' = armed \ {c}
          /\ partial' = [partial EXCEPT ![c] = "no"]
          /\ Track(c, status)
          /\ IF ShouldRelease(c, status)
               THEN /\ idle' = idle \cup {b}
                    /\ Take(c, NoBackend)
                    /\ GoTo(c, "acquire")
               ELSE UNCHANGED <<idle, conn, stage>>
    /\ UNCHANGED <<mode, begun, pinned, did, captured, up, started, session, inbox>>

(* The scan of a read that began inside a message finds neither completion *)
(* nor ReadyForQuery: the client is answered, and the proxy does not know. *)
ResponseEndsUnseen(c) ==
    /\ Splits /\ stage[c] = "loop" /\ outbox[conn[c]] # <<>> /\ partial[c] = "cut"
    /\ LET b == conn[c]
       IN /\ answer' = [answer EXCEPT ![c] = Head(outbox[b])]
          /\ asked' = [asked EXCEPT ![c] = SubSeq(@, 2, Len(@))]
          /\ outbox' = [outbox EXCEPT ![b] = Tail(@)]
    /\ partial' = [partial EXCEPT ![c] = "no"]
    /\ UNCHANGED <<mode, stage, begun, conn, tracker, pinned, armed, did, idle, captured, up,
                   started, session, inbox>>

(* End of the backend stream, or a failed write to it.                     *)
BackendGone(c) ==
    /\ stage[c] = "loop"
    /\ conn[c] \notin up /\ outbox[conn[c]] = <<>>
    /\ Finish(c)
    /\ UNCHANGED <<mode, captured, serverVars>>

(* The deadline arm of the select: the client gets 57014, the loop breaks, *)
(* and release() returns the backend like any other.                       *)
QueryTimesOut(c) ==
    /\ stage[c] = "loop" /\ c \in armed
    /\ Finish(c)
    /\ UNCHANGED <<mode, captured, serverVars>>

-----------------------------------------------------------------------------
Recycling(c) == AcquireIdle(c) \/ RecycleReads(c) \/ RecycleTimesOut(c)

Startup(c) ==
    ReplayStartup(c) \/ InitializeBackend(c) \/ InitializeFails(c) \/ Greet(c)

Loop(c) ==
    \/ \E k \in Kinds : ForwardQuery(c, k) \/ RejectQuery(c, k) \/ QueryThenTerminate(c, k)
    \/ \E b \in Backends : b = conn[c] /\ \E m \in 1..Len(outbox[b]) : BackendResponds(c, m)
    \/ ResponseBegins(c) \/ ResponseEndsUnseen(c)
    \/ ClientLeaves(c) \/ BackendGone(c) \/ QueryTimesOut(c)

Next ==
    \/ \E c \in Clients :
         \/ Recycling(c) \/ AcquireNew(c) \/ AcquireFails(c) \/ Startup(c) \/ Loop(c)
         \/ RecycleInterrupted(c) \/ StartupInterrupted(c)
    \/ \E b \in Backends : Serve(b) \/ Crash(b)

Spec == Init /\ [][Next]_vars

-----------------------------------------------------------------------------
(* The transparency contract: through the proxy each client observes what  *)
(* a direct connection would show it.  Its statements are answered in      *)
(* order, each answer is its own, and shows the transaction status and the *)
(* session state that its own statements, and nobody else's, have made,    *)
(* whichever backends served it in between.                                *)
Direct == INSTANCE DirectSession
            WITH over <- {c \in Clients : stage[c] = "done"}
Transparent == Direct!Spec

(* A backend that passed recycle is quiet: no statement and no response of *)
(* an earlier user is under way on it when the next client gets it.  The   *)
(* handler's comment on Terminate counts on health_check for this (it      *)
(* "would catch the desync and discard the connection"), and its comment   *)
(* on the deadline on a connection that is "never reused".                 *)
HandedOverQuiet ==
    \A c \in Clients :
      stage[c] \in {"startup", "greet"} =>
        inbox[conn[c]] = <<>> /\ outbox[conn[c]] = <<>>

(* No client's statement is executed in a session that another client has  *)
(* left dirty: when the server comes to a statement of c, c itself opened  *)
(* the transaction it would run in and made the setting it would see.      *)
ServedClean ==
    \A b \in Backends, c \in Clients :
      b \in up /\ inbox[b] # <<>> /\ Head(inbox[b]).from = c /\ stage[c] # "done" =>
        /\ session[b].txn # "I" => "begin" \in did[c]
        /\ session[b].guc => "set" \in did[c]

(* A StartupMessage goes only to a server that has not had one: the loss   *)
(* of a captured startup response would break the next client's session.   *)
StartedOnce ==
    \A c \in Clients :
      stage[c] = "startup" /\ conn[c] \notin captured => conn[c] \notin started

-----------------------------------------------------------------------------
(* Fairness.  The handler's select! polls both sockets and the deadline,   *)
(* and a timeout bounds each recycle step.                                 *)
HandlerFairness ==
    \A c \in Clients :
      /\ WF_vars(BackendGone(c)) /\ WF_vars(QueryTimesOut(c))
      /\ WF_vars(\E b \in Backends : b = conn[c] /\ partial[c] = "no" /\
                   \E m \in 1..Len(outbox[b]) : BackendResponds(c, m))

(* Nothing is assumed of the servers: they may hang, also in the middle of *)
(* a response.                                                             *)
LiveSpec == Spec /\ HandlerFairness

(* query_timeout_secs bounds the wait of a client that waits for its       *)
(* answers: a statement with a pending entry under the unnamed portal is   *)
(* answered, its session is ended, or its first completion has come.  The  *)
(* deadline covers no more: not what follows that completion, and not a    *)
(* statement without the entry.                                            *)
Answered ==
    \A c \in Clients :
      asked[c] # <<>> /\ Head(asked[c]) \in Timed ~>
        asked[c] = <<>> \/ (partial[c] # "no" /\ c \notin armed)
=============================================================================
