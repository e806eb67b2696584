------------------------------ MODULE Startup ------------------------------
(***************************************************************************)
(* A connection from accept to its first ReadyForQuery: the TLS            *)
(* negotiation of tls/startup.rs, the routing and registration of          *)
(* proxy/server.rs, client authentication (auth/authenticator.rs), the     *)
(* three startup paths of proxy/connection.rs, the login to the server     *)
(* (auth/backend.rs, auth/scram.rs) and the console's own login.           *)
(*                                                                         *)
(* The handler acquires its backend before it authenticates the client.    *)
(* Pools are counted, not modelled: PoolManager has them.  What clients,   *)
(* servers and networks decide is chosen where the proxy observes it.      *)
(***************************************************************************)
EXTENDS Config, Sequences, FiniteSets

CONSTANTS
    Conns,
    Databases,      \* the names of config.databases
    SizeOverride,   \* per database, its pool_size or Absent
    DefaultName,    \* backend.database
    Star,           \* "*", the key of the default pool
    AdminDatabase,  \* "pgbouncer"
    Asks,           \* bound: per connection, the users and databases it may name
    Sources         \* bound: the files and environments it may be started with

ASSUME StartupAssumption ==
    /\ IsFiniteSet(Conns)
    /\ Absent \notin Databases \cup {Star}
    /\ \A source \in Sources : source.list \in UserLists \cup {Malformed}
    /\ \A c \in Conns : \A ask \in Asks[c] : ask.user \in Users \cup {Absent}
    /\ SizeOverride \in [Databases -> Nat \cup {Absent}]

VARIABLES
    settings,       \* the Config the process serves
    conn,           \* per connection, its task
    entries,        \* the ClientRegistry
    accepting,      \* per pool key, PoolManager::accepting
    warm,           \* per pool key, the captured startups of the idle backends
    authenticator   \* the shared cell: a userlist or Absent

startupVars == <<settings, conn, entries, accepting, warm, authenticator>>

shared == <<settings, accepting, authenticator>>

(* pool_managers: empty when pooling is disabled.                          *)
PoolKeys ==
    IF settings.connection_pooling = "disabled" THEN {} ELSE Databases \cup {Star}

PoolSize(key) ==
    IF key \in Databases /\ SizeOverride[key] # Absent
    THEN SizeOverride[key] ELSE settings.pool_size

(* handle_client_connection: the exact name, else the default pool.        *)
PoolOf(db) ==
    IF db \in PoolKeys THEN db ELSE IF Star \in PoolKeys THEN Star ELSE Absent

(* capture is the startup response the backend keeps; cut is whether the   *)
(* last read ended inside a message; blind is history: ReadyForQuery came  *)
(* in a read that began inside a message.                                  *)
NewConn ==
    [stage |-> "new", heard |-> <<>>, transport |-> "plain",
     user |-> Absent, db |-> Absent, given |-> Absent, list |-> Absent,
     pool |-> Absent, backend |-> "none", link |-> "none", server |-> "none",
     stream |-> <<>>, cut |-> FALSE, blind |-> FALSE, capture |-> <<>>]

(* The task is over: everything it held is dropped.                        *)
Ended(how) == [NewConn EXCEPT !.stage = "closed", !.heard = <<how>>]

StartupInit(source) ==
    /\ Starts(source.file, source.env, FALSE, source.list)
    /\ settings = Load(source.file, source.env)
    /\ conn = [c \in Conns |-> NewConn]
    /\ entries = <<>>
    /\ accepting = [k \in PoolKeys |-> TRUE]
    /\ warm = [k \in PoolKeys |-> <<>>]
    /\ authenticator = LoadAuthenticator(settings, source.list)

At(c, s) == conn[c].stage = s

Becomes(c, task) ==
    /\ conn' = [conn EXCEPT ![c] = task]
    /\ UNCHANGED <<entries, warm>>

(* The task returns.  A pooled backend goes back; only one with a captured *)
(* startup can survive the recycle of the next acquire.                    *)
Close(c, how) ==
    /\ conn' = [conn EXCEPT ![c] = Ended(how)]
    /\ entries' = [d \in DOMAIN entries \ {c} |-> entries[d]]
    /\ warm' = IF conn[c].backend = "warm"
               THEN [warm EXCEPT ![conn[c].pool] = Append(@, conn[c].capture)] ELSE warm

InUse(key) == Cardinality({c \in Conns : conn[c].pool = key /\ conn[c].backend # "none"})

-----------------------------------------------------------------------------
(* The two listeners.  The authenticator is cloned out of its cell here    *)
(* and used for the whole connection.  There is no TLS over a UNIX socket. *)
SpawnTcp(c) ==
    /\ At(c, "new")
    /\ Becomes(c, [conn[c] EXCEPT !.stage = "first", !.list = authenticator])
    /\ UNCHANGED shared

SpawnUnix(c) ==
    /\ At(c, "new") /\ settings.unix_socket # "unset"
    /\ Becomes(c, [conn[c] EXCEPT !.stage = "startup", !.transport = "unix",
                               !.list = authenticator])
    /\ UNCHANGED shared

(* ClientTransport: whether the bytes are encrypted, and whether the       *)
(* client has shown a certificate that the acceptor verified.              *)
IsEncrypted(c) == conn[c].transport \in {"tls", "verified"}

HasVerifiedPeerCert(c) == conn[c].transport = "verified"

(* A StartupMessage may name a user, a database, both, or parse as none    *)
(* (a cancel or GSS request).                                              *)
Reads(c) ==
    \E ask \in Asks[c] :
      Becomes(c, [conn[c] EXCEPT !.stage = "startup", !.user = ask.user, !.db = ask.db])

(* handle_ssl_startup, the first message is no SSLRequest.                 *)
NoSslRequest(c) ==
    /\ At(c, "first")
    /\ IF RequiresEncryption(settings.client_tls_sslmode)
       THEN Close(c, "error")
       ELSE Reads(c)
    /\ UNCHANGED shared

(* It is one.                                                              *)
SslRequest(c) ==
    /\ At(c, "first")
    /\ CASE settings.client_tls_sslmode = "disable"
              -> Becomes(c, [conn[c] EXCEPT !.stage = "declined", !.heard = @ \o <<"N">>])
         [] ClientTls(settings)
              -> Becomes(c, [conn[c] EXCEPT !.stage = "accept", !.heard = @ \o <<"S">>])
         [] OTHER -> Close(c, "closed")
    /\ UNCHANGED shared

ReadDeclined(c) ==
    /\ At(c, "declined")
    /\ Reads(c)
    /\ UNCHANGED shared

(* The TLS handshake.  A verifying mode insists on a good certificate; the *)
(* others do not ask for one.                                              *)
TlsAccept(c) ==
    /\ At(c, "accept")
    /\ \/ Becomes(c, [conn[c] EXCEPT !.stage = "upgraded",
                                      !.transport = IF Verifies(settings.client_tls_sslmode)
                                                    THEN "verified" ELSE "tls"])
       \/ Close(c, "closed")
    /\ UNCHANGED shared

ReadUpgraded(c) ==
    /\ At(c, "upgraded")
    /\ Reads(c)
    /\ UNCHANGED shared

(* handle_client_connection.  A UNIX-socket client is not yet read: its    *)
(* identity is empty and it gets the default pool.                         *)
HandleClientConnection(c) ==
    LET db == conn[c].db
        admin == db = AdminDatabase
    IN
    /\ At(c, "startup")
    /\ entries' = [d \in DOMAIN entries \cup {c} |->
         IF d \in DOMAIN entries THEN entries[d]
         ELSE [user |-> conn[c].user, database |-> db, admin |-> admin, tls |-> IsEncrypted(c)]]
    /\ conn' = [conn EXCEPT ![c] =
                  [@ EXCEPT !.stage = IF admin THEN "admin" ELSE "acquire",
                            !.pool = IF admin THEN Absent ELSE PoolOf(db)]]
    /\ UNCHANGED warm /\ UNCHANGED shared

-----------------------------------------------------------------------------
(* ConnectionHandler::handle: PoolManager::acquire, seen from outside.     *)
AcquireStarts(c) ==
    /\ At(c, "acquire") /\ conn[c].pool # Absent
    /\ IF accepting[conn[c].pool]
       THEN Becomes(c, [conn[c] EXCEPT !.stage = "waiting"])
       ELSE Close(c, "error")
    /\ UNCHANGED shared

(* negotiate_backend_ssl, the transports it may return: what the server    *)
(* answers to SSLRequest decides under allow, and a refusal under a mode   *)
(* that requires encryption fails the acquire.                             *)
NegotiateBackendSsl(mode) ==
    CASE mode = "disable" -> {"plain"}
      [] mode = "allow" -> {"plain", "tls"}
      [] RequiresEncryption(mode) -> {"tls"}

(* Idle backends are tried first; k of them fail their recycle and are     *)
(* closed.  When none is left a fresh one is opened.                       *)
AcquireGets(c) ==
    LET key == conn[c].pool IN
    /\ At(c, "waiting") /\ InUse(key) < PoolSize(key)
    /\ \E k \in 0..Len(warm[key]), link \in NegotiateBackendSsl(settings.server_tls_sslmode) :
         LET hit == k < Len(warm[key]) IN
         /\ warm' = [warm EXCEPT ![key] = SubSeq(@, k + 2, Len(@))]
         /\ conn' = [conn EXCEPT ![c] =
                       [@ EXCEPT !.stage = "auth", !.link = link,
                                 !.backend = IF hit THEN "warm" ELSE "fresh",
                                 !.capture = IF hit THEN warm[key][k + 1] ELSE <<>>]]
    /\ UNCHANGED entries /\ UNCHANGED shared

(* handle_acquire_error: the wait ends in a timeout, a full queue, an open *)
(* breaker or no connection, and the backpressure mode says how loudly.    *)
AcquireFails(c) ==
    /\ At(c, "waiting")
    /\ \E how \in {"error", "closed"} : Close(c, how)
    /\ UNCHANGED shared

(* Without a pool: TcpStream::connect; server_tls_sslmode plays no part.   *)
ConnectDirect(c) ==
    /\ At(c, "acquire") /\ conn[c].pool = Absent
    /\ \/ Becomes(c, [conn[c] EXCEPT !.stage = "auth", !.backend = "direct", !.link = "plain"])
       \/ Close(c, "closed")
    /\ UNCHANGED shared

-----------------------------------------------------------------------------
(* The client is authenticated.  perform_startup_handshake: without a pool *)
(* it is told so after the server has accepted the proxy.                  *)
AdmitDirect(task) == [task EXCEPT !.stage = "login", !.server = "startup"]

(* perform_startup_handshake_capturing: at once, and then the backend,     *)
(* which is fresh, is sent its StartupMessage.                             *)
AdmitFresh(task) ==
    [task EXCEPT !.stage = "login", !.server = "startup", !.heard = @ \o <<"ok">>]

(* replay_startup_to_client: at once, and the backend is not spoken to.    *)
AdmitWarm(task) == [task EXCEPT !.stage = "replay", !.heard = @ \o <<"ok">>]

(* handle_with_pool: a backend that holds a capture is a warm one.         *)
Admit(c, task) ==
    Becomes(c, CASE task.backend = "direct" -> AdmitDirect(task)
                 [] task.backend = "fresh" -> AdmitFresh(task)
                 [] task.backend = "warm" -> AdmitWarm(task))

(* Over a UNIX socket the StartupMessage is read only now.                 *)
ReadUnix(c) ==
    /\ At(c, "auth") /\ conn[c].transport = "unix" /\ conn[c].user = Absent
    /\ \E u \in Users : Becomes(c, [conn[c] EXCEPT !.user = u])
    /\ UNCHANGED shared

(* authenticate_md5 up to its read: the user must be in the list.          *)
AuthenticateMd5(c) ==
    IF conn[c].list = Absent THEN Close(c, "closed")
    ELSE IF ~HasUser(conn[c].list, conn[c].user) THEN Close(c, "error")
    ELSE Becomes(c, [conn[c] EXCEPT !.stage = "password", !.heard = @ \o <<"md5">>])

(* Authenticator::authenticate.  A request without a user is refused once  *)
(* it is looked at.                                                        *)
Authenticate(c) ==
    /\ At(c, "auth") /\ (conn[c].transport = "unix" => conn[c].user # Absent)
    /\ CASE conn[c].user = Absent -> Close(c, "closed")
         [] conn[c].user # Absent /\ settings.auth_type = "trust" -> Admit(c, conn[c])
         [] conn[c].user # Absent /\ settings.auth_type = "md5" -> AuthenticateMd5(c)
         [] conn[c].user # Absent /\ settings.auth_type = "cert" ->
              IF HasVerifiedPeerCert(c) THEN Admit(c, conn[c]) ELSE Close(c, "closed")
         [] OTHER -> Close(c, "closed")
    /\ UNCHANGED shared

(* compute_md5_response: the salt is fresh and the same on both sides.     *)
Md5Response(p, u) == <<p, u>>

(* The rest of authenticate_md5.  A single read must bring the whole       *)
(* PasswordMessage, and only a plain entry can be compared with it.        *)
ReadPassword(c) ==
    LET u == conn[c].user
        stored == GetPassword(conn[c].list, u)
    IN
    /\ At(c, "password")
    /\ \/ Close(c, "closed")
       \/ \E p \in Passwords :
            IF stored = Absent THEN Close(c, "closed")
            ELSE IF Md5Response(p, u) = Md5Response(stored, u)
            THEN Admit(c, [conn[c] EXCEPT !.given = p])
            ELSE Close(c, "error")
    /\ UNCHANGED shared

-----------------------------------------------------------------------------
(* PostgreSQL while it is logged in to.  It refuses, asks, or lets in, and *)
(* what a client of its own would hear then follows in one stream.         *)
Login == {<<"ok", "params", "ready">>, <<"ok", "error">>}

Sends(c, msgs) ==
    Becomes(c, [conn[c] EXCEPT
                  !.stream = msgs,
                  !.server = IF msgs[Len(msgs)] = "error" THEN "gone"
                             ELSE IF msgs[Len(msgs)] = "ready" THEN "up" ELSE "waiting"])

ServerAnswers(c) ==
    /\ At(c, "login")
    /\ \E msgs \in {<<"error">>} \cup
         (CASE conn[c].server = "startup"
                 -> Login \cup {<<"cleartext">>, <<"md5">>, <<"sasl">>, <<"gss">>}
            [] conn[c].server = "password" -> Login
            [] conn[c].server = "sasl initial" -> {<<"continue">>}
            [] conn[c].server = "sasl response"
                 -> {<<"final", "ok", "params", "ready">>, <<"final", "ok", "error">>}
            [] OTHER -> {}) :
         /\ conn[c].server \in {"startup", "password", "sasl initial", "sasl response"}
         /\ Sends(c, msgs)
    /\ UNCHANGED shared

(* It crashes, or its authentication_timeout passes.                       *)
ServerGone(c) ==
    /\ At(c, "login") /\ conn[c].server = "waiting"
    /\ Becomes(c, [conn[c] EXCEPT !.server = "gone"])
    /\ UNCHANGED shared

(* The AuthRequests that parse; any other is None.                         *)
AuthRequests == {"ok", "cleartext", "md5", "sasl", "continue", "final"}

(* try_parse_auth on pending_data: what is no AuthRequest is taken for the *)
(* beginning of one, stays there and is never consumed.                    *)
TryParseAuth(c) == conn[c].stream # <<>> /\ Head(conn[c].stream) \in AuthRequests

(* A faulty end of the login, which SeesGreeting must notice: what remains *)
(* of the stream, and so the capture, still begins with AuthenticationOk.  *)
LogsInKeeping(task) ==
    [task EXCEPT !.stage = "forward",
                 !.heard = IF task.backend = "direct" THEN @ \o <<"ok">> ELSE @]

(* The server says AuthenticationOk: what follows it is left to the        *)
(* startup loop.  Without a pool the client is told now.                   *)
LogsIn(task) ==
    [task EXCEPT !.stage = "forward", !.stream = Tail(@),
                 !.heard = IF task.backend = "direct" THEN @ \o <<"ok">> ELSE @]

(* BackendAuthenticator::authenticate, one request of the server.          *)
BackendAuthenticate(c) ==
    LET Replies(to) == Becomes(c, [conn[c] EXCEPT !.stream = Tail(@), !.server = to])
    IN
    /\ At(c, "login") /\ TryParseAuth(c)
    /\ LET m == Head(conn[c].stream) IN
       \/ m = "ok" /\ Becomes(c, LogsIn(conn[c]))
       \/ m \in {"cleartext", "md5"} /\ Replies("password")
       \/ m = "sasl" /\ Replies("sasl initial")
       \/ m = "continue" /\ Replies("sasl response")
       \/ m = "final" /\ Replies(conn[c].server)
    /\ UNCHANGED shared

(* Another mechanism, another nonce, no salt, a wrong server signature.    *)
ScramFails(c) ==
    /\ At(c, "login") /\ TryParseAuth(c)
    /\ Head(conn[c].stream) \in {"sasl", "continue", "final"}
    /\ Close(c, "closed")
    /\ UNCHANGED shared

(* The startup loops after AuthenticationOk, one read of the server: n     *)
(* whole messages and, when inside, a part of the next.                    *)
CanRead(c, n, inside) ==
    IF inside THEN n < Len(conn[c].stream) /\ (n = 0 => ~conn[c].cut) ELSE n > 0

(* Each read is searched for ReadyForQuery by itself, so one that begins   *)
(* inside a message finds nothing.                                         *)
ContainsReadyForQuery(c, n) == ~conn[c].cut /\ \E i \in 1..n : conn[c].stream[i] = "ready"

Consumed(c, n, inside) ==
    [conn[c] EXCEPT !.stream = SubSeq(@, n + 1, Len(@)), !.cut = inside,
                    !.blind = conn[c].cut /\ \E i \in 1..n : conn[c].stream[i] = "ready"]

(* Without a pool the bytes go to the client as they come.                 *)
Forward(c, n, inside) ==
    /\ At(c, "forward") /\ conn[c].backend = "direct" /\ CanRead(c, n, inside)
    /\ Becomes(c, [Consumed(c, n, inside) EXCEPT
                     !.stage = IF ContainsReadyForQuery(c, n) THEN "ready" ELSE "forward",
                     !.heard = @ \o SubSeq(conn[c].stream, 1, n)])
    /\ UNCHANGED shared

(* initialize_backend_startup: with one they are captured.                 *)
Capture(c, n, inside) ==
    /\ At(c, "forward") /\ conn[c].backend = "fresh" /\ CanRead(c, n, inside)
    /\ Becomes(c, [Consumed(c, n, inside) EXCEPT
                     !.stage = IF ContainsReadyForQuery(c, n) THEN "greet" ELSE "forward",
                     !.capture = @ \o SubSeq(conn[c].stream, 1, n)])
    /\ UNCHANGED shared

(* A faulty end of the stream, which StartupEnds must notice: it is looked *)
(* for only when no message is pending.                                    *)
ClosesWhenDrained(c) ==
    /\ conn[c].stage \in {"login", "forward"} /\ conn[c].server = "gone"
    /\ conn[c].stream = <<>>
    /\ Close(c, "closed")
    /\ UNCHANGED shared

BackendCloses(c) ==
    /\ conn[c].stage \in {"login", "forward"} /\ conn[c].server = "gone"
    /\ conn[c].stream = <<>> \/ (At(c, "login") /\ ~TryParseAuth(c))
    /\ Close(c, "closed")
    /\ UNCHANGED shared

(* The captured response goes to the client in one write, and stays with   *)
(* the backend.                                                            *)
Greet(c) ==
    /\ At(c, "greet")
    /\ Becomes(c, [conn[c] EXCEPT !.stage = "ready", !.heard = @ \o conn[c].capture,
                                  !.backend = "warm", !.server = "none",
                                  !.stream = <<>>, !.cut = FALSE])
    /\ UNCHANGED shared

(* On a warm reuse the stored capture does.                                *)
Replay(c) ==
    /\ At(c, "replay")
    /\ Becomes(c, [conn[c] EXCEPT !.stage = "ready", !.heard = @ \o conn[c].capture])
    /\ UNCHANGED shared

(* The session in between is Session's.                                    *)
SessionEnds(c) ==
    /\ At(c, "ready")
    /\ Close(c, "closed")
    /\ UNCHANGED shared

-----------------------------------------------------------------------------
(* handle_admin_connection up to its command loop.                         *)
AdminLogin(c) ==
    /\ At(c, "admin")
    /\ IF settings.admin_enabled /\ settings.admin_password \notin {Absent, ""}
       THEN Becomes(c, [conn[c] EXCEPT !.stage = "admin password",
                                         !.heard = @ \o <<"cleartext">>])
       ELSE Close(c, "error")
    /\ UNCHANGED shared

AdminPassword(c) ==
    /\ At(c, "admin password")
    /\ \E p \in Passwords \cup {Absent} :
         IF p = settings.admin_password
         THEN Becomes(c, [conn[c] EXCEPT !.stage = "admin greet", !.given = p,
                                         !.heard = @ \o <<"ok">>])
         ELSE Close(c, "error")
    /\ UNCHANGED shared

AdminGreet(c) ==
    /\ At(c, "admin greet")
    /\ Becomes(c, [conn[c] EXCEPT !.stage = "console", !.heard = @ \o <<"ready">>])
    /\ UNCHANGED shared

(* A read returns nothing, an error, or a message of no use.               *)
ClientLeaves(c) ==
    /\ \/ conn[c].stage \in {"first", "declined", "upgraded"}
       \/ At(c, "auth") /\ conn[c].transport = "unix" /\ conn[c].user = Absent
    /\ Close(c, "closed")
    /\ UNCHANGED shared

Negotiate(c) ==
    NoSslRequest(c) \/ SslRequest(c) \/ ReadDeclined(c) \/ TlsAccept(c) \/ ReadUpgraded(c)

Acquire(c) == AcquireStarts(c) \/ AcquireGets(c) \/ AcquireFails(c) \/ ConnectDirect(c)

LogIn(c) ==
    \/ BackendAuthenticate(c) \/ ScramFails(c) \/ BackendCloses(c)
    \/ Greet(c) \/ Replay(c)
    \/ \E n \in 0..Len(conn[c].stream), inside \in BOOLEAN :
         Forward(c, n, inside) \/ Capture(c, n, inside)

(* What the task of c does until the client is ready, given its client.    *)
StartUp(c) ==
    \/ Negotiate(c) \/ HandleClientConnection(c) \/ Acquire(c) \/ ReadUnix(c)
    \/ Authenticate(c) \/ ReadPassword(c) \/ LogIn(c)
    \/ AdminLogin(c) \/ AdminPassword(c) \/ AdminGreet(c)

Server(c) == ServerAnswers(c) \/ ServerGone(c)

StartupNext(c) ==
    SpawnTcp(c) \/ SpawnUnix(c) \/ StartUp(c) \/ Server(c) \/ ClientLeaves(c) \/ SessionEnds(c)
=============================================================================
