------------------------------ MODULE Console ------------------------------
(***************************************************************************)
(* The administrative console over the connections of Startup: the command *)
(* loop of handle_admin_connection, PAUSE, RESUME, RELOAD and the SHOW     *)
(* reports of admin/commands.rs, and the reload that SIGHUP shares with    *)
(* RELOAD.  SHUTDOWN and KILL are Server's.                                *)
(*                                                                         *)
(* Commands of different consoles and of SIGHUP run on different threads:  *)
(* a bare PAUSE visits one pool at a time, a reload reads the file in one  *)
(* step and stores the result in another.                                  *)
(***************************************************************************)
EXTENDS Startup

CONSTANTS
    Lists,      \* bound: what an edit may leave in the auth_file
    MaxEdits    \* bound: on the edits of the auth_file

ASSUME ConsoleAssumption == Lists \subseteq UserLists \cup {Malformed}

VARIABLES
    userlist,   \* what the auth_file holds; Absent when none is configured
    edits,
    job,        \* per console, and for SIGHUP, the command under way
    paused      \* history: the names PAUSE is done for and RESUME not asked for

vars == <<settings, conn, entries, accepting, warm, authenticator,
          userlist, edits, job, paused>>

consoleVars == <<userlist, edits, job, paused>>

Reloaders == Conns \cup {"SIGHUP"}

(* holds is history: what a bare PAUSE will have paused when it is done.   *)
NoJob == [cmd |-> "none", left |-> {}, read |-> Absent, holds |-> {}]

Init ==
    \E source \in Sources :
      /\ StartupInit(source)
      /\ userlist = LoadAuthenticator(settings, source.list)
      /\ edits = 0
      /\ job = [p \in Reloaders |-> NoJob]
      /\ paused = {}

AtPrompt(c) == At(c, "console") /\ job[c] = NoJob

(* No bare RESUME is under way, which may undo a PAUSE that overtakes it.  *)
NoneResuming == \A p \in Reloaders : job[p].cmd # "RESUME"

(* database_entries: the default backend, and one per config.databases,    *)
(* which may have its name or the name of its pool.                        *)
DatabaseEntries ==
    {[name |-> DefaultName, pool_key |-> Star, configured_pool_size |-> settings.pool_size]}
      \cup {[name |-> db, pool_key |-> db,
             configured_pool_size |-> IF SizeOverride[db] = Absent
                                      THEN settings.pool_size ELSE SizeOverride[db]] :
             db \in Databases}

(* The exact pool key, else the pool of the default backend by its name.   *)
ResolvePoolManager(name) ==
    IF name \in PoolKeys THEN name
    ELSE IF \E e \in DatabaseEntries : e.name = name /\ e.pool_key \in PoolKeys
    THEN (CHOOSE e \in DatabaseEntries : e.name = name /\ e.pool_key \in PoolKeys).pool_key
    ELSE Absent

-----------------------------------------------------------------------------
(* PAUSE db and RESUME db.                                                 *)
PauseNamed(c, name) ==
    LET key == ResolvePoolManager(name) IN
    /\ AtPrompt(c)
    /\ IF key = Absent
       THEN UNCHANGED <<accepting, paused>>
       ELSE /\ accepting' = [accepting EXCEPT ![key] = FALSE]
            /\ paused' = IF NoneResuming THEN paused \cup {name} ELSE paused
    /\ UNCHANGED <<settings, conn, entries, warm, authenticator, userlist, edits, job>>

ResumeNamed(c, name) ==
    LET key == ResolvePoolManager(name) IN
    /\ AtPrompt(c)
    /\ IF key = Absent
       THEN UNCHANGED <<accepting, paused, job>>
       ELSE /\ accepting' = [accepting EXCEPT ![key] = TRUE]
            /\ paused' = {n \in paused : PoolOf(n) # key}
            /\ job' = [p \in Reloaders |->
                         [job[p] EXCEPT !.holds = {n \in @ : PoolOf(n) # key}]]
    /\ UNCHANGED <<settings, conn, entries, warm, authenticator, userlist, edits>>

AskedNames == {ask.db : ask \in UNION {Asks[c] : c \in Conns}}

(* A client that is given a pool can be held by a PAUSE.                   *)
Holdable == {n \in AskedNames : PoolOf(n) # Absent}

(* A command that visits the pools of keys one by one.                     *)
Walk(c, cmd, keys) ==
    IF cmd = "RESUME"
    THEN /\ job' = [p \in Reloaders |->
                      IF p = c THEN [NoJob EXCEPT !.cmd = cmd, !.left = keys]
                      ELSE [job[p] EXCEPT !.holds = {}]]
         /\ paused' = {}
    ELSE /\ job' = [job EXCEPT ![c] =
                      [NoJob EXCEPT !.cmd = cmd, !.left = keys,
                                    !.holds = IF NoneResuming THEN Holdable ELSE {}]]
         /\ UNCHANGED paused

(* A faulty bare PAUSE, which PauseHolds must notice: it walks over        *)
(* config.databases and forgets the default pool.                          *)
AllButDefault(c, cmd) ==
    /\ AtPrompt(c)
    /\ Walk(c, cmd, PoolKeys \ {Star})
    /\ UNCHANGED startupVars /\ UNCHANGED <<userlist, edits>>

(* Bare PAUSE and RESUME walk over pool_managers.                          *)
AllPools(c, cmd) ==
    /\ AtPrompt(c)
    /\ Walk(c, cmd, PoolKeys)
    /\ UNCHANGED startupVars /\ UNCHANGED <<userlist, edits>>

EachPool(c) ==
    /\ \E key \in job[c].left :
         /\ accepting' = [accepting EXCEPT ![key] = job[c].cmd = "RESUME"]
         /\ job' = [job EXCEPT ![c].left = @ \ {key}]
    /\ UNCHANGED <<settings, conn, entries, warm, authenticator, userlist, edits, paused>>

AllPoolsDone(c) ==
    /\ job[c].cmd \in {"PAUSE", "RESUME"} /\ job[c].left = {}
    /\ job' = [job EXCEPT ![c] = NoJob]
    /\ paused' = paused \cup job[c].holds
    /\ UNCHANGED startupVars /\ UNCHANGED <<userlist, edits>>

-----------------------------------------------------------------------------
(* The reload closure, for RELOAD and for SIGHUP.  A file that does not    *)
(* parse leaves the authenticator alone; without an auth_file there is     *)
(* nothing to do.                                                          *)
ReloadReads(p) ==
    /\ IF p \in Conns THEN AtPrompt(p) ELSE job[p] = NoJob
    /\ settings.auth_file # "unset" /\ userlist # Malformed
    /\ job' = [job EXCEPT ![p] = [NoJob EXCEPT !.cmd = "RELOAD", !.read = userlist]]
    /\ UNCHANGED startupVars /\ UNCHANGED <<userlist, edits, paused>>

ReloadStores(p) ==
    /\ job[p].cmd = "RELOAD"
    /\ authenticator' = job[p].read
    /\ job' = [job EXCEPT ![p] = NoJob]
    /\ UNCHANGED <<settings, conn, entries, accepting, warm, userlist, edits, paused>>

ReloadAnswers(c) ==
    /\ AtPrompt(c)
    /\ settings.auth_file = "unset" \/ userlist = Malformed
    /\ UNCHANGED vars

(* The operator edits the file.                                            *)
EditUserlist ==
    /\ settings.auth_file # "unset" /\ edits < MaxEdits
    /\ userlist' \in Lists /\ userlist' # userlist
    /\ edits' = edits + 1
    /\ UNCHANGED startupVars /\ UNCHANGED <<job, paused>>

-----------------------------------------------------------------------------
(* The reports.  A faulty live_clients_per_pool_key, which ShowsTruth must *)
(* notice: it counts by the name the client asked for.                     *)
LiveClientsByName(key) ==
    Cardinality({c \in DOMAIN entries : ~entries[c].admin /\ entries[c].database = key})

LiveClientsPerPoolKey(key) ==
    Cardinality({c \in DOMAIN entries :
      /\ ~entries[c].admin
      /\ key = IF entries[c].database \in PoolKeys THEN entries[c].database ELSE Star})

ShowPools ==
    [e \in DatabaseEntries |->
      [cl_active |-> LiveClientsPerPoolKey(e.pool_key),
       sv_active |-> IF e.pool_key \in PoolKeys THEN InUse(e.pool_key) ELSE 0]]

ShowDatabases ==
    [e \in DatabaseEntries |->
      [pool_size |-> IF e.pool_key \in PoolKeys THEN PoolSize(e.pool_key)
                     ELSE e.configured_pool_size,
       current_connections |-> LiveClientsPerPoolKey(e.pool_key),
       paused |-> e.pool_key \in PoolKeys /\ ~accepting[e.pool_key]]]

(* Consoles are clients too, and just as active.                           *)
ShowClients ==
    [c \in DOMAIN entries |->
      [user |-> entries[c].user, database |-> entries[c].database,
       state |-> "active", tls |-> entries[c].tls]]

(* SHOW SERVERS: a row per pool, under a name SHOW DATABASES gives it; of  *)
(* two, the later one.                                                     *)
ShowServers == [key \in PoolKeys |-> IF key \in Databases THEN key ELSE DefaultName]

(* SHOW CONFIG, the rows of the secrets: only whether they are set.  The   *)
(* other rows are the settings.                                            *)
ShowConfig(cfg) ==
    [k \in {"password", "admin_password", "http_api_key", "anonymize_salt"} |->
      IF cfg[k] = Defaults[k] THEN "<unset>" ELSE "<redacted>"]

(* A SHOW changes nothing.                                                 *)
Show(c) ==
    /\ AtPrompt(c)
    /\ UNCHANGED vars

(* Terminate, or the socket is closed.                                     *)
ConsoleEnds(c) ==
    /\ AtPrompt(c)
    /\ Close(c, "closed")
    /\ UNCHANGED shared /\ UNCHANGED consoleVars

Command(c) ==
    \/ \E name \in {e.name : e \in DatabaseEntries} \cup AskedNames :
         PauseNamed(c, name) \/ ResumeNamed(c, name)
    \/ \E cmd \in {"PAUSE", "RESUME"} : AllPools(c, cmd)
    \/ EachPool(c) \/ AllPoolsDone(c) \/ ReloadAnswers(c) \/ Show(c) \/ ConsoleEnds(c)

Reload == \E p \in Reloaders : ReloadReads(p) \/ ReloadStores(p)

Next ==
    \/ \E c \in Conns : StartupNext(c) /\ UNCHANGED consoleVars
    \/ \E c \in Conns : Command(c)
    \/ Reload
    \/ EditUserlist

Spec == Init /\ [][Next]_vars

(* A started task runs on, and there is no login timeout: the client must  *)
(* answer or close, the server must answer or give up.                     *)
LiveSpec ==
    /\ Spec
    /\ \A c \in Conns : WF_vars(StartUp(c) /\ UNCHANGED consoleVars)
    /\ \A c \in Conns : WF_vars(Server(c) /\ UNCHANGED consoleVars)

-----------------------------------------------------------------------------
(* What a client hears is a startup of the protocol, whoever authenticates *)
(* it and whether the rest comes from a server or from a capture: each     *)
(* message once and in its place.                                          *)
G == INSTANCE Greeting WITH heard <- [c \in Conns |-> conn[c].heard]

SeesGreeting == G!Spec

(* A client is told AuthenticationOk, or anything after it, only as the    *)
(* configuration allows: encrypted where sslmode requires it, and by the   *)
(* rules of auth_type or, for the console, with the admin password; and    *)
(* the pooled backend behind it is encrypted where server_tls_sslmode      *)
(* requires it.                                                            *)
AdmittedAsConfigured ==
    \A c \in Conns : G!Latest(conn[c].heard) \in {"ok", "params", "ready"} =>
      /\ RequiresEncryption(settings.client_tls_sslmode) => conn[c].transport # "plain"
      /\ RequiresEncryption(settings.server_tls_sslmode) /\ conn[c].pool # Absent =>
           conn[c].link = "tls"
      /\ IF entries[c].admin
         THEN settings.admin_enabled /\ conn[c].given = settings.admin_password
         ELSE CASE settings.auth_type = "trust" -> settings.allow_trust
                [] settings.auth_type = "cert" -> conn[c].transport = "verified"
                [] settings.auth_type = "md5" ->
                     /\ conn[c].user \in DOMAIN conn[c].list
                     /\ conn[c].list[conn[c].user] = [kind |-> "Plain", of |-> conn[c].given]
                [] OTHER -> FALSE

(* "reaching this arm means validation was bypassed": the arms that guard  *)
(* at run time against what validate refuses are never reached, and no     *)
(* pool of the default size is empty.                                      *)
NoDeadArm ==
    /\ \A c \in Conns :
         /\ At(c, "auth") => settings.auth_type # "scram-sha-256"
         /\ At(c, "auth") /\ settings.auth_type = "md5" => conn[c].list # Absent
         /\ At(c, "accept") => settings.client_tls_cert_file = "good"
         /\ At(c, "waiting") /\ conn[c].pool \notin Databases => PoolSize(conn[c].pool) > 0
         /\ At(c, "login") => settings.password # ""
    /\ settings.publisher_enabled /\ settings.anonymize => settings.anonymize_salt # "unset"

Registered(c) ==
    conn[c].stage \notin {"new", "first", "declined", "accept", "upgraded", "startup", "closed"}

(* The pool client c is served from.                                       *)
ServedFrom(c) == IF conn[c].pool = Absent THEN Star ELSE conn[c].pool

(* The only row with its name.                                             *)
Unambiguous(e) == \A f \in DatabaseEntries : f.name = e.name => f = e

(* What the reports say is so: the row of a database counts the clients    *)
(* its pool serves and, when no other row has its name, says paused when a *)
(* client that asks for it would be refused; SHOW SERVERS gives a pool the *)
(* name of one of its rows; SHOW CLIENTS lists exactly the registered      *)
(* connections, with their transport; and SHOW CONFIG is the same whatever *)
(* the admin password is.                                                  *)
ShowsTruth ==
    LET pools == ShowPools  databases == ShowDatabases  servers == ShowServers IN
    /\ \A e \in DatabaseEntries :
         /\ pools[e].cl_active =
              Cardinality({c \in Conns : Registered(c) /\ conn[c].db # AdminDatabase
                                            /\ ServedFrom(c) = e.pool_key})
         /\ pools[e].sv_active <= databases[e].pool_size
         /\ Unambiguous(e) =>
              (databases[e].paused <=> PoolOf(e.name) # Absent /\ ~accepting[PoolOf(e.name)])
    /\ \A key \in PoolKeys :
         \E e \in DatabaseEntries : e.pool_key = key /\ e.name = servers[key]
    /\ DOMAIN ShowClients = {c \in Conns : Registered(c)}
    /\ \A c \in DOMAIN ShowClients : ShowClients[c].tls <=> IsEncrypted(c)
    /\ \A p \in Passwords :
         settings.admin_password # Absent =>
           ShowConfig(settings) = ShowConfig([settings EXCEPT !.admin_password = p])

(* A database that PAUSE has completed for, with no RESUME under way then  *)
(* and none asked for since, starts no acquire for a new client.           *)
PauseHolds ==
    [][\A c \in Conns :
         At(c, "acquire") /\ conn'[c].stage \in {"waiting", "auth"} =>
           conn[c].db \notin paused]_vars

(* A read that begins inside a message, be it ReadyForQuery or one before  *)
(* it, has brought the server's ReadyForQuery: it is not recognised.       *)
Stalled(c) == At(c, "forward") /\ conn[c].blind

(* An accepted connection ends up closed or ready for its client's first   *)
(* query, except for the startups that the code leaves waiting: those      *)
(* whose ReadyForQuery came in a read that begins inside a message.        *)
StartupEnds ==
    \A c \in Conns :
      []<>(conn[c].stage \in {"new", "ready", "closed", "console"} \/ Stalled(c))
=============================================================================
