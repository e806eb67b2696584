------------------------------- MODULE Config -------------------------------
(***************************************************************************)
(* What the process starts with: Config::load and Config::validate of      *)
(* config/mod.rs, the certificates tls/config.rs loads and the userlist    *)
(* auth/file_auth.rs parses.  main and ProxyServer::new stop at the first  *)
(* error, so a configuration is either refused here or served as it is.    *)
(*                                                                         *)
(* A configuration is a flat record of the settings that decide anything   *)
(* in the modules that extend this one.  A path is "unset" or says what is *)
(* in the file: "good", "empty", or "bad" for unreadable and unparsable.   *)
(***************************************************************************)
EXTENDS Naturals

CONSTANTS
    Users,          \* user names of the userlist
    Passwords,
    Absent,         \* None: no user, no database, no password, no userlist
    Malformed       \* a userlist with a line that does not parse

TlsSslMode == {"disable", "allow", "require", "verify-ca", "verify-full"}

RequiresEncryption(mode) == mode \in {"require", "verify-ca", "verify-full"}

Verifies(mode) == mode \in {"verify-ca", "verify-full"}

AuthType == {"trust", "md5", "scram-sha-256", "cert"}

PoolingStrategy == {"disabled", "session", "transaction", "hybrid"}

(* Config::default().                                                      *)
Defaults ==
    [client_tls_sslmode |-> "disable", client_tls_cert_file |-> "unset",
     client_tls_key_file |-> "unset", client_tls_ca_file |-> "unset",
     server_tls_sslmode |-> "disable", server_tls_ca_file |-> "unset",
     server_tls_cert_file |-> "unset", server_tls_key_file |-> "unset",
     auth_type |-> "trust", auth_file |-> "unset", allow_trust |-> FALSE,
     password |-> "", password_file |-> "unset",
     publisher_enabled |-> TRUE, anonymize |-> TRUE, anonymize_salt |-> "unset",
     publisher_type |-> "debug", http_endpoint |-> "unset", http_api_key |-> "unset",
     allow_insecure |-> FALSE, unix_socket |-> "unset", max_connections |-> 100,
     connection_pooling |-> "hybrid", pool_size |-> 50,
     enable_metrics_server |-> TRUE, metrics_server_address |-> "loopback",
     metrics_allow_non_loopback |-> FALSE,
     admin_enabled |-> FALSE, admin_password |-> Absent]

(* The dynamically sized databases section has no default paths.           *)
ValidConfigPaths == DOMAIN Defaults \cup {"databases"}

UnknownScryEnvKeys(env) == DOMAIN env \ ValidConfigPaths

(* Config::load: the environment over the file over the defaults.  A key   *)
(* that is unknown in the file is ignored; in the environment it is not.   *)
Layered(file, env) ==
    [k \in DOMAIN Defaults |->
      IF k \in DOMAIN env THEN env[k] ELSE IF k \in DOMAIN file THEN file[k] ELSE Defaults[k]]

(* The trimmed content of password_file becomes the password.              *)
Load(file, env) ==
    LET c == Layered(file, env) IN
    [c EXCEPT !.password = IF c.password_file = "unset" THEN @ ELSE c.password_file]

(* try_deserialize: an enumeration takes its own values, a size is one.    *)
Deserializes(c) ==
    /\ c.client_tls_sslmode \in TlsSslMode /\ c.server_tls_sslmode \in TlsSslMode
    /\ c.auth_type \in AuthType /\ c.connection_pooling \in PoolingStrategy
    /\ c.pool_size \in Nat /\ c.max_connections \in Nat

(* A variable SCRY_ALLOW_UNKNOWN_KEYS waives the first check; two sources  *)
(* of the password, or a file without one, are errors.                     *)
LoadSucceeds(file, env, allowUnknown) ==
    /\ allowUnknown \/ UnknownScryEnvKeys(env) = {}
    /\ LET c == Layered(file, env) IN
       /\ Deserializes(c)
       /\ c.password_file # "unset" => c.password = "" /\ c.password_file = "good"

(* A faulty validate, which NoDeadArm must notice: check 3 is missing.     *)
ValidAuthNoFile(c) ==
    /\ c.auth_type # "scram-sha-256"
    /\ c.auth_type = "cert" => Verifies(c.client_tls_sslmode)
    /\ c.auth_type = "trust" => c.allow_trust
    /\ c.password # ""

(* Config::validate, the fail-closed checks 1 to 5.                        *)
ValidAuth(c) ==
    /\ c.auth_type # "scram-sha-256"
    /\ c.auth_type = "cert" => Verifies(c.client_tls_sslmode)
    /\ c.auth_type = "md5" => c.auth_file # "unset"
    /\ c.auth_type = "trust" => c.allow_trust
    /\ c.password # ""

(* Checks 6 and 7.                                                         *)
ValidPublisher(c) ==
    c.publisher_enabled =>
      /\ c.anonymize => c.anonymize_salt # "unset"
      /\ c.publisher_type = "http" =>
           /\ c.http_endpoint # "unset"
           /\ c.http_endpoint = "https" \/ c.allow_insecure

(* Checks 8 and 9.                                                         *)
ValidCapacity(c) ==
    /\ c.max_connections # 0
    /\ c.connection_pooling # "disabled" => c.pool_size # 0

(* Check 10.                                                               *)
ValidMetricsServer(c) ==
    c.enable_metrics_server =>
      /\ c.metrics_server_address # "invalid"
      /\ c.metrics_server_address = "loopback" \/ c.metrics_allow_non_loopback

Validate(c) ==
    ValidAuth(c) /\ ValidPublisher(c) /\ ValidCapacity(c) /\ ValidMetricsServer(c)

(* load_client_tls_config: a path that is missing, or whose file cannot be *)
(* used, is an error.                                                      *)
LoadClientTlsSucceeds(c) ==
    /\ c.client_tls_sslmode # "disable" =>
         c.client_tls_cert_file = "good" /\ c.client_tls_key_file = "good"
    /\ Verifies(c.client_tls_sslmode) => c.client_tls_ca_file = "good"

(* The acceptor it returns: None when TLS is disabled.                     *)
ClientTls(c) == c.client_tls_sslmode # "disable"

(* load_server_tls_config, called for the pools only: without a CA file    *)
(* the built-in roots are used; the certificate needs its key to count.    *)
LoadServerTlsSucceeds(c) ==
    c.connection_pooling # "disabled" /\ Verifies(c.server_tls_sslmode) =>
      /\ c.server_tls_ca_file # "bad"
      /\ "unset" \notin {c.server_tls_cert_file, c.server_tls_key_file} =>
           c.server_tls_cert_file = "good" /\ c.server_tls_key_file = "good"

PasswordEntry == [kind : {"Plain", "Md5", "Scram"}, of : Passwords]

(* A faulty as_plain, which AdmittedAsConfigured must notice: a stored     *)
(* hash is compared with as if it were the password.                       *)
AsAny(entry) == entry.of

(* Only a plain password can answer an MD5 challenge.                      *)
AsPlain(entry) == IF entry.kind = "Plain" THEN entry.of ELSE Absent

(* A userlist that parses maps the users it names to their entries; one    *)
(* bad line and from_string returns an error.                              *)
UserLists == UNION {[U -> PasswordEntry] : U \in SUBSET Users}

ASSUME ConfigAssumption == Absent \notin Passwords \cup UserLists

HasUser(list, u) == u \in DOMAIN list

GetPassword(list, u) == IF HasUser(list, u) THEN AsPlain(list[u]) ELSE Absent

(* ProxyServer::new: the authenticator is None without an auth_file.       *)
LoadAuthenticator(c, list) == IF c.auth_file = "unset" THEN Absent ELSE list

(* main: load, validate, ProxyServer::new.                                 *)
Starts(file, env, allowUnknown, list) ==
    LET c == Load(file, env) IN
    /\ LoadSucceeds(file, env, allowUnknown)
    /\ Validate(c)
    /\ LoadClientTlsSucceeds(c)
    /\ LoadServerTlsSucceeds(c)
    /\ c.auth_file # "unset" => c.auth_file = "good" /\ list # Malformed
=============================================================================
