----------------------------- MODULE MCGateway -----------------------------
(* Console with one routed database and the configurations that reach      *)
(* every arm of the startup.                                               *)
EXTENDS Console, TLC

CONSTANTS c1, c2, d1, b0, star, console, u1, p1, p2

MCAsks ==
    (c1 :> {[user |-> u1, db |-> d1], [user |-> u1, db |-> b0], [user |-> Absent, db |-> Absent]})
      @@ (c2 :> {[user |-> u1, db |-> console], [user |-> u1, db |-> b0]})

MCSizeOverride == (d1 :> 1)

Plain == (u1 :> [kind |-> "Plain", of |-> p1])

Hashed == (u1 :> [kind |-> "Md5", of |-> p1])

Base ==
    [password |-> "secret", anonymize_salt |-> "salt", pool_size |-> 1, allow_trust |-> TRUE]

Admin == [admin_enabled |-> TRUE, admin_password |-> p1]

Tls(mode) ==
    [client_tls_sslmode |-> mode, client_tls_cert_file |-> "good",
     client_tls_key_file |-> "good", client_tls_ca_file |-> "good"]

Md5 == [auth_type |-> "md5", auth_file |-> "good"]

Direct == [connection_pooling |-> "disabled"]

Source(file, env, list) == [file |-> file @@ Base, env |-> env, list |-> list]

(* The first five start; the others are refused, each by a check of its    *)
(* own.                                                                    *)
MCSources ==
    {Source(Admin, <<>>, <<>>),
     Source(Md5 @@ Admin @@ Tls("require"), <<>>, Plain),
     Source(Md5 @@ Tls("require"), Direct, Hashed),
     Source([auth_type |-> "trust", server_tls_sslmode |-> "require"] @@ Tls("verify-full"),
            [auth_type |-> "cert"], <<>>),
     Source(Tls("allow") @@ [unix_socket |-> "set"], Direct, <<>>),
     Source([auth_type |-> "password"], <<>>, <<>>),
     Source([auth_type |-> "scram-sha-256"], <<>>, <<>>),
     Source([auth_type |-> "md5"], <<>>, <<>>),
     Source([auth_type |-> "cert"] @@ Tls("require"), <<>>, <<>>),
     Source(<<>>, [pool_size |-> 0], <<>>),
     Source(<<>>, [anonymize_salt |-> "unset"], <<>>),
     Source([password_file |-> "good"], <<>>, <<>>),
     Source(Md5, <<>>, Malformed)}

MCLists == {Plain, <<>>, Malformed}
=============================================================================
