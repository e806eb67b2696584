--------------------------- MODULE GatewayProofs ---------------------------
(***************************************************************************)
(* Proofs about Startup and Console, for any number of connections,        *)
(* databases and consoles, and every configuration and userlist.           *)
(*                                                                         *)
(* What is known of a task at each of its stages is said of its record     *)
(* alone: Good(s, t) for a task t of a process that serves the settings s. *)
(* A step changes the record of one task, so it is enough to show that     *)
(* what it becomes is Good again.                                          *)
(***************************************************************************)
EXTENDS Console, TLAPS

Early == {"new", "first", "declined", "accept", "upgraded", "startup", "closed"}

Backed == {"auth", "password", "login", "forward", "greet", "replay", "ready"}

Admitted == {"login", "forward", "greet", "replay", "ready"}

AtConsole == {"admin", "admin password", "admin greet", "console"}

Stages == Early \cup {"acquire", "waiting"} \cup Backed \cup AtConsole

Opening == {"nothing", "N", "S"}

Messages == {"N", "S", "cleartext", "md5", "ok", "params", "ready", "error", "closed"}

Heards == Seq(Messages)

(* A startup response, from AuthenticationOk to ReadyForQuery.             *)
Whole == <<"params", "ready">>

Captures == {<<>>, <<"params">>, Whole, <<"error">>}

(* What is left of a login after its AuthenticationOk.                     *)
Afters == {<<"params", "ready">>, <<"error">>}

Streams ==
    {<<>>, <<"cleartext">>, <<"md5">>, <<"sasl">>, <<"gss">>, <<"continue">>, <<"error">>,
     <<"ready">>, <<"params", "ready">>, <<"ok", "params", "ready">>, <<"ok", "error">>,
     <<"final", "ok", "params", "ready">>, <<"final", "ok", "error">>}

Transports == {"plain", "tls", "verified", "unix"}

Askers == Users \cup {Absent}

Names == AskedNames \cup {Absent}

Givens == Passwords \cup {Absent}

MaybeLists == UserLists \cup {Absent}

Pools == Databases \cup {Star, Absent}

Backends == {"none", "direct", "fresh", "warm"}

Links == {"none", "plain", "tls"}

Servers ==
    {"none", "startup", "password", "sasl initial", "sasl response", "waiting", "up", "gone"}

Task ==
    [stage : Stages, heard : Heards, transport : Transports, user : Askers, db : Names,
     given : Givens, list : MaybeLists, pool : Pools, backend : Backends, link : Links,
     server : Servers, stream : Streams, cut : BOOLEAN, blind : BOOLEAN, capture : Captures]

(* What the client of t has heard last.                                    *)
Told(t) == G!Latest(t.heard)

(* The pool a process with the settings s routes db to.                    *)
Routed(s, db) ==
    IF s.connection_pooling = "disabled" THEN Absent
    ELSE IF db \in Databases THEN db ELSE Star

(* What the client has heard at each stage.                                *)
HeardFits(t) ==
    /\ t.stage \in {"new", "first"} => Told(t) = "nothing"
    /\ t.stage = "declined" => Told(t) = "N"
    /\ t.stage \in {"accept", "upgraded"} => Told(t) = "S"
    /\ t.stage \in {"startup", "acquire", "waiting", "auth", "admin"} => Told(t) \in Opening
    /\ t.stage = "password" => Told(t) = "md5"
    /\ t.stage = "login" => Told(t) \in IF t.backend = "direct" THEN Opening \cup {"md5"}
                                        ELSE {"ok"}
    /\ t.stage = "forward" => Told(t) \in IF t.backend = "direct"
                                          THEN {"ok", "params", "ready", "error"} ELSE {"ok"}
    /\ t.stage \in {"greet", "replay", "admin greet"} => Told(t) = "ok"
    /\ t.stage = "admin password" => Told(t) = "cleartext"
    /\ t.stage \in {"ready", "console"} => Told(t) = "ready"
    /\ t.stage = "closed" => Told(t) \in {"error", "closed"}

(* What the server still has to say, where the client hears it as it       *)
(* comes, follows what the client has heard.                               *)
StreamFits(t) ==
    t.stage = "forward" =>
      /\ t.stream \in Afters \cup {<<"ready">>, <<>>}
      /\ t.backend = "direct" =>
           /\ Told(t) = "ok" => t.stream \in Afters
           /\ Told(t) = "params" => t.stream = <<"ready">>
           /\ Told(t) \in {"ready", "error"} => t.stream = <<>>

(* What has been captured of a fresh backend, and what a warm one keeps.   *)
CaptureFits(t) ==
    /\ t.backend = "warm" \/ t.stage \in {"greet", "replay"} => t.capture = Whole
    /\ t.backend = "fresh" /\ t.stage \in {"auth", "password", "login"} => t.capture = <<>>
    /\ t.backend = "fresh" /\ t.stage = "forward" =>
         \/ t.capture = <<>> /\ t.stream \in Afters
         \/ t.capture = <<"params">> /\ t.stream = <<"ready">>
         \/ t.stream = <<>>

(* Which pool and which backend a task has.                                *)
ServedFits(s, t) ==
    /\ t.stage \in Early \cup AtConsole => t.pool = Absent
    /\ t.stage \notin Early \cup AtConsole => t.pool = Routed(s, t.db)
    /\ t.stage = "waiting" => t.pool # Absent
    /\ t.stage \in Backed <=> t.backend # "none"
    /\ t.stage \in Backed => (t.pool = Absent <=> t.backend = "direct")
    /\ t.stage \in {"login", "forward"} => t.backend \in {"direct", "fresh"}
    /\ t.stage = "greet" => t.backend = "fresh"
    /\ t.stage \in Backed /\ t.pool # Absent /\ RequiresEncryption(s.server_tls_sslmode) =>
         t.link = "tls"
    /\ t.stage \in AtConsole => t.db = AdminDatabase
    /\ t.stage \notin Early \cup AtConsole => t.db # AdminDatabase

(* The right to be let in.                                                 *)
Allowed(s, t) ==
    CASE s.auth_type = "trust" -> TRUE
      [] s.auth_type = "cert" -> t.transport = "verified"
      [] s.auth_type = "md5" ->
           /\ t.list # Absent /\ HasUser(t.list, t.user)
           /\ t.list[t.user] = [kind |-> "Plain", of |-> t.given]
      [] OTHER -> FALSE

(* By what right a task of the settings s is where it is.                  *)
RightFits(s, t) ==
    /\ t.stage \notin {"new", "closed"} /\ s.auth_file # "unset" => t.list # Absent
    /\ t.stage \notin {"new", "first", "accept", "closed"}
         /\ RequiresEncryption(s.client_tls_sslmode) => t.transport # "plain"
    /\ t.stage = "accept" => s.client_tls_sslmode # "disable"
    /\ t.stage = "password" =>
         s.auth_type = "md5" /\ t.list # Absent /\ HasUser(t.list, t.user)
    /\ t.stage \in Admitted => Allowed(s, t)
    /\ t.stage \in AtConsole \ {"admin"} => s.admin_enabled
    /\ t.stage \in {"admin greet", "console"} => t.given = s.admin_password

Good(s, t) ==
    /\ t \in Task
    /\ HeardFits(t) /\ StreamFits(t) /\ CaptureFits(t)
    /\ ServedFits(s, t) /\ RightFits(s, t)

(* The settings are ones the process starts with.                          *)
Accepted(s) ==
    /\ DOMAIN s = DOMAIN Defaults
    /\ Deserializes(s) /\ Validate(s) /\ LoadClientTlsSucceeds(s)

(* The registry has an entry for the tasks that are past their routing,    *)
(* and it says of them what is so.                                         *)
EntriesFit ==
    /\ DOMAIN entries = {c \in Conns : conn[c].stage \notin Early}
    /\ \A c \in DOMAIN entries :
         /\ entries[c].admin <=> conn[c].stage \in AtConsole
         /\ entries[c].database = conn[c].db
         /\ entries[c].tls <=> IsEncrypted(c)

Commands == {"none", "PAUSE", "RESUME", "RELOAD"}

Jobs ==
    [cmd : Commands, left : SUBSET PoolKeys, read : MaybeLists, holds : SUBSET Holdable]

TypeOK ==
    /\ conn \in [Conns -> Task]
    /\ accepting \in [PoolKeys -> BOOLEAN]
    /\ warm \in [PoolKeys -> Seq({Whole})]
    /\ authenticator \in MaybeLists
    /\ userlist \in MaybeLists \cup {Malformed}
    /\ job \in [Reloaders -> Jobs]

TasksFit == \A c \in Conns : Good(settings, conn[c])

(* Where an auth_file is configured there is a userlist, and a reload has  *)
(* one to store.                                                           *)
ListsFit ==
    settings.auth_file # "unset" =>
      /\ authenticator # Absent /\ userlist \in UserLists \cup {Malformed}
      /\ \A p \in Reloaders : job[p].cmd = "RELOAD" => job[p].read # Absent

(* A command under way is a console's or SIGHUP's.                         *)
JobsFit ==
    /\ \A c \in Conns : job[c].cmd # "none" => conn[c].stage = "console"
    /\ \A p \in Reloaders : job[p].cmd = "none" => job[p] = NoJob
    /\ \A p \in Reloaders : job[p].cmd = "RELOAD" => job[p].left = {} /\ job[p].holds = {}

(* What is paused does not accept; nor does what a PAUSE under way has     *)
(* visited, as long as no RESUME has been asked for.                       *)
PausesFit ==
    /\ \A n \in paused : PoolOf(n) \in PoolKeys /\ ~accepting[PoolOf(n)]
    /\ \A p \in Reloaders : \A n \in job[p].holds :
         job[p].cmd = "PAUSE" /\ (PoolOf(n) \notin job[p].left => ~accepting[PoolOf(n)])
    /\ ~NoneResuming => paused = {} /\ \A p \in Reloaders : job[p].holds = {}

Inv ==
    /\ Accepted(settings) /\ TypeOK /\ TasksFit /\ EntriesFit
    /\ ListsFit /\ JobsFit /\ PausesFit

(* What may be heard next: Greeting's rule, or nothing new.                *)
Follow(t, u) ==
    \/ u.heard = t.heard
    \/ \E more \in G!Continues(Told(t)) : u.heard = t.heard \o more
    \/ \E how \in G!Follows(Told(t)) \cap {"error", "closed"} : u.heard = <<how>>

(* A task goes on without being routed, ended, lent a backend of a pool or *)
(* being at the prompt of a console.                                       *)
Keeps(t, u) ==
    /\ u.pool = t.pool
    /\ t.pool # Absent => (u.backend = "none" <=> t.backend = "none")
    /\ u.stage \in Early <=> t.stage \in Early
    /\ t.stage # "console"
    /\ t.stage \notin Early =>
         /\ u.db = t.db /\ u.transport = t.transport
         /\ u.stage \in AtConsole <=> t.stage \in AtConsole

Moves(s, t, u) == Good(s, u) /\ Follow(t, u) /\ Keeps(t, u)

-----------------------------------------------------------------------------
(* A task stays one when a field of it takes another of its values.        *)
LEMMA TaskFields ==
  ASSUME NEW t \in Task
  PROVE  /\ \A v \in Stages : [t EXCEPT !.stage = v] \in Task
         /\ \A v \in Heards : [t EXCEPT !.heard = v] \in Task
         /\ \A v \in Transports : [t EXCEPT !.transport = v] \in Task
         /\ \A v \in Askers : [t EXCEPT !.user = v] \in Task
         /\ \A v \in Names : [t EXCEPT !.db = v] \in Task
         /\ \A v \in Givens : [t EXCEPT !.given = v] \in Task
         /\ \A v \in MaybeLists : [t EXCEPT !.list = v] \in Task
         /\ \A v \in Pools : [t EXCEPT !.pool = v] \in Task
         /\ \A v \in Backends : [t EXCEPT !.backend = v] \in Task
         /\ \A v \in Links : [t EXCEPT !.link = v] \in Task
         /\ \A v \in Servers : [t EXCEPT !.server = v] \in Task
         /\ \A v \in Streams : [t EXCEPT !.stream = v] \in Task
         /\ \A v \in BOOLEAN : [t EXCEPT !.cut = v] \in Task
         /\ \A v \in BOOLEAN : [t EXCEPT !.blind = v] \in Task
         /\ \A v \in Captures : [t EXCEPT !.capture = v] \in Task
<1>1. \A v \in Stages : [t EXCEPT !.stage = v] \in Task
  BY SMT DEF Task
<1>2. \A v \in Heards : [t EXCEPT !.heard = v] \in Task
  BY SMT DEF Task
<1>3. \A v \in Transports : [t EXCEPT !.transport = v] \in Task
  BY SMT DEF Task
<1>4. \A v \in Askers : [t EXCEPT !.user = v] \in Task
  BY SMT DEF Task
<1>5. \A v \in Names : [t EXCEPT !.db = v] \in Task
  BY SMT DEF Task
<1>6. \A v \in Givens : [t EXCEPT !.given = v] \in Task
  BY SMT DEF Task
<1>7. \A v \in MaybeLists : [t EXCEPT !.list = v] \in Task
  BY SMT DEF Task
<1>8. \A v \in Pools : [t EXCEPT !.pool = v] \in Task
  BY SMT DEF Task
<1>9. \A v \in Backends : [t EXCEPT !.backend = v] \in Task
  BY SMT DEF Task
<1>10. \A v \in Links : [t EXCEPT !.link = v] \in Task
  BY SMT DEF Task
<1>11. \A v \in Servers : [t EXCEPT !.server = v] \in Task
  BY SMT DEF Task
<1>12. \A v \in Streams : [t EXCEPT !.stream = v] \in Task
  BY SMT DEF Task
<1>13. \A v \in BOOLEAN : [t EXCEPT !.cut = v] \in Task
  BY SMT DEF Task
<1>14. \A v \in BOOLEAN : [t EXCEPT !.blind = v] \in Task
  BY SMT DEF Task
<1>15. \A v \in Captures : [t EXCEPT !.capture = v] \in Task
  BY SMT DEF Task
<1> QED
  BY <1>1, <1>2, <1>3, <1>4, <1>5, <1>6, <1>7, <1>8, <1>9, <1>10, <1>11, <1>12, <1>13, <1>14,
     <1>15, Zenon

(* What is heard last is one of the messages, if any has been heard.       *)
LEMMA LatestMessage ==
  ASSUME NEW h \in Heards
  PROVE  G!Latest(h) \in Messages \cup {"nothing"}
BY SMT DEF Heards, G!Latest

(* At first nothing is.                                                    *)
LEMMA EmptyHeard ==
  <<>> \in Heards /\ G!Latest(<<>>) = "nothing"
<1>1. <<>> \in Heards
  BY SMT DEF Heards
<1> QED
  BY <1>1, Zenon DEF G!Latest

(* A message more.                                                         *)
LEMMA SaysOne ==
  ASSUME NEW h \in Heards, NEW m \in Messages
  PROVE  /\ h \o <<m>> \in Heards /\ <<m>> \in Heards
         /\ G!Latest(h \o <<m>>) = m /\ G!Latest(<<m>>) = m
<1>1. h \o <<m>> \in Heards /\ <<m>> \in Heards
  BY SMT DEF Heards
<1>2. Len(h \o <<m>>) = Len(h) + 1 /\ (h \o <<m>>)[Len(h) + 1] = m /\ Len(h) \in Nat
  BY SMT DEF Heards
<1>3. h \o <<m>> # <<>> /\ <<m>> # <<>>
  BY <1>2, SMT
<1>4. Len(<<m>>) = 1 /\ <<m>>[1] = m
  OBVIOUS
<1> QED
  BY <1>1, <1>2, <1>3, <1>4, Zenon DEF G!Latest

(* Two more.                                                               *)
LEMMA SaysTwo ==
  ASSUME NEW h \in Heards, NEW m \in Messages, NEW n \in Messages
  PROVE  h \o <<m, n>> \in Heards /\ G!Latest(h \o <<m, n>>) = n
<1>1. h \o <<m, n>> \in Heards
  BY SMT DEF Heards
<1>2. /\ Len(h \o <<m, n>>) = Len(h) + 2 /\ (h \o <<m, n>>)[Len(h) + 2] = n
      /\ Len(h) \in Nat
  BY SMT DEF Heards
<1>3. h \o <<m, n>> # <<>>
  BY <1>2, SMT
<1> QED
  BY <1>1, <1>2, <1>3, Zenon DEF G!Latest

(* None.                                                                   *)
LEMMA SaysNone ==
  ASSUME NEW h \in Heards
  PROVE  h \o <<>> = h
BY SMT DEF Heards

(* The client of t hears m next, or m and then n.                          *)
LEMMA FollowsOne ==
  ASSUME NEW t, NEW u, NEW m \in G!Follows(Told(t)), u.heard = t.heard \o <<m>>
  PROVE  Follow(t, u)
<1>1. <<m>> \in G!Continues(Told(t))
  BY Zenon DEF G!Continues
<1> QED
  BY <1>1, Zenon DEF Follow

(* In one write.                                                           *)
LEMMA FollowsTwo ==
  ASSUME NEW t, NEW u, NEW m \in G!Follows(Told(t)), NEW n \in G!Follows(m),
         u.heard = t.heard \o <<m, n>>
  PROVE  Follow(t, u)
<1>1. <<m, n>> \in {<<m, k>> : k \in G!Follows(m)}
  BY Zenon
<1>2. <<m, n>> \in UNION {{<<l, k>> : k \in G!Follows(l)} : l \in G!Follows(Told(t))}
  BY <1>1, Zenon
<1>3. <<m, n>> \in G!Continues(Told(t))
  BY <1>2, Zenon DEF G!Continues
<1> QED
  BY <1>3, Zenon DEF Follow

(* The login of a server, read from its head: after AuthenticationOk comes *)
(* what ends it, after any other request more of the same.                 *)
LEMMA StreamTail ==
  ASSUME NEW m \in Streams, m # <<>>, Head(m) \in AuthRequests
  PROVE  Tail(m) \in Streams /\ (Head(m) = "ok" => Tail(m) \in Afters)
<1>1. /\ Tail(<<"cleartext">>) = <<>> /\ Tail(<<"md5">>) = <<>> /\ Tail(<<"sasl">>) = <<>>
      /\ Tail(<<"continue">>) = <<>>
      /\ Head(<<"cleartext">>) = "cleartext" /\ Head(<<"md5">>) = "md5"
      /\ Head(<<"sasl">>) = "sasl" /\ Head(<<"continue">>) = "continue"
  OBVIOUS
<1>2. /\ Head(<<"gss">>) = "gss" /\ Head(<<"error">>) = "error" /\ Head(<<"ready">>) = "ready"
      /\ Head(<<"params", "ready">>) = "params"
  OBVIOUS
<1>3. /\ Tail(<<"ok", "params", "ready">>) = <<"params", "ready">>
      /\ Tail(<<"ok", "error">>) = <<"error">>
  OBVIOUS
<1>4. /\ Tail(<<"final", "ok", "params", "ready">>) = <<"ok", "params", "ready">>
      /\ Tail(<<"final", "ok", "error">>) = <<"ok", "error">>
      /\ Head(<<"final", "ok", "params", "ready">>) = "final"
      /\ Head(<<"final", "ok", "error">>) = "final"
  OBVIOUS
<1> QED
  BY <1>1, <1>2, <1>3, <1>4, Zenon DEF Streams, Afters, AuthRequests

(* The ends of a login are told apart.                                     *)
LEMMA Apart ==
  /\ <<"params", "ready">> # <<"ready">> /\ <<"params", "ready">> # <<>>
  /\ <<"params", "ready">> # <<"error">> /\ <<"ready">> # <<"error">>
  /\ <<"ready">> # <<>> /\ <<"error">> # <<>>
OBVIOUS

(* More is read of the stream of t, after which m is left and its stage    *)
(* is x, which is y only when the startup response is all there.           *)
Takes(t, m, more, x, y) ==
    \/ m = t.stream /\ more = <<>> /\ x = "forward"
    \/ t.stream = <<"params", "ready">> /\ m = <<"ready">> /\ more = <<"params">> /\ x = "forward"
    \/ t.stream = <<"params", "ready">> /\ m = <<>> /\ more = Whole /\ x \in {"forward", y}
    \/ t.stream = <<"ready">> /\ m = <<>> /\ more = <<"ready">> /\ x \in {"forward", y}
    \/ t.stream = <<"error">> /\ m = <<>> /\ more = <<"error">> /\ x = "forward"

(* Parts of a sequence: all of it, what is past its ends, one of two.      *)
LEMMA Parts ==
  ASSUME NEW S, NEW m \in Seq(S)
  PROVE  /\ SubSeq(m, 1, Len(m)) = m
         /\ SubSeq(m, Len(m) + 1, Len(m)) = <<>>
         /\ SubSeq(m, 1, 0) = <<>>
         /\ Len(m) = 2 => SubSeq(m, 1, 1) = <<m[1]>> /\ SubSeq(m, 2, 2) = <<m[2]>>
<1>1. SubSeq(m, 1, Len(m)) = m
  OBVIOUS
<1>2. SubSeq(m, Len(m) + 1, Len(m)) = <<>>
  OBVIOUS
<1>3. ASSUME Len(m) = 2 PROVE SubSeq(m, 2, 2) = <<m[2]>>
  <2>1. /\ <<m[2]>> \in Seq(S) /\ Len(<<m[2]>>) = 1 /\ <<m[2]>>[1] = m[2]
    BY <1>3
  <2>2. \A r \in Seq(S) : Len(r) = 1 /\ r[1] = m[2] => SubSeq(m, 2, 2) = r
    BY <1>3
  <2> QED
    BY <2>1, <2>2, Zenon
<1>4. ASSUME Len(m) = 2 PROVE SubSeq(m, 1, 1) = <<m[1]>>
  <2>1. /\ <<m[1]>> \in Seq(S) /\ Len(<<m[1]>>) = 1 /\ <<m[1]>>[1] = m[1]
    BY <1>4
  <2>2. \A r \in Seq(S) : Len(r) = 1 /\ r[1] = m[1] => SubSeq(m, 1, 1) = r
    BY <1>4
  <2> QED
    BY <2>1, <2>2, Zenon
<1>5. SubSeq(m, 1, 0) = <<>>
  OBVIOUS
<1> QED
  BY <1>1, <1>2, <1>3, <1>4, <1>5, Zenon

(* One or two elements make a sequence.                                    *)
LEMMA Tuples == \A S : \A x, y \in S : <<x>> \in Seq(S) /\ <<x, y>> \in Seq(S)
OBVIOUS

(* One element and another make two.                                       *)
LEMMA Joins ==
  ASSUME NEW S, NEW p \in Seq(S), NEW q \in Seq(S), NEW r \in Seq(S)
  PROVE  Len(p) = 1 /\ Len(q) = 1 /\ Len(r) = 2 /\ r[1] = p[1] /\ r[2] = q[1] => p \o q = r
<1>1. /\ p \o q \in Seq(S) /\ Len(p \o q) = Len(p) + Len(q)
      /\ \A i \in 1..Len(p) : (p \o q)[i] = p[i]
      /\ \A i \in 1..Len(q) : (p \o q)[Len(p) + i] = q[i]
  <2>1. p \o q \in Seq(S) /\ Len(p \o q) = Len(p) + Len(q)
    BY SMT
  <2>2. \A i \in 1..Len(p) : (p \o q)[i] = p[i]
    BY SMT
  <2>3. \A i \in 1..Len(q) : (p \o q)[Len(p) + i] = q[i]
    BY SMT
  <2> QED
    BY <2>1, <2>2, <2>3, Zenon
<1>2. 1 \in 1..1 /\ 1 + 1 = 2 /\ \A i \in 1..2 : i = 1 \/ i = 2
  OBVIOUS
<1>3. \A a \in Seq(S) : Len(a) = 2 => a = [i \in 1..2 |-> a[i]]
  BY SMT
<1>4. SUFFICES ASSUME Len(p) = 1, Len(q) = 1, Len(r) = 2, r[1] = p[1], r[2] = q[1]
               PROVE  p \o q = r
  BY Zenon
<1>5. Len(p \o q) = 2 /\ (p \o q)[1] = p[1] /\ (p \o q)[2] = q[1]
  BY <1>1, <1>2, <1>4, Zenon
<1>6. [i \in 1..2 |-> (p \o q)[i]] = [i \in 1..2 |-> r[i]]
  BY <1>2, <1>4, <1>5, Zenon
<1> QED
  BY <1>1, <1>3, <1>4, <1>5, <1>6, Zenon

(* What is captured is put together.                                       *)
LEMMA CaptureJoins ==
  /\ \A v \in Captures : v \o <<>> = v
  /\ <<>> \o <<"params">> = <<"params">> /\ <<>> \o Whole = Whole
  /\ <<"params">> \o <<"ready">> = Whole /\ <<>> \o <<"error">> = <<"error">>
<1> DEFINE Sent == {"params", "ready", "error"}
<1>1. \A v \in Seq(Sent) : v \o <<>> = v /\ <<>> \o v = v
  BY SMT
<1>2. <<>> \in Seq(Sent)
  BY SMT
<1>3. /\ <<"params">> \in Seq(Sent) /\ <<"ready">> \in Seq(Sent)
      /\ <<"error">> \in Seq(Sent) /\ <<"params", "ready">> \in Seq(Sent)
  BY Tuples, Zenon
<1>4. Captures \subseteq Seq(Sent)
  BY <1>2, <1>3, Zenon DEF Captures, Whole
<1>l. /\ Len(<<"params">>) = 1 /\ Len(<<"ready">>) = 1 /\ Len(<<"params", "ready">>) = 2
      /\ <<"params", "ready">>[1] = <<"params">>[1] /\ <<"params", "ready">>[2] = <<"ready">>[1]
  OBVIOUS
<1>6. <<"params">> \o <<"ready">> = Whole
  BY <1>3, <1>l, Joins, Zenon DEF Whole
<1> QED
  BY <1>1, <1>3, <1>4, <1>6, Zenon DEF Whole

(* What is left of a login after n more messages, and what they were.      *)
LEMMA StreamRest ==
  ASSUME NEW m \in Afters \cup {<<"ready">>, <<>>}, NEW n \in 0..Len(m)
  PROVE  LET r == SubSeq(m, n + 1, Len(m))
             h == SubSeq(m, 1, n)
         IN
         \/ n = 0 /\ r = m /\ h = <<>>
         \/ /\ m = <<"params", "ready">> /\ r = <<"ready">> /\ h = <<"params">>
            /\ \A i \in 1..n : m[i] # "ready"
         \/ r = <<>> /\ h = m /\ m \in {<<"params", "ready">>, <<"ready">>}
         \/ r = <<>> /\ h = m /\ m = <<"error">> /\ \A i \in 1..n : m[i] # "ready"
<1>1. CASE m = <<>>
  <2>1. Len(m) = 0 /\ SubSeq(m, 1, 0) = <<>>
    BY <1>1
  <2> QED
    BY <1>1, <2>1
<1>2. CASE m = <<"ready">>
  <2>a. Len(<<"ready">>) = 1 /\ <<"ready">>[1] = "ready"
    OBVIOUS
  <2>b. <<"ready">> \in Seq({"params", "ready", "error"})
    BY Tuples, Zenon
  <2>1. Len(m) = 1 /\ m[1] = "ready" /\ m \in Seq({"params", "ready", "error"})
    BY <1>2, <2>a, <2>b, Zenon
  <2>2. SubSeq(m, 1, 1) = m /\ SubSeq(m, 2, 1) = <<>> /\ SubSeq(m, 1, 0) = <<>>
    BY <2>1, Parts
  <2>3. n = 0 \/ n = 1
    BY <2>1
  <2>4. CASE n = 0
    BY <2>1, <2>2, <2>4
  <2>5. CASE n = 1
    BY <1>2, <2>1, <2>2, <2>5
  <2> QED
    BY <2>3, <2>4, <2>5, Zenon
<1>3. CASE m = <<"error">>
  <2>a. Len(<<"error">>) = 1 /\ <<"error">>[1] = "error"
    OBVIOUS
  <2>b. <<"error">> \in Seq({"params", "ready", "error"})
    BY Tuples, Zenon
  <2>1. Len(m) = 1 /\ m[1] = "error" /\ m \in Seq({"params", "ready", "error"})
    BY <1>3, <2>a, <2>b, Zenon
  <2>2. SubSeq(m, 1, 1) = m /\ SubSeq(m, 2, 1) = <<>> /\ SubSeq(m, 1, 0) = <<>>
    BY <2>1, Parts
  <2>3. n = 0 \/ n = 1
    BY <2>1
  <2>4. CASE n = 0
    BY <2>1, <2>2, <2>4
  <2>5. CASE n = 1
    BY <1>3, <2>1, <2>2, <2>5
  <2> QED
    BY <2>3, <2>4, <2>5, Zenon
<1>4. CASE m = <<"params", "ready">>
  <2>a. Len(<<"params", "ready">>) = 2 /\ <<"params", "ready">>[1] = "params" /\ <<"params", "ready">>[2] = "ready"
    OBVIOUS
  <2>b. <<"params", "ready">> \in Seq({"params", "ready", "error"})
    BY Tuples, Zenon
  <2>1. Len(m) = 2 /\ m[1] = "params" /\ m[2] = "ready" /\ m \in Seq({"params", "ready", "error"})
    BY <1>4, <2>a, <2>b, Zenon
  <2>2. /\ SubSeq(m, 1, 2) = m /\ SubSeq(m, 2, 2) = <<"ready">> /\ SubSeq(m, 3, 2) = <<>>
        /\ SubSeq(m, 1, 0) = <<>> /\ SubSeq(m, 1, 1) = <<"params">>
    BY <2>1, Parts
  <2>3. n = 0 \/ n = 1 \/ n = 2
    BY <2>1
  <2>4. CASE n = 0
    BY <2>1, <2>2, <2>4
  <2>5. CASE n = 1
    BY <1>4, <2>1, <2>2, <2>5
  <2>6. CASE n = 2
    BY <1>4, <2>1, <2>2, <2>6
  <2> QED
    BY <2>3, <2>4, <2>5, <2>6, Zenon
<1> QED
  BY <1>1, <1>2, <1>3, <1>4, Zenon DEF Afters

(* SpawnTcp.                                                               *)
LEMMA SpawnTcpMoves ==
  ASSUME NEW s, NEW t, Good(s, t),
         t.stage = "new", NEW l \in MaybeLists, s.auth_file # "unset" => l # Absent
  PROVE  Moves(s, t, [t EXCEPT !.stage = "first", !.list = l])
<1> DEFINE u == [t EXCEPT !.stage = "first", !.list = l]
<1>t. t \in Task
  BY Zenon DEF Good
<1>1. "first" \in Stages
  BY Zenon DEF Stages, Early, Backed, AtConsole
<1>u. u \in Task
  BY <1>t, <1>1, TaskFields, Zenon
<1>2. /\ u.stage = "first" /\ u.list = l
      /\ u.heard = t.heard /\ u.transport = t.transport /\ u.user = t.user
      /\ u.db = t.db /\ u.given = t.given /\ u.pool = t.pool
      /\ u.backend = t.backend /\ u.link = t.link /\ u.stream = t.stream /\ u.capture = t.capture
  BY <1>t, Zenon DEF Task
<1> HIDE DEF u
<1>3. HeardFits(u) /\ Follow(t, u)
  BY <1>2, Zenon DEF Good, HeardFits, Follow, Told
<1>4. StreamFits(u)
  BY <1>2, Zenon DEF StreamFits
<1>5. ServedFits(s, u) /\ Keeps(t, u)
  BY <1>2, Zenon DEF Good, ServedFits, Early, Backed, AtConsole, Keeps
<1>6. RightFits(s, u)
  BY <1>2, Zenon DEF Good, RightFits, Admitted, Allowed, AtConsole
<1>7. CaptureFits(u)
  BY <1>2, Zenon DEF Good, CaptureFits
<1> QED
  BY <1>u, <1>3, <1>4, <1>5, <1>6, <1>7, Zenon DEF Moves, Good, u

(* SpawnUnix.                                                              *)
LEMMA SpawnUnixMoves ==
  ASSUME NEW s, NEW t, Good(s, t),
         t.stage = "new", NEW l \in MaybeLists, s.auth_file # "unset" => l # Absent
  PROVE  Moves(s, t, [t EXCEPT !.stage = "startup", !.transport = "unix", !.list = l])
<1> DEFINE u == [t EXCEPT !.stage = "startup", !.transport = "unix", !.list = l]
<1>t. t \in Task
  BY Zenon DEF Good
<1>1. "startup" \in Stages /\ "unix" \in Transports
  BY Zenon DEF Stages, Early, Backed, AtConsole, Transports
<1>u. u \in Task
  BY <1>t, <1>1, TaskFields, Zenon
<1>2. /\ u.stage = "startup" /\ u.transport = "unix" /\ u.list = l
      /\ u.heard = t.heard /\ u.user = t.user /\ u.db = t.db
      /\ u.given = t.given /\ u.pool = t.pool /\ u.backend = t.backend
      /\ u.link = t.link /\ u.stream = t.stream /\ u.capture = t.capture
  BY <1>t, Zenon DEF Task
<1> HIDE DEF u
<1>3. HeardFits(u) /\ Follow(t, u)
  BY <1>2, Zenon DEF Good, HeardFits, Follow, Told, Opening
<1>4. StreamFits(u)
  BY <1>2, Zenon DEF StreamFits
<1>5. ServedFits(s, u) /\ Keeps(t, u)
  BY <1>2, Zenon DEF Good, ServedFits, Early, Backed, AtConsole, Keeps
<1>6. RightFits(s, u)
  BY <1>2, Zenon DEF Good, RightFits, Admitted, Allowed, AtConsole
<1>7. CaptureFits(u)
  BY <1>2, Zenon DEF Good, CaptureFits
<1> QED
  BY <1>u, <1>3, <1>4, <1>5, <1>6, <1>7, Zenon DEF Moves, Good, u

(* Reads, wherever it is taken.                                            *)
LEMMA ReadsMoves ==
  ASSUME NEW s, NEW t, Good(s, t),
         t.stage \in {"first", "declined", "upgraded"},
         t.stage = "first" => ~RequiresEncryption(s.client_tls_sslmode),
         NEW who \in Askers, NEW db \in Names
  PROVE  Moves(s, t, [t EXCEPT !.stage = "startup", !.user = who, !.db = db])
<1> DEFINE u == [t EXCEPT !.stage = "startup", !.user = who, !.db = db]
<1>t. t \in Task
  BY Zenon DEF Good
<1>1. "startup" \in Stages
  BY Zenon DEF Stages, Early, Backed, AtConsole
<1>u. u \in Task
  BY <1>t, <1>1, TaskFields, Zenon
<1>2. /\ u.stage = "startup" /\ u.user = who /\ u.db = db
      /\ u.heard = t.heard /\ u.transport = t.transport /\ u.given = t.given
      /\ u.list = t.list /\ u.pool = t.pool /\ u.backend = t.backend
      /\ u.link = t.link /\ u.stream = t.stream /\ u.capture = t.capture
  BY <1>t, Zenon DEF Task
<1> HIDE DEF u
<1>3. HeardFits(u) /\ Follow(t, u)
  BY <1>2, Zenon DEF Good, HeardFits, Follow, Told, Opening
<1>4. StreamFits(u)
  BY <1>2, Zenon DEF StreamFits
<1>5. ServedFits(s, u) /\ Keeps(t, u)
  BY <1>2, Zenon DEF Good, ServedFits, Early, Backed, AtConsole, Keeps
<1>6. RightFits(s, u)
  BY <1>2, Zenon DEF Good, RightFits, Admitted, Allowed, AtConsole
<1>7. CaptureFits(u)
  BY <1>2, Zenon DEF Good, CaptureFits
<1> QED
  BY <1>u, <1>3, <1>4, <1>5, <1>6, <1>7, Zenon DEF Moves, Good, u

(* SslRequest, answered with N.                                            *)
LEMMA DeclinedMoves ==
  ASSUME NEW s, NEW t, Good(s, t),
         t.stage = "first", s.client_tls_sslmode = "disable"
  PROVE  Moves(s, t, [t EXCEPT !.stage = "declined", !.heard = @ \o <<"N">>])
<1> DEFINE u == [t EXCEPT !.stage = "declined", !.heard = @ \o <<"N">>]
<1>t. t \in Task
  BY Zenon DEF Good
<1>1. "declined" \in Stages /\ "N" \in Messages
  BY Zenon DEF Stages, Early, Backed, AtConsole, Messages
<1>h. t.heard \o <<"N">> \in Heards /\ G!Latest(t.heard \o <<"N">>) = "N"
  BY <1>t, <1>1, SaysOne, Zenon DEF Task
<1>u. u \in Task
  BY <1>t, <1>1, <1>h, TaskFields, Zenon
<1>2. /\ u.stage = "declined" /\ u.heard = t.heard \o <<"N">>
      /\ u.transport = t.transport /\ u.user = t.user /\ u.db = t.db
      /\ u.given = t.given /\ u.list = t.list /\ u.pool = t.pool
      /\ u.backend = t.backend /\ u.link = t.link /\ u.stream = t.stream /\ u.capture = t.capture
  BY <1>t, Zenon DEF Task
<1> HIDE DEF u
<1>3. HeardFits(u) /\ Follow(t, u)
  <2>1. Told(u) = "N"
    BY <1>2, <1>h, Zenon DEF Told
  <2>2. "N" \in G!Follows(Told(t))
    BY Zenon DEF Good, HeardFits, Opening, G!Follows, G!Challenges
  <2>3. Follow(t, u)
    BY <1>2, <2>2, FollowsOne, Zenon
  <2> QED
    BY <1>2, <2>1, <2>3, Zenon DEF HeardFits
<1>4. StreamFits(u)
  BY <1>2, Zenon DEF StreamFits
<1>5. ServedFits(s, u) /\ Keeps(t, u)
  BY <1>2, Zenon DEF Good, ServedFits, Early, Backed, AtConsole, Keeps
<1>6. RightFits(s, u)
  BY <1>2, Zenon DEF Good, RightFits, Admitted, Allowed, AtConsole, RequiresEncryption
<1>7. CaptureFits(u)
  BY <1>2, Zenon DEF Good, CaptureFits
<1> QED
  BY <1>u, <1>3, <1>4, <1>5, <1>6, <1>7, Zenon DEF Moves, Good, u

(* SslRequest, answered with S.                                            *)
LEMMA AcceptMoves ==
  ASSUME NEW s, NEW t, Good(s, t),
         t.stage = "first", s.client_tls_sslmode # "disable"
  PROVE  Moves(s, t, [t EXCEPT !.stage = "accept", !.heard = @ \o <<"S">>])
<1> DEFINE u == [t EXCEPT !.stage = "accept", !.heard = @ \o <<"S">>]
<1>t. t \in Task
  BY Zenon DEF Good
<1>1. "accept" \in Stages /\ "S" \in Messages
  BY Zenon DEF Stages, Early, Backed, AtConsole, Messages
<1>h. t.heard \o <<"S">> \in Heards /\ G!Latest(t.heard \o <<"S">>) = "S"
  BY <1>t, <1>1, SaysOne, Zenon DEF Task
<1>u. u \in Task
  BY <1>t, <1>1, <1>h, TaskFields, Zenon
<1>2. /\ u.stage = "accept" /\ u.heard = t.heard \o <<"S">>
      /\ u.transport = t.transport /\ u.user = t.user /\ u.db = t.db
      /\ u.given = t.given /\ u.list = t.list /\ u.pool = t.pool
      /\ u.backend = t.backend /\ u.link = t.link /\ u.stream = t.stream /\ u.capture = t.capture
  BY <1>t, Zenon DEF Task
<1> HIDE DEF u
<1>3. HeardFits(u) /\ Follow(t, u)
  <2>1. Told(u) = "S"
    BY <1>2, <1>h, Zenon DEF Told
  <2>2. "S" \in G!Follows(Told(t))
    BY Zenon DEF Good, HeardFits, Opening, G!Follows, G!Challenges
  <2>3. Follow(t, u)
    BY <1>2, <2>2, FollowsOne, Zenon
  <2> QED
    BY <1>2, <2>1, <2>3, Zenon DEF HeardFits
<1>4. StreamFits(u)
  BY <1>2, Zenon DEF StreamFits
<1>5. ServedFits(s, u) /\ Keeps(t, u)
  BY <1>2, Zenon DEF Good, ServedFits, Early, Backed, AtConsole, Keeps
<1>6. RightFits(s, u)
  BY <1>2, Zenon DEF Good, RightFits, Admitted, Allowed, AtConsole
<1>7. CaptureFits(u)
  BY <1>2, Zenon DEF Good, CaptureFits
<1> QED
  BY <1>u, <1>3, <1>4, <1>5, <1>6, <1>7, Zenon DEF Moves, Good, u

(* TlsAccept.                                                              *)
LEMMA UpgradedMoves ==
  ASSUME NEW s, NEW t, Good(s, t),
         t.stage = "accept", NEW how \in {"tls", "verified"}
  PROVE  Moves(s, t, [t EXCEPT !.stage = "upgraded", !.transport = how])
<1> DEFINE u == [t EXCEPT !.stage = "upgraded", !.transport = how]
<1>t. t \in Task
  BY Zenon DEF Good
<1>1. "upgraded" \in Stages
  BY Zenon DEF Stages, Early, Backed, AtConsole
<1>u. u \in Task
  BY <1>t, <1>1, TaskFields, Zenon DEF Transports
<1>2. /\ u.stage = "upgraded" /\ u.transport = how
      /\ u.heard = t.heard /\ u.user = t.user /\ u.db = t.db
      /\ u.given = t.given /\ u.list = t.list /\ u.pool = t.pool
      /\ u.backend = t.backend /\ u.link = t.link /\ u.stream = t.stream /\ u.capture = t.capture
  BY <1>t, Zenon DEF Task
<1> HIDE DEF u
<1>3. HeardFits(u) /\ Follow(t, u)
  BY <1>2, Zenon DEF Good, HeardFits, Follow, Told
<1>4. StreamFits(u)
  BY <1>2, Zenon DEF StreamFits
<1>5. ServedFits(s, u) /\ Keeps(t, u)
  BY <1>2, Zenon DEF Good, ServedFits, Early, Backed, AtConsole, Keeps
<1>6. RightFits(s, u)
  BY <1>2, Zenon DEF Good, RightFits, Admitted, Allowed, AtConsole
<1>7. CaptureFits(u)
  BY <1>2, Zenon DEF Good, CaptureFits
<1> QED
  BY <1>u, <1>3, <1>4, <1>5, <1>6, <1>7, Zenon DEF Moves, Good, u

(* AcquireStarts.                                                          *)
LEMMA WaitingMoves ==
  ASSUME NEW s, NEW t, Good(s, t),
         t.stage = "acquire", t.pool # Absent
  PROVE  Moves(s, t, [t EXCEPT !.stage = "waiting"])
<1> DEFINE u == [t EXCEPT !.stage = "waiting"]
<1>t. t \in Task
  BY Zenon DEF Good
<1>1. "waiting" \in Stages
  BY Zenon DEF Stages, Early, Backed, AtConsole
<1>u. u \in Task
  BY <1>t, <1>1, TaskFields, Zenon
<1>2. /\ u.stage = "waiting"
      /\ u.heard = t.heard /\ u.transport = t.transport /\ u.user = t.user
      /\ u.db = t.db /\ u.given = t.given /\ u.list = t.list
      /\ u.pool = t.pool /\ u.backend = t.backend /\ u.link = t.link
      /\ u.stream = t.stream /\ u.capture = t.capture
  BY <1>t, Zenon DEF Task
<1> HIDE DEF u
<1>3. HeardFits(u) /\ Follow(t, u)
  BY <1>2, Zenon DEF Good, HeardFits, Follow, Told, Opening
<1>4. StreamFits(u)
  BY <1>2, Zenon DEF StreamFits
<1>5. ServedFits(s, u) /\ Keeps(t, u)
  BY <1>2, Zenon DEF Good, ServedFits, Early, Backed, AtConsole, Keeps
<1>6. RightFits(s, u)
  BY <1>2, Zenon DEF Good, RightFits, Admitted, Allowed, AtConsole
<1>7. CaptureFits(u)
  BY <1>2, Zenon DEF Good, CaptureFits
<1> QED
  BY <1>u, <1>3, <1>4, <1>5, <1>6, <1>7, Zenon DEF Moves, Good, u

(* ConnectDirect.                                                          *)
LEMMA DirectMoves ==
  ASSUME NEW s, NEW t, Good(s, t),
         t.stage = "acquire", t.pool = Absent
  PROVE  Moves(s, t, [t EXCEPT !.stage = "auth", !.backend = "direct", !.link = "plain"])
<1> DEFINE u == [t EXCEPT !.stage = "auth", !.backend = "direct", !.link = "plain"]
<1>t. t \in Task
  BY Zenon DEF Good
<1>1. "auth" \in Stages /\ "direct" \in Backends /\ "plain" \in Links
  BY Zenon DEF Stages, Early, Backed, AtConsole, Backends, Links
<1>u. u \in Task
  BY <1>t, <1>1, TaskFields, Zenon
<1>2. /\ u.stage = "auth" /\ u.backend = "direct" /\ u.link = "plain"
      /\ u.heard = t.heard /\ u.transport = t.transport /\ u.user = t.user
      /\ u.db = t.db /\ u.given = t.given /\ u.list = t.list
      /\ u.pool = t.pool /\ u.stream = t.stream /\ u.capture = t.capture
  BY <1>t, Zenon DEF Task
<1> HIDE DEF u
<1>3. HeardFits(u) /\ Follow(t, u)
  BY <1>2, Zenon DEF Good, HeardFits, Follow, Told, Opening
<1>4. StreamFits(u)
  BY <1>2, Zenon DEF StreamFits
<1>5. ServedFits(s, u) /\ Keeps(t, u)
  BY <1>2, Zenon DEF Good, ServedFits, Early, Backed, AtConsole, Keeps
<1>6. RightFits(s, u)
  BY <1>2, Zenon DEF Good, RightFits, Admitted, Allowed, AtConsole
<1>7. CaptureFits(u)
  BY <1>2, Zenon DEF Good, CaptureFits
<1> QED
  BY <1>u, <1>3, <1>4, <1>5, <1>6, <1>7, Zenon DEF Moves, Good, u

(* AuthenticateMd5.                                                        *)
LEMMA PasswordMoves ==
  ASSUME NEW s, NEW t, Good(s, t),
         t.stage = "auth", s.auth_type = "md5", t.list # Absent, HasUser(t.list, t.user)
  PROVE  Moves(s, t, [t EXCEPT !.stage = "password", !.heard = @ \o <<"md5">>])
<1> DEFINE u == [t EXCEPT !.stage = "password", !.heard = @ \o <<"md5">>]
<1>t. t \in Task
  BY Zenon DEF Good
<1>1. "password" \in Stages /\ "md5" \in Messages
  BY Zenon DEF Stages, Early, Backed, AtConsole, Messages
<1>h. t.heard \o <<"md5">> \in Heards /\ G!Latest(t.heard \o <<"md5">>) = "md5"
  BY <1>t, <1>1, SaysOne, Zenon DEF Task
<1>u. u \in Task
  BY <1>t, <1>1, <1>h, TaskFields, Zenon
<1>2. /\ u.stage = "password" /\ u.heard = t.heard \o <<"md5">>
      /\ u.transport = t.transport /\ u.user = t.user /\ u.db = t.db
      /\ u.given = t.given /\ u.list = t.list /\ u.pool = t.pool
      /\ u.backend = t.backend /\ u.link = t.link /\ u.stream = t.stream /\ u.capture = t.capture
  BY <1>t, Zenon DEF Task
<1> HIDE DEF u
<1>3. HeardFits(u) /\ Follow(t, u)
  <2>1. Told(u) = "md5"
    BY <1>2, <1>h, Zenon DEF Told
  <2>2. "md5" \in G!Follows(Told(t))
    BY Zenon DEF Good, HeardFits, Opening, G!Follows, G!Challenges
  <2>3. Follow(t, u)
    BY <1>2, <2>2, FollowsOne, Zenon
  <2> QED
    BY <1>2, <2>1, <2>3, Zenon DEF HeardFits
<1>4. StreamFits(u)
  BY <1>2, Zenon DEF StreamFits
<1>5. ServedFits(s, u) /\ Keeps(t, u)
  BY <1>2, Zenon DEF Good, ServedFits, Early, Backed, AtConsole, Keeps
<1>6. RightFits(s, u)
  BY <1>2, Zenon DEF Good, RightFits, Admitted, Allowed, AtConsole
<1>7. CaptureFits(u)
  BY <1>2, Zenon DEF Good, CaptureFits
<1> QED
  BY <1>u, <1>3, <1>4, <1>5, <1>6, <1>7, Zenon DEF Moves, Good, u

(* Greet.                                                                  *)
LEMMA GreetMoves ==
  ASSUME NEW s, NEW t, Good(s, t),
         t.stage = "greet"
  PROVE  Moves(s, t, [t EXCEPT !.stage = "ready", !.heard = @ \o t.capture, !.backend = "warm", !.server = "none", !.stream = <<>>, !.cut = FALSE])
<1> DEFINE u == [t EXCEPT !.stage = "ready", !.heard = @ \o t.capture, !.backend = "warm", !.server = "none", !.stream = <<>>, !.cut = FALSE]
<1>t. t \in Task
  BY Zenon DEF Good
<1>1. "ready" \in Stages /\ "warm" \in Backends /\ "none" \in Servers
  BY Zenon DEF Stages, Early, Backed, AtConsole, Heards, Opening, Backends, Servers
<1>c. t.capture = Whole /\ t.heard \in Heards /\ "params" \in Messages /\ "ready" \in Messages
  BY <1>t, Zenon DEF Good, CaptureFits, Task, Messages
<1>h. /\ t.heard \o t.capture \in Heards /\ G!Latest(t.heard \o t.capture) = "ready"
      /\ t.heard \o t.capture = t.heard \o <<"params", "ready">>
  <2>1. /\ t.heard \o <<"params", "ready">> \in Heards
        /\ G!Latest(t.heard \o <<"params", "ready">>) = "ready"
    BY <1>c, SaysTwo, Zenon
  <2> QED
    BY <1>c, <2>1, Zenon DEF Whole
<1>u. u \in Task
  BY <1>t, <1>1, <1>h, TaskFields, Zenon DEF Streams
<1>2. /\ u.stage = "ready" /\ u.heard = t.heard \o t.capture /\ u.backend = "warm" /\ u.stream = <<>>
      /\ u.transport = t.transport /\ u.user = t.user /\ u.db = t.db
      /\ u.given = t.given /\ u.list = t.list /\ u.pool = t.pool
      /\ u.link = t.link /\ u.capture = t.capture
  BY <1>t, Zenon DEF Task
<1> HIDE DEF u
<1>3. HeardFits(u) /\ Follow(t, u)
  <2>1. Told(u) = "ready" /\ Told(t) = "ok"
    BY <1>2, <1>h, Zenon DEF Told, Good, HeardFits
  <2>2. "params" \in G!Follows(Told(t)) /\ "ready" \in G!Follows("params")
    BY <2>1, Zenon DEF G!Follows, G!Challenges
  <2>3. Follow(t, u)
    BY <1>2, <1>h, <2>2, FollowsTwo, Zenon
  <2> QED
    BY <1>2, <2>1, <2>3, Zenon DEF HeardFits
<1>4. StreamFits(u)
  BY <1>2, Zenon DEF StreamFits
<1>5. ServedFits(s, u) /\ Keeps(t, u)
  BY <1>2, Zenon DEF Good, ServedFits, Early, Backed, AtConsole, Keeps
<1>6. RightFits(s, u)
  BY <1>2, Zenon DEF Good, RightFits, Admitted, Allowed, AtConsole
<1>7. CaptureFits(u)
  BY <1>2, Zenon DEF Good, CaptureFits
<1> QED
  BY <1>u, <1>3, <1>4, <1>5, <1>6, <1>7, Zenon DEF Moves, Good, u

(* Replay.                                                                 *)
LEMMA ReplayMoves ==
  ASSUME NEW s, NEW t, Good(s, t),
         t.stage = "replay"
  PROVE  Moves(s, t, [t EXCEPT !.stage = "ready", !.heard = @ \o t.capture])
<1> DEFINE u == [t EXCEPT !.stage = "ready", !.heard = @ \o t.capture]
<1>t. t \in Task
  BY Zenon DEF Good
<1>1. "ready" \in Stages
  BY Zenon DEF Stages, Early, Backed, AtConsole, Heards, Opening
<1>c. t.capture = Whole /\ t.heard \in Heards /\ "params" \in Messages /\ "ready" \in Messages
  BY <1>t, Zenon DEF Good, CaptureFits, Task, Messages
<1>h. /\ t.heard \o t.capture \in Heards /\ G!Latest(t.heard \o t.capture) = "ready"
      /\ t.heard \o t.capture = t.heard \o <<"params", "ready">>
  <2>1. /\ t.heard \o <<"params", "ready">> \in Heards
        /\ G!Latest(t.heard \o <<"params", "ready">>) = "ready"
    BY <1>c, SaysTwo, Zenon
  <2> QED
    BY <1>c, <2>1, Zenon DEF Whole
<1>u. u \in Task
  BY <1>t, <1>1, <1>h, TaskFields, Zenon
<1>2. /\ u.stage = "ready" /\ u.heard = t.heard \o t.capture
      /\ u.transport = t.transport /\ u.user = t.user /\ u.db = t.db
      /\ u.given = t.given /\ u.list = t.list /\ u.pool = t.pool
      /\ u.backend = t.backend /\ u.link = t.link /\ u.stream = t.stream /\ u.capture = t.capture
  BY <1>t, Zenon DEF Task
<1> HIDE DEF u
<1>3. HeardFits(u) /\ Follow(t, u)
  <2>1. Told(u) = "ready" /\ Told(t) = "ok"
    BY <1>2, <1>h, Zenon DEF Told, Good, HeardFits
  <2>2. "params" \in G!Follows(Told(t)) /\ "ready" \in G!Follows("params")
    BY <2>1, Zenon DEF G!Follows, G!Challenges
  <2>3. Follow(t, u)
    BY <1>2, <1>h, <2>2, FollowsTwo, Zenon
  <2> QED
    BY <1>2, <2>1, <2>3, Zenon DEF HeardFits
<1>4. StreamFits(u)
  BY <1>2, Zenon DEF StreamFits
<1>5. ServedFits(s, u) /\ Keeps(t, u)
  BY <1>2, Zenon DEF Good, ServedFits, Early, Backed, AtConsole, Keeps
<1>6. RightFits(s, u)
  BY <1>2, Zenon DEF Good, RightFits, Admitted, Allowed, AtConsole
<1>7. CaptureFits(u)
  BY <1>2, Zenon DEF Good, CaptureFits
<1> QED
  BY <1>u, <1>3, <1>4, <1>5, <1>6, <1>7, Zenon DEF Moves, Good, u

(* AdminLogin.                                                             *)
LEMMA AdminLoginMoves ==
  ASSUME NEW s, NEW t, Good(s, t),
         t.stage = "admin", s.admin_enabled
  PROVE  Moves(s, t, [t EXCEPT !.stage = "admin password", !.heard = @ \o <<"cleartext">>])
<1> DEFINE u == [t EXCEPT !.stage = "admin password", !.heard = @ \o <<"cleartext">>]
<1>t. t \in Task
  BY Zenon DEF Good
<1>1. "admin password" \in Stages /\ "cleartext" \in Messages
  BY Zenon DEF Stages, Early, Backed, AtConsole, Messages
<1>h. t.heard \o <<"cleartext">> \in Heards /\ G!Latest(t.heard \o <<"cleartext">>) = "cleartext"
  BY <1>t, <1>1, SaysOne, Zenon DEF Task
<1>u. u \in Task
  BY <1>t, <1>1, <1>h, TaskFields, Zenon
<1>2. /\ u.stage = "admin password" /\ u.heard = t.heard \o <<"cleartext">>
      /\ u.transport = t.transport /\ u.user = t.user /\ u.db = t.db
      /\ u.given = t.given /\ u.list = t.list /\ u.pool = t.pool
      /\ u.backend = t.backend /\ u.link = t.link /\ u.stream = t.stream /\ u.capture = t.capture
  BY <1>t, Zenon DEF Task
<1> HIDE DEF u
<1>3. HeardFits(u) /\ Follow(t, u)
  <2>1. Told(u) = "cleartext"
    BY <1>2, <1>h, Zenon DEF Told
  <2>2. "cleartext" \in G!Follows(Told(t))
    BY Zenon DEF Good, HeardFits, Opening, G!Follows, G!Challenges
  <2>3. Follow(t, u)
    BY <1>2, <2>2, FollowsOne, Zenon
  <2> QED
    BY <1>2, <2>1, <2>3, Zenon DEF HeardFits
<1>4. StreamFits(u)
  BY <1>2, Zenon DEF StreamFits
<1>5. ServedFits(s, u) /\ Keeps(t, u)
  BY <1>2, Zenon DEF Good, ServedFits, Early, Backed, AtConsole, Keeps
<1>6. RightFits(s, u)
  BY <1>2, Zenon DEF Good, RightFits, Admitted, Allowed, AtConsole
<1>7. CaptureFits(u)
  BY <1>2, Zenon DEF Good, CaptureFits
<1> QED
  BY <1>u, <1>3, <1>4, <1>5, <1>6, <1>7, Zenon DEF Moves, Good, u

(* AdminPassword.                                                          *)
LEMMA AdminPasswordMoves ==
  ASSUME NEW s, NEW t, Good(s, t),
         t.stage = "admin password", NEW p \in Givens, p = s.admin_password
  PROVE  Moves(s, t, [t EXCEPT !.stage = "admin greet", !.heard = @ \o <<"ok">>, !.given = p])
<1> DEFINE u == [t EXCEPT !.stage = "admin greet", !.heard = @ \o <<"ok">>, !.given = p]
<1>t. t \in Task
  BY Zenon DEF Good
<1>1. "admin greet" \in Stages /\ "ok" \in Messages
  BY Zenon DEF Stages, Early, Backed, AtConsole, Messages
<1>h. t.heard \o <<"ok">> \in Heards /\ G!Latest(t.heard \o <<"ok">>) = "ok"
  BY <1>t, <1>1, SaysOne, Zenon DEF Task
<1>u. u \in Task
  BY <1>t, <1>1, <1>h, TaskFields, Zenon
<1>2. /\ u.stage = "admin greet" /\ u.heard = t.heard \o <<"ok">> /\ u.given = p
      /\ u.transport = t.transport /\ u.user = t.user /\ u.db = t.db
      /\ u.list = t.list /\ u.pool = t.pool /\ u.backend = t.backend
      /\ u.link = t.link /\ u.stream = t.stream /\ u.capture = t.capture
  BY <1>t, Zenon DEF Task
<1> HIDE DEF u
<1>3. HeardFits(u) /\ Follow(t, u)
  <2>1. Told(u) = "ok"
    BY <1>2, <1>h, Zenon DEF Told
  <2>2. "ok" \in G!Follows(Told(t))
    BY Zenon DEF Good, HeardFits, Opening, G!Follows, G!Challenges
  <2>3. Follow(t, u)
    BY <1>2, <2>2, FollowsOne, Zenon
  <2> QED
    BY <1>2, <2>1, <2>3, Zenon DEF HeardFits
<1>4. StreamFits(u)
  BY <1>2, Zenon DEF StreamFits
<1>5. ServedFits(s, u) /\ Keeps(t, u)
  BY <1>2, Zenon DEF Good, ServedFits, Early, Backed, AtConsole, Keeps
<1>6. RightFits(s, u)
  BY <1>2, Zenon DEF Good, RightFits, Admitted, Allowed, AtConsole
<1>7. CaptureFits(u)
  BY <1>2, Zenon DEF Good, CaptureFits
<1> QED
  BY <1>u, <1>3, <1>4, <1>5, <1>6, <1>7, Zenon DEF Moves, Good, u

(* AdminGreet.                                                             *)
LEMMA AdminGreetMoves ==
  ASSUME NEW s, NEW t, Good(s, t),
         t.stage = "admin greet"
  PROVE  Moves(s, t, [t EXCEPT !.stage = "console", !.heard = @ \o <<"ready">>])
<1> DEFINE u == [t EXCEPT !.stage = "console", !.heard = @ \o <<"ready">>]
<1>t. t \in Task
  BY Zenon DEF Good
<1>1. "console" \in Stages /\ "ready" \in Messages
  BY Zenon DEF Stages, Early, Backed, AtConsole, Messages
<1>h. t.heard \o <<"ready">> \in Heards /\ G!Latest(t.heard \o <<"ready">>) = "ready"
  BY <1>t, <1>1, SaysOne, Zenon DEF Task
<1>u. u \in Task
  BY <1>t, <1>1, <1>h, TaskFields, Zenon
<1>2. /\ u.stage = "console" /\ u.heard = t.heard \o <<"ready">>
      /\ u.transport = t.transport /\ u.user = t.user /\ u.db = t.db
      /\ u.given = t.given /\ u.list = t.list /\ u.pool = t.pool
      /\ u.backend = t.backend /\ u.link = t.link /\ u.stream = t.stream /\ u.capture = t.capture
  BY <1>t, Zenon DEF Task
<1> HIDE DEF u
<1>3. HeardFits(u) /\ Follow(t, u)
  <2>1. Told(u) = "ready"
    BY <1>2, <1>h, Zenon DEF Told
  <2>2. "ready" \in G!Follows(Told(t))
    BY Zenon DEF Good, HeardFits, Opening, G!Follows, G!Challenges
  <2>3. Follow(t, u)
    BY <1>2, <2>2, FollowsOne, Zenon
  <2> QED
    BY <1>2, <2>1, <2>3, Zenon DEF HeardFits
<1>4. StreamFits(u)
  BY <1>2, Zenon DEF StreamFits
<1>5. ServedFits(s, u) /\ Keeps(t, u)
  BY <1>2, Zenon DEF Good, ServedFits, Early, Backed, AtConsole, Keeps
<1>6. RightFits(s, u)
  BY <1>2, Zenon DEF Good, RightFits, Admitted, Allowed, AtConsole
<1>7. CaptureFits(u)
  BY <1>2, Zenon DEF Good, CaptureFits
<1> QED
  BY <1>u, <1>3, <1>4, <1>5, <1>6, <1>7, Zenon DEF Moves, Good, u

(* ReadUnix.                                                               *)
LEMMA ReadUnixMoves ==
  ASSUME NEW s, NEW t, Good(s, t),
         t.stage = "auth", NEW who \in Users
  PROVE  Moves(s, t, [t EXCEPT !.user = who])
<1> DEFINE u == [t EXCEPT !.user = who]
<1>t. t \in Task
  BY Zenon DEF Good
<1>u. u \in Task
  BY <1>t, TaskFields, Zenon DEF Askers
<1>2. /\ u.user = who
      /\ u.stage = t.stage /\ u.heard = t.heard /\ u.transport = t.transport
      /\ u.db = t.db /\ u.given = t.given /\ u.list = t.list
      /\ u.pool = t.pool /\ u.backend = t.backend /\ u.link = t.link
      /\ u.stream = t.stream /\ u.capture = t.capture
  BY <1>t, Zenon DEF Task
<1> HIDE DEF u
<1>3. HeardFits(u) /\ Follow(t, u)
  BY <1>2, Zenon DEF Good, HeardFits, Follow, Told, Opening
<1>4. StreamFits(u)
  BY <1>2, Zenon DEF StreamFits
<1>5. ServedFits(s, u) /\ Keeps(t, u)
  BY <1>2, Zenon DEF Good, ServedFits, Early, Backed, AtConsole, Keeps
<1>6. RightFits(s, u)
  BY <1>2, Zenon DEF Good, RightFits, Admitted, Allowed, AtConsole
<1>7. CaptureFits(u)
  BY <1>2, Zenon DEF Good, CaptureFits
<1> QED
  BY <1>u, <1>3, <1>4, <1>5, <1>6, <1>7, Zenon DEF Moves, Good, u

(* ServerAnswers, and BackendAuthenticate with an answer of its own.       *)
LEMMA LoginMoves ==
  ASSUME NEW s, NEW t, Good(s, t),
         t.stage = "login", NEW m \in Streams, NEW v \in Servers
  PROVE  Moves(s, t, [t EXCEPT !.stream = m, !.server = v])
<1> DEFINE u == [t EXCEPT !.stream = m, !.server = v]
<1>t. t \in Task
  BY Zenon DEF Good
<1>u. u \in Task
  BY <1>t, TaskFields, Zenon
<1>2. /\ u.stream = m
      /\ u.stage = t.stage /\ u.heard = t.heard /\ u.transport = t.transport
      /\ u.user = t.user /\ u.db = t.db /\ u.given = t.given
      /\ u.list = t.list /\ u.pool = t.pool /\ u.backend = t.backend
      /\ u.link = t.link /\ u.capture = t.capture
  BY <1>t, Zenon DEF Task
<1> HIDE DEF u
<1>3. HeardFits(u) /\ Follow(t, u)
  BY <1>2, Zenon DEF Good, HeardFits, Follow, Told
<1>4. StreamFits(u)
  BY <1>2, Zenon DEF StreamFits
<1>5. ServedFits(s, u) /\ Keeps(t, u)
  BY <1>2, Zenon DEF Good, ServedFits, Early, Backed, AtConsole, Keeps
<1>6. RightFits(s, u)
  BY <1>2, Zenon DEF Good, RightFits, Admitted, Allowed, AtConsole
<1>7. CaptureFits(u)
  BY <1>2, Zenon DEF Good, CaptureFits
<1> QED
  BY <1>u, <1>3, <1>4, <1>5, <1>6, <1>7, Zenon DEF Moves, Good, u

(* ServerGone.                                                             *)
LEMMA GoneMoves ==
  ASSUME NEW s, NEW t, Good(s, t),
         t.stage = "login"
  PROVE  Moves(s, t, [t EXCEPT !.server = "gone"])
<1> DEFINE u == [t EXCEPT !.server = "gone"]
<1>t. t \in Task
  BY Zenon DEF Good
<1>1. "gone" \in Servers
  BY Zenon DEF Servers
<1>u. u \in Task
  BY <1>t, <1>1, TaskFields, Zenon
<1>2. /\ u.stage = t.stage /\ u.heard = t.heard /\ u.transport = t.transport
      /\ u.user = t.user /\ u.db = t.db /\ u.given = t.given
      /\ u.list = t.list /\ u.pool = t.pool /\ u.backend = t.backend
      /\ u.link = t.link /\ u.stream = t.stream /\ u.capture = t.capture
  BY <1>t, Zenon DEF Task
<1> HIDE DEF u
<1>3. HeardFits(u) /\ Follow(t, u)
  BY <1>2, Zenon DEF Good, HeardFits, Follow, Told
<1>4. StreamFits(u)
  BY <1>2, Zenon DEF StreamFits
<1>5. ServedFits(s, u) /\ Keeps(t, u)
  BY <1>2, Zenon DEF Good, ServedFits, Early, Backed, AtConsole, Keeps
<1>6. RightFits(s, u)
  BY <1>2, Zenon DEF Good, RightFits, Admitted, Allowed, AtConsole
<1>7. CaptureFits(u)
  BY <1>2, Zenon DEF Good, CaptureFits
<1> QED
  BY <1>u, <1>3, <1>4, <1>5, <1>6, <1>7, Zenon DEF Moves, Good, u

(* BackendAuthenticate on AuthenticationOk.                                *)
LEMMA AuthOkMoves ==
  ASSUME NEW s, NEW t, Good(s, t),
         t.stage = "login", NEW m \in Afters,
         NEW h, h = IF t.backend = "direct" THEN t.heard \o <<"ok">> ELSE t.heard
  PROVE  Moves(s, t, [t EXCEPT !.stage = "forward", !.stream = m, !.heard = h])
<1> DEFINE u == [t EXCEPT !.stage = "forward", !.stream = m, !.heard = h]
<1>t. t \in Task
  BY Zenon DEF Good
<1>1. "forward" \in Stages
  BY Zenon DEF Stages, Early, Backed, AtConsole
<1>h. h \in Heards /\ G!Latest(h) = "ok"
  <2>1. t.heard \in Heards /\ "ok" \in Messages
    BY <1>t, Zenon DEF Task, Messages
  <2>2. t.backend # "direct" => G!Latest(t.heard) = "ok"
    BY Zenon DEF Good, HeardFits, Told
  <2> QED
    BY <2>1, <2>2, SaysOne, Zenon
<1>u. u \in Task
  BY <1>t, <1>1, <1>h, TaskFields, Zenon DEF Streams, Afters
<1>2. /\ u.stage = "forward" /\ u.stream = m /\ u.heard = h
      /\ u.transport = t.transport /\ u.user = t.user /\ u.db = t.db
      /\ u.given = t.given /\ u.list = t.list /\ u.pool = t.pool
      /\ u.backend = t.backend /\ u.link = t.link /\ u.capture = t.capture
  BY <1>t, Zenon DEF Task
<1> HIDE DEF u
<1>3. HeardFits(u) /\ Follow(t, u)
  <2>1. Told(u) = "ok"
    BY <1>2, <1>h, Zenon DEF Told
  <2>2. CASE t.backend = "direct"
    <3>1. "ok" \in G!Follows(Told(t))
      BY <2>2, Zenon DEF Good, HeardFits, Opening, G!Follows, G!Challenges
    <3>2. Follow(t, u)
      BY <1>2, <2>2, <3>1, FollowsOne, Zenon
    <3> QED
      BY <1>2, <2>1, <3>2, Zenon DEF HeardFits
  <2>3. CASE t.backend # "direct"
    BY <1>2, <2>1, <2>3, Zenon DEF HeardFits, Follow
  <2> QED
    BY <2>2, <2>3, Zenon
<1>4. StreamFits(u)
  <2>1. Told(u) = "ok"
    BY <1>2, <1>h, Zenon DEF Told
  <2> QED
    BY <1>2, <2>1, Zenon DEF StreamFits
<1>5. ServedFits(s, u) /\ Keeps(t, u)
  BY <1>2, Zenon DEF Good, ServedFits, Early, Backed, AtConsole, Keeps
<1>6. RightFits(s, u)
  BY <1>2, Zenon DEF Good, RightFits, Admitted, Allowed, AtConsole
<1>7. CaptureFits(u)
  BY <1>2, Zenon DEF Good, CaptureFits
<1> QED
  BY <1>u, <1>3, <1>4, <1>5, <1>6, <1>7, Zenon DEF Moves, Good, u

(* Forward: what is read is heard.                                         *)
LEMMA ForwardMoves ==
  ASSUME NEW s, NEW t, Good(s, t),
         t.stage = "forward", t.backend = "direct",
         NEW m, NEW more, NEW x, NEW b \in BOOLEAN, NEW d \in BOOLEAN,
         Takes(t, m, more, x, "ready")
  PROVE  Moves(s, t, [[t EXCEPT !.stream = m, !.cut = b, !.blind = d] EXCEPT
                        !.stage = x, !.heard = @ \o more])
<1> DEFINE h == t.heard \o more
           u == [[t EXCEPT !.stream = m, !.cut = b, !.blind = d] EXCEPT !.stage = x, !.heard = h]
<1>t. t \in Task
  BY Zenon DEF Good
<1>1. m \in Streams
  <2>1. t.stream \in Streams
    BY <1>t, Zenon DEF Task
  <2> QED
    BY <2>1, Zenon DEF Takes, Streams
<1>m. /\ t.heard \in Heards /\ "params" \in Messages /\ "ready" \in Messages
      /\ "error" \in Messages
  BY <1>t, Zenon DEF Task, Messages
<1>o. /\ t.heard \o <<>> = t.heard
      /\ t.heard \o <<"params">> \in Heards /\ G!Latest(t.heard \o <<"params">>) = "params"
      /\ t.heard \o <<"ready">> \in Heards /\ G!Latest(t.heard \o <<"ready">>) = "ready"
      /\ t.heard \o <<"error">> \in Heards /\ G!Latest(t.heard \o <<"error">>) = "error"
  BY <1>m, SaysNone, SaysOne, Zenon
<1>w. t.heard \o Whole \in Heards /\ G!Latest(t.heard \o Whole) = "ready"
  <2>1. /\ t.heard \o <<"params", "ready">> \in Heards
        /\ G!Latest(t.heard \o <<"params", "ready">>) = "ready"
    BY <1>m, SaysTwo, Zenon
  <2> QED
    BY <2>1, Zenon DEF Whole
<1>h. h \in Heards
  BY <1>m, <1>o, <1>w, Zenon DEF Takes
<1>x. x \in Stages
  BY Zenon DEF Takes, Stages, Backed
<1>u. u \in Task
  BY <1>t, <1>1, <1>h, <1>x, TaskFields, Zenon
<1>2. /\ u.stream = m /\ u.stage = x /\ u.heard = h
      /\ u.transport = t.transport /\ u.user = t.user /\ u.db = t.db
      /\ u.given = t.given /\ u.list = t.list /\ u.pool = t.pool
      /\ u.backend = t.backend /\ u.link = t.link /\ u.capture = t.capture
  BY <1>t, Zenon DEF Task
<1>d. [[t EXCEPT !.stream = m, !.cut = b, !.blind = d] EXCEPT
         !.stage = x, !.heard = @ \o more] = u
  BY <1>t, Zenon DEF Task
<1> HIDE DEF u
<1>s. /\ t.stream = <<"params", "ready">> => Told(t) = "ok"
      /\ t.stream = <<"ready">> => Told(t) = "params"
      /\ t.stream = <<"error">> => Told(t) = "ok"
  BY Apart, Zenon DEF Good, HeardFits, StreamFits, Afters
<1>f. "params" \in G!Follows("ok") /\ "error" \in G!Follows("ok") /\ "ready" \in G!Follows("params")
  BY Zenon DEF G!Follows, G!Challenges
<1>a. ASSUME m = t.stream /\ more = <<>> /\ x = "forward"
      PROVE  HeardFits(u) /\ StreamFits(u) /\ Follow(t, u)
  <2>1. u.heard = t.heard /\ Told(u) = Told(t)
    BY <1>2, <1>o, <1>a, Zenon DEF Told
  <2>2. HeardFits(u) /\ Follow(t, u)
    BY <1>2, <1>a, <2>1, Zenon DEF Good, HeardFits, Follow
  <2>3. StreamFits(u)
    BY <1>2, <1>a, <2>1, Zenon DEF Good, StreamFits
  <2> QED
    BY <2>2, <2>3, Zenon
<1>b. ASSUME t.stream = <<"params", "ready">> /\ m = <<"ready">> /\ more = <<"params">>
           /\ x = "forward"
      PROVE  HeardFits(u) /\ StreamFits(u) /\ Follow(t, u)
  <2>1. Told(u) = "params"
    BY <1>2, <1>o, <1>b, Zenon DEF Told
  <2>2. Follow(t, u)
    BY <1>2, <1>b, <1>s, <1>f, FollowsOne, Zenon
  <2>3. HeardFits(u) /\ StreamFits(u)
    BY <1>2, <1>b, <2>1, Zenon DEF HeardFits, StreamFits
  <2> QED
    BY <2>2, <2>3, Zenon
<1>c. ASSUME t.stream = <<"params", "ready">> /\ m = <<>> /\ more = Whole
           /\ x \in {"forward", "ready"}
      PROVE  HeardFits(u) /\ StreamFits(u) /\ Follow(t, u)
  <2>1. Told(u) = "ready" /\ u.heard = t.heard \o <<"params", "ready">>
    BY <1>2, <1>w, <1>c, Zenon DEF Told, Whole
  <2>2. Follow(t, u)
    BY <1>2, <1>c, <1>s, <1>f, <2>1, FollowsTwo, Zenon
  <2>3. HeardFits(u) /\ StreamFits(u)
    BY <1>2, <1>c, <2>1, Zenon DEF HeardFits, StreamFits
  <2> QED
    BY <2>2, <2>3, Zenon
<1>e. ASSUME t.stream = <<"ready">> /\ m = <<>> /\ more = <<"ready">> /\ x \in {"forward", "ready"}
      PROVE  HeardFits(u) /\ StreamFits(u) /\ Follow(t, u)
  <2>1. Told(u) = "ready"
    BY <1>2, <1>o, <1>e, Zenon DEF Told
  <2>2. Follow(t, u)
    BY <1>2, <1>e, <1>s, <1>f, FollowsOne, Zenon
  <2>3. HeardFits(u) /\ StreamFits(u)
    BY <1>2, <1>e, <2>1, Zenon DEF HeardFits, StreamFits
  <2> QED
    BY <2>2, <2>3, Zenon
<1>g. ASSUME t.stream = <<"error">> /\ m = <<>> /\ more = <<"error">> /\ x = "forward"
      PROVE  HeardFits(u) /\ StreamFits(u) /\ Follow(t, u)
  <2>1. Told(u) = "error"
    BY <1>2, <1>o, <1>g, Zenon DEF Told
  <2>2. Follow(t, u)
    BY <1>2, <1>g, <1>s, <1>f, FollowsOne, Zenon
  <2>3. HeardFits(u) /\ StreamFits(u)
    BY <1>2, <1>g, <2>1, Zenon DEF HeardFits, StreamFits
  <2> QED
    BY <2>2, <2>3, Zenon
<1>3. HeardFits(u) /\ StreamFits(u) /\ Follow(t, u)
  BY <1>a, <1>b, <1>c, <1>e, <1>g, Zenon DEF Takes
<1>4. x \in {"forward", "ready"}
  BY Zenon DEF Takes
<1>5. ServedFits(s, u) /\ Keeps(t, u)
  BY <1>2, <1>4, Zenon DEF Good, ServedFits, Early, Backed, AtConsole, Keeps
<1>6. RightFits(s, u)
  BY <1>2, <1>4, Zenon DEF Good, RightFits, Admitted, Allowed, AtConsole
<1>7. CaptureFits(u)
  BY <1>2, <1>4, Zenon DEF CaptureFits
<1> QED
  BY <1>u, <1>d, <1>3, <1>5, <1>6, <1>7, Zenon DEF Moves, Good

(* Capture: what is read is kept.                                          *)
LEMMA CaptureMoves ==
  ASSUME NEW s, NEW t, Good(s, t),
         t.stage = "forward", t.backend = "fresh", NEW b \in BOOLEAN, NEW d \in BOOLEAN,
         NEW m, NEW more, NEW x, Takes(t, m, more, x, "greet")
  PROVE  Moves(s, t, [[t EXCEPT !.stream = m, !.cut = b, !.blind = d] EXCEPT
                        !.stage = x, !.capture = @ \o more])
<1> DEFINE k == t.capture \o more
           u == [[t EXCEPT !.stream = m, !.cut = b, !.blind = d] EXCEPT !.stage = x, !.capture = k]
<1>t. t \in Task
  BY Zenon DEF Good
<1>c. t.capture \in Captures /\ t.stream \in Streams
  BY <1>t, Zenon DEF Task
<1>s. /\ t.stream = <<"params", "ready">> => t.capture = <<>>
      /\ t.stream = <<"ready">> => t.capture = <<"params">>
      /\ t.stream = <<"error">> => t.capture = <<>>
  BY Apart, Zenon DEF Good, CaptureFits, Afters
<1>j. /\ \A v \in Captures : v \o <<>> = v
      /\ <<>> \o <<"params">> = <<"params">> /\ <<>> \o Whole = Whole
      /\ <<"params">> \o <<"ready">> = Whole /\ <<>> \o <<"error">> = <<"error">>
  BY CaptureJoins, Zenon
<1>k. \/ m = t.stream /\ k = t.capture /\ x = "forward"
      \/ m = <<"ready">> /\ k = <<"params">> /\ x = "forward"
      \/ m = <<>> /\ k = Whole /\ x \in {"forward", "greet"}
      \/ m = <<>> /\ k = <<"error">> /\ x = "forward"
  BY <1>c, <1>s, <1>j, Zenon DEF Takes
<1>1. m \in Streams /\ k \in Captures /\ x \in Stages
  BY <1>c, <1>k, Zenon DEF Streams, Captures, Stages, Backed
<1>u. u \in Task
  BY <1>t, <1>1, TaskFields, Zenon
<1>2. /\ u.stream = m /\ u.stage = x /\ u.capture = k
      /\ u.heard = t.heard /\ u.transport = t.transport /\ u.user = t.user
      /\ u.db = t.db /\ u.given = t.given /\ u.list = t.list
      /\ u.pool = t.pool /\ u.backend = t.backend /\ u.link = t.link
  BY <1>t, Zenon DEF Task
<1>d. [[t EXCEPT !.stream = m, !.cut = b, !.blind = d] EXCEPT
         !.stage = x, !.capture = @ \o more] = u
  BY <1>t, Zenon DEF Task
<1> HIDE DEF u, k
<1>x. x \in {"forward", "greet"}
  BY <1>k, Zenon
<1>3. HeardFits(u) /\ Follow(t, u)
  BY <1>2, <1>x, Zenon DEF Good, HeardFits, Follow, Told
<1>4. StreamFits(u)
  <2>1. m \in Afters \cup {<<"ready">>, <<>>}
    BY <1>k, Zenon DEF Good, StreamFits
  <2> QED
    BY <1>2, <2>1, Zenon DEF StreamFits
<1>5. ServedFits(s, u) /\ Keeps(t, u)
  BY <1>2, <1>x, Zenon DEF Good, ServedFits, Early, Backed, AtConsole, Keeps
<1>6. RightFits(s, u)
  BY <1>2, <1>x, Zenon DEF Good, RightFits, Admitted, Allowed, AtConsole
<1>7. CaptureFits(u)
  BY <1>2, <1>k, Zenon DEF Good, CaptureFits
<1> QED
  BY <1>u, <1>d, <1>3, <1>4, <1>5, <1>6, <1>7, Zenon DEF Moves, Good

(* Admit, on a task v that is t but for the password given.                *)
LEMMA AdmitMoves ==
  ASSUME NEW s, NEW t, Good(s, t), t.stage \in {"auth", "password"},
         NEW v \in Task, Allowed(s, v),
         v.stage = t.stage, v.heard = t.heard, v.transport = t.transport, v.user = t.user,
         v.db = t.db, v.list = t.list, v.pool = t.pool, v.backend = t.backend, v.link = t.link,
         v.stream = t.stream, v.capture = t.capture
  PROVE  /\ v.backend = "direct" => Moves(s, t, AdmitDirect(v))
         /\ v.backend = "fresh" => Moves(s, t, AdmitFresh(v))
         /\ v.backend = "warm" => Moves(s, t, AdmitWarm(v))
<1>1. ASSUME NEW u \in Task, u.stage \in {"login", "replay"},
             u.stage = "replay" => u.backend = "warm",
             u.stage = "replay" \/ u.backend \in {"direct", "fresh"},
             \/ u.heard = t.heard \o <<"ok">> /\ u.backend # "direct"
             \/ u.heard = t.heard /\ u.backend = "direct" /\ u.stage = "login",
             u.transport = v.transport, u.user = v.user, u.db = v.db, u.given = v.given,
             u.list = v.list, u.pool = v.pool, u.backend = v.backend, u.link = v.link,
             u.capture = v.capture
      PROVE  Moves(s, t, u)
  <2>1. HeardFits(u) /\ Follow(t, u)
    <3>t. Told(t) \in Opening \cup {"md5"}
      BY Zenon DEF Good, HeardFits
    <3>1. CASE u.heard = t.heard \o <<"ok">> /\ u.backend # "direct"
      <4>1. t.heard \in Heards /\ "ok" \in Messages
        BY Zenon DEF Good, Task, Messages
      <4>2. Told(u) = "ok"
        BY <3>1, <4>1, SaysOne, Zenon DEF Told
      <4>3. "ok" \in G!Follows(Told(t))
        BY <3>t, Zenon DEF Opening, G!Follows, G!Challenges
      <4>4. Follow(t, u)
        BY <3>1, <4>3, FollowsOne, Zenon
      <4> QED
        BY <1>1, <3>1, <4>2, <4>4, Zenon DEF HeardFits
    <3>2. CASE u.heard = t.heard /\ u.backend = "direct" /\ u.stage = "login"
      <4>1. Told(u) = Told(t)
        BY <3>2, Zenon DEF Told
      <4> QED
        BY <3>t, <3>2, <4>1, Zenon DEF HeardFits, Follow
    <3> QED
      BY <1>1, <3>1, <3>2, Zenon
  <2>2. StreamFits(u)
    BY <1>1, Zenon DEF StreamFits
  <2>a. /\ t.pool = Routed(s, t.db) /\ t.backend # "none" /\ t.db # AdminDatabase
        /\ t.pool = Absent <=> t.backend = "direct"
        /\ t.pool # Absent /\ RequiresEncryption(s.server_tls_sslmode) => t.link = "tls"
    BY Zenon DEF Good, ServedFits, Early, Backed, AtConsole
  <2>b. /\ u.pool = t.pool /\ u.backend = t.backend /\ u.db = t.db /\ u.link = t.link
        /\ u.transport = t.transport
    BY <1>1, Zenon
  <2>3. ServedFits(s, u) /\ Keeps(t, u)
    BY <1>1, <2>a, <2>b, Zenon DEF ServedFits, Early, Backed, AtConsole, Keeps
  <2>4. RightFits(s, u)
    <3>1. /\ u.list = t.list /\ u.transport = t.transport
          /\ t.stage \notin {"new", "closed", "first", "accept"}
      BY <1>1, Zenon
    <3>2. /\ s.auth_file # "unset" => u.list # Absent
          /\ RequiresEncryption(s.client_tls_sslmode) => u.transport # "plain"
      BY <3>1, Zenon DEF Good, RightFits
    <3>3. Allowed(s, u)
      BY <1>1, Zenon DEF Allowed
    <3> QED
      BY <1>1, <3>2, <3>3, Zenon DEF RightFits, AtConsole, Allowed
  <2>5. CaptureFits(u)
    BY <1>1, Zenon DEF Good, CaptureFits, ServedFits
  <2> QED
    BY <1>1, <2>1, <2>2, <2>3, <2>4, <2>5, Zenon DEF Moves, Good
<1>2. /\ "login" \in Stages /\ "replay" \in Stages /\ "startup" \in Servers
      /\ v.heard \o <<"ok">> \in Heards
  <2>1. v.heard \in Heards /\ "ok" \in Messages
    BY Zenon DEF Task, Messages
  <2> QED
    BY <2>1, SaysOne, Zenon DEF Stages, Backed, Servers
<1>3. ASSUME v.backend = "direct" PROVE Moves(s, t, AdmitDirect(v))
  <2> DEFINE u == AdmitDirect(v)
  <2>1. u \in Task
    BY <1>2, TaskFields, Zenon DEF AdmitDirect
  <2>2. /\ u.stage = "login" /\ u.heard = v.heard /\ u.transport = v.transport
        /\ u.user = v.user /\ u.db = v.db /\ u.given = v.given /\ u.list = v.list
        /\ u.pool = v.pool /\ u.backend = v.backend /\ u.link = v.link
        /\ u.capture = v.capture
    BY Zenon DEF AdmitDirect, Task
  <2> HIDE DEF u
  <2>4. Moves(s, t, u)
    BY <1>1, <1>3, <2>1, <2>2, Zenon
  <2> QED
    BY <2>4, Zenon DEF u
<1>4. ASSUME v.backend = "fresh" PROVE Moves(s, t, AdmitFresh(v))
  <2> DEFINE u == AdmitFresh(v)
  <2>1. u \in Task
    BY <1>2, TaskFields, Zenon DEF AdmitFresh
  <2>2. /\ u.stage = "login" /\ u.heard = v.heard \o <<"ok">> /\ u.transport = v.transport
        /\ u.user = v.user /\ u.db = v.db /\ u.given = v.given /\ u.list = v.list
        /\ u.pool = v.pool /\ u.backend = v.backend /\ u.link = v.link
        /\ u.capture = v.capture
    BY Zenon DEF AdmitFresh, Task
  <2> HIDE DEF u
  <2>4. Moves(s, t, u)
    BY <1>1, <1>4, <2>1, <2>2, Zenon
  <2> QED
    BY <2>4, Zenon DEF u
<1>5. ASSUME v.backend = "warm" PROVE Moves(s, t, AdmitWarm(v))
  <2> DEFINE u == AdmitWarm(v)
  <2>1. u \in Task
    BY <1>2, TaskFields, Zenon DEF AdmitWarm
  <2>2. /\ u.stage = "replay" /\ u.heard = v.heard \o <<"ok">> /\ u.transport = v.transport
        /\ u.user = v.user /\ u.db = v.db /\ u.given = v.given /\ u.list = v.list
        /\ u.pool = v.pool /\ u.backend = v.backend /\ u.link = v.link
        /\ u.capture = v.capture
    BY Zenon DEF AdmitWarm, Task
  <2> HIDE DEF u
  <2>4. Moves(s, t, u)
    BY <1>1, <1>5, <2>1, <2>2, Zenon
  <2> QED
    BY <2>4, Zenon DEF u
<1> QED
  BY <1>3, <1>4, <1>5, Zenon

(* A new task, and one that has ended.                                     *)
LEMMA NewGood ==
  ASSUME NEW s
  PROVE  Good(s, NewConn) /\ \A how \in {"error", "closed"} : Good(s, Ended(how))
<1>1. NewConn \in Task
  <2>1. /\ "new" \in Stages /\ <<>> \in Heards /\ "plain" \in Transports
        /\ Absent \in Askers /\ Absent \in Names /\ Absent \in Givens /\ Absent \in MaybeLists
        /\ Absent \in Pools /\ "none" \in Backends /\ "none" \in Links /\ "none" \in Servers
        /\ <<>> \in Streams /\ <<>> \in Captures /\ FALSE \in BOOLEAN
    BY EmptyHeard, Zenon DEF Stages, Early, Transports, Askers, Names, Givens, MaybeLists,
                 Pools, Backends, Links, Servers, Streams, Captures
  <2> QED
    BY <2>1, SMT DEF NewConn, Task
<1>2. /\ NewConn.stage = "new" /\ NewConn.heard = <<>> /\ NewConn.pool = Absent
      /\ NewConn.backend = "none"
  BY SMT DEF NewConn
<1>3. Good(s, NewConn)
  <2>1. HeardFits(NewConn) /\ StreamFits(NewConn) /\ CaptureFits(NewConn)
    BY <1>2, EmptyHeard, Zenon DEF HeardFits, StreamFits, CaptureFits, Told
  <2>2. ServedFits(s, NewConn)
    BY <1>2, Zenon DEF ServedFits, Early, Backed, AtConsole
  <2>3. RightFits(s, NewConn)
    BY <1>2, Zenon DEF RightFits, Admitted, Allowed, AtConsole
  <2> QED
    BY <1>1, <2>1, <2>2, <2>3, Zenon DEF Good
<1>4. ASSUME NEW how \in {"error", "closed"} PROVE Good(s, Ended(how))
  <2> DEFINE u == Ended(how)
  <2>1. "closed" \in Stages /\ <<how>> \in Heards /\ G!Latest(<<how>>) = how
    BY EmptyHeard, SaysOne, Zenon DEF Stages, Early, Messages
  <2>2. u \in Task
    BY <1>1, <2>1, TaskFields, Zenon DEF Ended
  <2>3. u.stage = "closed" /\ u.heard = <<how>> /\ u.pool = NewConn.pool
          /\ u.backend = NewConn.backend
    BY <1>1, Zenon DEF Ended, Task
  <2> HIDE DEF u
  <2>4. HeardFits(u) /\ StreamFits(u) /\ CaptureFits(u)
    BY <1>2, <2>1, <2>3, Zenon DEF HeardFits, StreamFits, CaptureFits, Told
  <2>5. ServedFits(s, u)
    BY <1>2, <2>3, Zenon DEF ServedFits, Early, Backed, AtConsole
  <2>6. RightFits(s, u)
    BY <2>3, Zenon DEF RightFits, Admitted, Allowed, AtConsole
  <2> QED
    BY <2>2, <2>4, <2>5, <2>6, Zenon DEF Good, u
<1> QED
  BY <1>3, <1>4, Zenon

-----------------------------------------------------------------------------
(* The pools and their sizes are fixed with the settings.                  *)
LEMMA PoolsStay ==
  ASSUME settings' = settings
  PROVE  /\ PoolKeys' = PoolKeys /\ Holdable' = Holdable /\ Jobs' = Jobs
         /\ \A db : PoolOf(db)' = PoolOf(db)
         /\ \A key : PoolSize(key)' = PoolSize(key)
<1>1. PoolKeys' = PoolKeys
  BY Zenon DEF PoolKeys
<1>2. \A db : PoolOf(db)' = PoolOf(db)
  BY <1>1, Zenon DEF PoolOf
<1>3. \A key : PoolSize(key)' = PoolSize(key)
  BY Zenon DEF PoolSize
<1>4. Holdable' = Holdable
  BY <1>2, Zenon DEF Holdable
<1>5. Jobs' = Jobs
  BY <1>1, <1>4, Zenon DEF Jobs
<1> QED
  BY <1>1, <1>2, <1>3, <1>4, <1>5, Zenon

(* PoolOf is the routing of the settings, and finds a pool where it finds  *)
(* anything.                                                               *)
LEMMA PoolOfRouted ==
  ASSUME NEW db
  PROVE  /\ PoolOf(db) = Routed(settings, db)
         /\ PoolOf(db) # Absent <=> PoolOf(db) \in PoolKeys
         /\ PoolOf(db) \in Pools
<1>1. CASE settings.connection_pooling = "disabled"
  BY <1>1, Zenon DEF PoolOf, PoolKeys, Routed, Pools
<1>2. CASE settings.connection_pooling # "disabled"
  <2>1. PoolKeys = Databases \cup {Star}
    BY <1>2, Zenon DEF PoolKeys
  <2>2. Absent \notin PoolKeys
    BY <2>1, StartupAssumption, Zenon
  <2>3. PoolOf(db) = IF db \in Databases \cup {Star} THEN db ELSE Star
    BY <2>1, Zenon DEF PoolOf
  <2>4. PoolOf(db) = Routed(settings, db)
    BY <1>2, <2>3, Zenon DEF Routed
  <2> QED
    BY <2>1, <2>2, <2>3, <2>4, Zenon DEF Pools
<1> QED
  BY <1>1, <1>2, Zenon

(* The record of one task changes.                                         *)
LEMMA OneTask ==
  ASSUME conn \in [Conns -> Task], NEW c \in Conns, NEW u \in Task,
         conn' = [conn EXCEPT ![c] = u]
  PROVE  /\ conn' \in [Conns -> Task] /\ conn'[c] = u
         /\ \A d \in Conns : d # c => conn'[d] = conn[d]
BY Zenon

(* What a pool has lent.                                                   *)
Lent(key) == {c \in Conns : conn[c].pool = key /\ conn[c].backend # "none"}

(* The parts of the invariant that a task's step leaves alone.             *)
LEMMA ConsoleStays ==
  ASSUME Inv, UNCHANGED shared, UNCHANGED consoleVars, warm' \in [PoolKeys -> Seq({Whole})],
         conn' \in [Conns -> Task], NEW c \in Conns, conn[c].stage # "console" \/ job[c] = NoJob,
         \A d \in Conns : d # c => conn'[d] = conn[d]
  PROVE  Accepted(settings)' /\ TypeOK' /\ ListsFit' /\ JobsFit' /\ PausesFit'
<1>1. /\ settings' = settings /\ accepting' = accepting /\ authenticator' = authenticator
      /\ userlist' = userlist /\ job' = job /\ paused' = paused
  BY Zenon DEF shared, consoleVars
<1>2. /\ PoolKeys' = PoolKeys /\ Jobs' = Jobs /\ \A db : PoolOf(db)' = PoolOf(db)
  BY <1>1, PoolsStay, Zenon
<1>3. Accepted(settings)'
  BY <1>1, Zenon DEF Inv
<1>4. TypeOK'
  BY <1>1, <1>2, Zenon DEF Inv, TypeOK
<1>5. ListsFit'
  BY <1>1, Zenon DEF Inv, ListsFit
<1>6. JobsFit'
  <2>1. job[c].cmd = "none"
    <3>1. CASE conn[c].stage # "console"
      BY <3>1, Zenon DEF Inv, JobsFit
    <3>2. CASE job[c] = NoJob
      <4>1. NoJob.cmd = "none"
        BY Zenon DEF NoJob
      <4> QED
        BY <3>2, <4>1, Zenon
    <3> QED
      BY <3>1, <3>2, Zenon
  <2> QED
    BY <1>1, <2>1, Zenon DEF Inv, JobsFit
<1>7. PausesFit'
  BY <1>1, <1>2, Zenon DEF Inv, PausesFit, NoneResuming
<1> QED
  BY <1>3, <1>4, <1>5, <1>6, <1>7, Zenon

(* A pool lends nothing, or to the task of c because it has room.          *)
Borrows(c) ==
    \A key \in PoolKeys :
      \/ Lent(key)' \subseteq Lent(key)
      \/ InUse(key) < PoolSize(key) /\ Lent(key)' \subseteq Lent(key) \cup {c}

(* A step of the task of c: the invariant is kept, what the client hears   *)
(* may follow, no pool is overdrawn, and no other task is touched.         *)
Advances(c) ==
    /\ Inv' /\ settings' = settings /\ Follow(conn[c], conn'[c]) /\ Borrows(c)
    /\ \A d \in Conns : d # c => conn'[d] = conn[d]

(* A step that leaves the tasks alone.                                     *)
Rests == Inv' /\ settings' = settings /\ conn' = conn

(* A task moves on.                                                        *)
LEMMA BecomesKeeps ==
  ASSUME Inv, NEW c \in Conns, NEW u, Becomes(c, u), UNCHANGED shared, UNCHANGED consoleVars,
         Moves(settings, conn[c], u)
  PROVE  Advances(c)
<1>1. /\ settings' = settings /\ conn' = [conn EXCEPT ![c] = u]
      /\ entries' = entries /\ warm' = warm
  BY Zenon DEF Becomes, shared
<1>2. Good(settings, u) /\ Keeps(conn[c], u)
  BY Zenon DEF Moves
<1>3. conn \in [Conns -> Task] /\ u \in Task
  BY <1>2, Zenon DEF Inv, TypeOK, Good
<1>4. /\ conn' \in [Conns -> Task] /\ conn'[c] = u
      /\ \A d \in Conns : d # c => conn'[d] = conn[d]
  BY <1>1, <1>3, OneTask, Zenon
<1>5. Accepted(settings)' /\ TypeOK' /\ ListsFit' /\ JobsFit' /\ PausesFit'
  <2>1. warm' \in [PoolKeys -> Seq({Whole})] /\ conn[c].stage # "console"
    BY <1>1, <1>2, Zenon DEF Inv, TypeOK, Keeps
  <2> QED
    BY <1>4, <2>1, ConsoleStays, Zenon
<1>6. TasksFit'
  BY <1>1, <1>2, <1>4, Zenon DEF Inv, TasksFit
<1>7. EntriesFit'
  <2>1. \A d \in Conns : conn'[d].stage \in Early <=> conn[d].stage \in Early
    BY <1>2, <1>4, Zenon DEF Keeps
  <2>2. DOMAIN entries' = {d \in Conns : conn'[d].stage \notin Early}
    BY <1>1, <2>1, Zenon DEF Inv, EntriesFit
  <2>3. ASSUME NEW d \in DOMAIN entries'
        PROVE  /\ entries'[d].admin <=> conn'[d].stage \in AtConsole
               /\ entries'[d].database = conn'[d].db
               /\ entries'[d].tls <=> IsEncrypted(d)'
    <3>1. /\ d \in Conns /\ d \in DOMAIN entries /\ conn[d].stage \notin Early
          /\ entries'[d] = entries[d]
      BY <1>1, <2>3, Zenon DEF Inv, EntriesFit
    <3>2. /\ conn'[d].stage \in AtConsole <=> conn[d].stage \in AtConsole
          /\ conn'[d].db = conn[d].db /\ conn'[d].transport = conn[d].transport
      BY <1>2, <1>4, <3>1, Zenon DEF Keeps
    <3> QED
      BY <3>1, <3>2, Zenon DEF Inv, EntriesFit, IsEncrypted
  <2> QED
    BY <2>2, <2>3, Zenon DEF EntriesFit
<1>8. Borrows(c)
  <2> SUFFICES ASSUME NEW key \in PoolKeys
               PROVE  Lent(key)' \subseteq Lent(key)
    BY Zenon DEF Borrows
  <2>1. key # Absent
    BY StartupAssumption, Zenon DEF PoolKeys
  <2>2. ASSUME NEW d \in Conns, conn'[d].pool = key, conn'[d].backend # "none"
        PROVE  conn[d].pool = key /\ conn[d].backend # "none"
    BY <1>2, <1>4, <2>1, <2>2, Zenon DEF Keeps
  <2> QED
    BY <2>2, Zenon DEF Lent
<1>9. Follow(conn[c], conn'[c])
  BY <1>4, Zenon DEF Moves
<1> QED
  BY <1>1, <1>4, <1>5, <1>6, <1>7, <1>8, <1>9, Zenon DEF Inv, Advances

(* What a pool keeps is whole: one more, or the first of them gone.        *)
LEMMA PoolSequences ==
  ASSUME NEW S, NEW q \in Seq(S)
  PROVE  /\ \A e \in S : Append(q, e) \in Seq(S)
         /\ \A k \in 0..Len(q) : SubSeq(q, k + 2, Len(q)) \in Seq(S)
         /\ \A k \in 0..Len(q) : k < Len(q) => q[k + 1] \in S
<1>1. \A e \in S : Append(q, e) \in Seq(S)
  BY SMT
<1>2. \A k \in 0..Len(q) : SubSeq(q, k + 2, Len(q)) \in Seq(S)
  BY SMT
<1>3. \A k \in 0..Len(q) : k < Len(q) => q[k + 1] \in S
  BY SMT
<1> QED
  BY <1>1, <1>2, <1>3, Zenon

(* A task that ends: what it is told, and that it gives back what it has.  *)
LEMMA CloseKeeps ==
  ASSUME Inv, NEW c \in Conns, NEW how \in {"error", "closed"}, Close(c, how),
         UNCHANGED shared, UNCHANGED consoleVars,
         conn[c].stage # "console" \/ job[c] = NoJob, conn[c].stage # "closed",
         how = "error" => Told(conn[c]) \in Opening \cup {"cleartext", "md5"}
  PROVE  Advances(c)
<1> DEFINE u == Ended(how)
<1>1. /\ settings' = settings /\ conn' = [conn EXCEPT ![c] = u]
      /\ entries' = [d \in DOMAIN entries \ {c} |-> entries[d]]
      /\ warm' = IF conn[c].backend = "warm"
                 THEN [warm EXCEPT ![conn[c].pool] = Append(@, conn[c].capture)] ELSE warm
  BY Zenon DEF Close, shared
<1>2. Good(settings, u)
  BY NewGood, Zenon
<1>3. conn \in [Conns -> Task] /\ u \in Task /\ Good(settings, conn[c])
  BY <1>2, Zenon DEF Inv, TypeOK, Good, TasksFit
<1>u. u.stage = "closed" /\ u.heard = <<how>> /\ u.backend = "none"
  <2>1. NewConn \in Task
    BY NewGood, Zenon DEF Good
  <2>2. u.stage = "closed" /\ u.heard = <<how>> /\ u.backend = NewConn.backend
    BY <2>1, Zenon DEF Ended, Task
  <2> QED
    BY <2>2, Zenon DEF NewConn
<1>4. /\ conn' \in [Conns -> Task] /\ conn'[c] = u
      /\ \A d \in Conns : d # c => conn'[d] = conn[d]
  BY <1>1, <1>3, OneTask, Zenon
<1>w. warm' \in [PoolKeys -> Seq({Whole})]
  <2>1. warm \in [PoolKeys -> Seq({Whole})]
    BY Zenon DEF Inv, TypeOK
  <2>2. CASE conn[c].backend = "warm"
    <3>1. conn[c].pool \in PoolKeys
      <4>1. conn[c].stage \in Backed
        BY <1>3, <2>2, Zenon DEF Good, ServedFits
      <4>2. conn[c].pool # Absent /\ conn[c].pool = Routed(settings, conn[c].db)
        BY <1>3, <2>2, <4>1, Zenon DEF Good, ServedFits, Backed, Early, AtConsole
      <4> QED
        BY <4>2, PoolOfRouted, Zenon
    <3>2. warm[conn[c].pool] \in Seq({Whole})
      BY <2>1, <3>1, Zenon
    <3>3. conn[c].capture \in {Whole}
      BY <1>3, <2>2, Zenon DEF Good, CaptureFits
    <3>4. Append(warm[conn[c].pool], conn[c].capture) \in Seq({Whole})
      BY <3>2, <3>3, PoolSequences, Zenon
    <3> QED
      BY <1>1, <2>1, <2>2, <3>1, <3>4, Zenon
  <2> QED
    BY <1>1, <2>1, <2>2, Zenon
<1>f. Follow(conn[c], conn'[c])
  <2>1. /\ Told(conn[c]) # "closed"
        /\ conn[c].heard \in Heards
    BY <1>3, Zenon DEF Good, HeardFits, Opening, Task, Stages, Early, Backed, AtConsole
  <2>2. Told(conn[c]) \in Messages \cup {"nothing"}
    BY <2>1, LatestMessage, Zenon DEF Told
  <2>3. how \in G!Follows(Told(conn[c]))
    BY <2>1, <2>2, Zenon DEF G!Follows, G!Challenges, Messages, Opening
  <2> QED
    BY <1>4, <1>u, <2>3, Zenon DEF Follow
<1> HIDE DEF u
<1>5. Accepted(settings)' /\ TypeOK' /\ ListsFit' /\ JobsFit' /\ PausesFit'
  BY <1>4, <1>w, ConsoleStays, Zenon
<1>6. TasksFit'
  BY <1>1, <1>2, <1>4, Zenon DEF Inv, TasksFit
<1>7. EntriesFit'
  <2>1. DOMAIN entries' = DOMAIN entries \ {c}
    BY <1>1, Zenon
  <2>2. conn'[c].stage \in Early
    BY <1>4, <1>u, Zenon DEF Early
  <2>3. DOMAIN entries' = {d \in Conns : conn'[d].stage \notin Early}
    BY <1>4, <2>1, <2>2, Zenon DEF Inv, EntriesFit
  <2>4. ASSUME NEW d \in DOMAIN entries'
        PROVE  /\ entries'[d].admin <=> conn'[d].stage \in AtConsole
               /\ entries'[d].database = conn'[d].db
               /\ entries'[d].tls <=> IsEncrypted(d)'
    <3>1. d \in Conns /\ d \in DOMAIN entries /\ d # c
      BY <2>1, <2>4, Zenon DEF Inv, EntriesFit
    <3>2. entries'[d] = entries[d] /\ conn'[d] = conn[d]
      BY <1>1, <1>4, <3>1, Zenon
    <3> QED
      BY <3>1, <3>2, Zenon DEF Inv, EntriesFit, IsEncrypted
  <2> QED
    BY <2>3, <2>4, Zenon DEF EntriesFit
<1>8. Borrows(c)
  <2>1. \A key \in PoolKeys : Lent(key)' \subseteq Lent(key)
    BY <1>4, <1>u, Zenon DEF Lent
  <2> QED
    BY <2>1, Zenon DEF Borrows
<1> QED
  BY <1>1, <1>4, <1>5, <1>6, <1>7, <1>8, <1>f, Zenon DEF Inv, Advances

(* HandleClientConnection: the task is registered and routed.              *)
LEMMA RouteKeeps ==
  ASSUME Inv, NEW c \in Conns, HandleClientConnection(c), UNCHANGED consoleVars
  PROVE  Advances(c)
<1> DEFINE admin == conn[c].db = AdminDatabase
           x == IF admin THEN "admin" ELSE "acquire"
           y == IF admin THEN Absent ELSE PoolOf(conn[c].db)
           u == [conn[c] EXCEPT !.stage = x, !.pool = y]
           e == [user |-> conn[c].user, database |-> conn[c].db, admin |-> admin,
                 tls |-> IsEncrypted(c)]
<1>1. /\ settings' = settings /\ conn' = [conn EXCEPT ![c] = u] /\ warm' = warm
      /\ entries' = [d \in DOMAIN entries \cup {c} |->
                       IF d \in DOMAIN entries THEN entries[d] ELSE e]
      /\ UNCHANGED shared /\ conn[c].stage = "startup"
  BY Zenon DEF HandleClientConnection, shared, At
<1>t. conn \in [Conns -> Task] /\ conn[c] \in Task /\ Good(settings, conn[c])
  BY Zenon DEF Inv, TypeOK, Good, TasksFit
<1>2. x \in Stages /\ y \in Pools
  BY PoolOfRouted, Zenon DEF Stages, AtConsole, Pools
<1>3. u \in Task
  BY <1>t, <1>2, TaskFields, Zenon
<1>u. /\ u.stage = x /\ u.pool = y
      /\ u.heard = conn[c].heard /\ u.transport = conn[c].transport
      /\ u.user = conn[c].user /\ u.db = conn[c].db /\ u.given = conn[c].given
      /\ u.list = conn[c].list /\ u.backend = conn[c].backend /\ u.link = conn[c].link
      /\ u.stream = conn[c].stream /\ u.capture = conn[c].capture
  BY <1>t, Zenon DEF Task
<1>e. e.database = conn[c].db /\ e.admin = admin /\ e.tls = IsEncrypted(c)
  BY Zenon
<1>4. /\ conn' \in [Conns -> Task] /\ conn'[c] = u
      /\ \A d \in Conns : d # c => conn'[d] = conn[d]
  BY <1>1, <1>t, <1>3, OneTask, Zenon
<1>x. /\ u.stage \in {"admin", "acquire"}
      /\ u.stage = "admin" => u.db = AdminDatabase /\ u.pool = Absent
      /\ u.stage = "acquire" => u.db # AdminDatabase /\ u.pool = Routed(settings, u.db)
      /\ u.stage = "admin" <=> e.admin
  <2> HIDE DEF u, e
  <2>1. CASE admin
    <3>1. u.stage = "admin" /\ u.pool = Absent /\ u.db = AdminDatabase
      BY <1>u, <2>1, Zenon
    <3> QED
      BY <1>e, <2>1, <3>1, Zenon
  <2>2. CASE ~admin
    <3>1. u.stage = "acquire" /\ u.pool = PoolOf(conn[c].db)
      BY <1>u, <2>2, Zenon
    <3>2. u.pool = Routed(settings, u.db) /\ u.db # AdminDatabase
      BY <1>u, <2>2, <3>1, PoolOfRouted, Zenon
    <3> QED
      BY <1>e, <2>2, <3>1, <3>2, Zenon
  <2> QED
    BY <2>1, <2>2, Zenon
<1>a. u.stage \in AtConsole <=> e.admin
  BY <1>x, Zenon DEF AtConsole
<1> HIDE DEF u, x, y, e
<1>5. Good(settings, u)
  <2>1. HeardFits(u)
    BY <1>1, <1>t, <1>u, <1>x, Zenon DEF Good, HeardFits, Told
  <2>2. StreamFits(u)
    BY <1>x, Zenon DEF StreamFits
  <2>3. ServedFits(settings, u)
    BY <1>1, <1>t, <1>u, <1>x, Zenon DEF Good, ServedFits, Early, Backed, AtConsole
  <2>4. RightFits(settings, u)
    BY <1>1, <1>t, <1>u, <1>x, Zenon DEF Good, RightFits, Admitted, AtConsole
  <2>5. CaptureFits(u)
    BY <1>1, <1>t, <1>u, <1>x, Zenon DEF Good, CaptureFits
  <2> QED
    BY <1>3, <2>1, <2>2, <2>3, <2>4, <2>5, Zenon DEF Good
<1>f. Follow(conn[c], conn'[c])
  BY <1>4, <1>u, Zenon DEF Follow
<1>6. Accepted(settings)' /\ TypeOK' /\ ListsFit' /\ JobsFit' /\ PausesFit'
  <2>1. warm' \in [PoolKeys -> Seq({Whole})] /\ conn[c].stage # "console"
    BY <1>1, Zenon DEF Inv, TypeOK
  <2> QED
    BY <1>1, <1>4, <2>1, ConsoleStays, Zenon
<1>7. TasksFit'
  BY <1>1, <1>4, <1>5, Zenon DEF Inv, TasksFit
<1>8. EntriesFit'
  <2>1. c \notin DOMAIN entries
    BY <1>1, Zenon DEF Inv, EntriesFit, Early
  <2>2. DOMAIN entries' = DOMAIN entries \cup {c} /\ entries'[c] = e
    BY <1>1, <2>1, Zenon
  <2>3. conn'[c].stage \notin Early
    BY <1>4, <1>x, Zenon DEF Early
  <2>4. DOMAIN entries' = {d \in Conns : conn'[d].stage \notin Early}
    BY <1>4, <2>2, <2>3, Zenon DEF Inv, EntriesFit
  <2>5. ASSUME NEW d \in DOMAIN entries'
        PROVE  /\ entries'[d].admin <=> conn'[d].stage \in AtConsole
               /\ entries'[d].database = conn'[d].db
               /\ entries'[d].tls <=> IsEncrypted(d)'
    <3>1. CASE d = c
      BY <1>4, <1>u, <1>e, <1>a, <2>2, <3>1, Zenon DEF IsEncrypted
    <3>2. CASE d # c
      <4>1. d \in Conns /\ d \in DOMAIN entries
        BY <2>2, <2>5, <3>2, Zenon DEF Inv, EntriesFit
      <4>2. entries'[d] = entries[d] /\ conn'[d] = conn[d]
        BY <1>1, <1>4, <3>2, <4>1, Zenon
      <4> QED
        BY <4>1, <4>2, Zenon DEF Inv, EntriesFit, IsEncrypted
    <3> QED
      BY <3>1, <3>2, Zenon
  <2> QED
    BY <2>4, <2>5, Zenon DEF EntriesFit
<1>9. Borrows(c)
  <2>1. conn'[c].backend = "none"
    BY <1>1, <1>4, <1>t, <1>u, Zenon DEF Good, ServedFits, Backed
  <2>2. \A key \in PoolKeys : Lent(key)' \subseteq Lent(key)
    BY <1>4, <2>1, Zenon DEF Lent
  <2> QED
    BY <2>2, Zenon DEF Borrows
<1> QED
  BY <1>1, <1>4, <1>6, <1>7, <1>8, <1>9, <1>f, Zenon DEF Inv, Advances

(* AcquireGets: a pool with room lends the task a backend, over a link     *)
(* that server_tls_sslmode allows.                                         *)
LEMMA GetsKeeps ==
  ASSUME Inv, NEW c \in Conns, AcquireGets(c), UNCHANGED consoleVars
  PROVE  Advances(c)
<1> DEFINE key == conn[c].pool
<1>1. /\ settings' = settings /\ entries' = entries /\ UNCHANGED shared
      /\ conn[c].stage = "waiting" /\ InUse(key) < PoolSize(key)
  BY Zenon DEF AcquireGets, shared, At
<1>t. conn \in [Conns -> Task] /\ conn[c] \in Task /\ Good(settings, conn[c])
  BY Zenon DEF Inv, TypeOK, Good, TasksFit
<1>k. key \in PoolKeys /\ key # Absent
  <2>1. key # Absent /\ key = Routed(settings, conn[c].db)
    BY <1>1, <1>t, Zenon DEF Good, ServedFits, Early, AtConsole
  <2> QED
    BY <2>1, PoolOfRouted, Zenon
<1>2. PICK k \in 0..Len(warm[key]), link \in NegotiateBackendSsl(settings.server_tls_sslmode) :
        /\ warm' = [warm EXCEPT ![key] = SubSeq(@, k + 2, Len(@))]
        /\ conn' = [conn EXCEPT ![c] =
                      [conn[c] EXCEPT
                         !.stage = "auth", !.link = link,
                         !.backend = IF k < Len(warm[key]) THEN "warm" ELSE "fresh",
                         !.capture = IF k < Len(warm[key]) THEN warm[key][k + 1] ELSE <<>>]]
  BY Zenon DEF AcquireGets
<1>l. link \in Links /\ (RequiresEncryption(settings.server_tls_sslmode) => link = "tls")
  <2>1. settings.server_tls_sslmode \in TlsSslMode
    BY Zenon DEF Inv, Accepted, Deserializes
  <2> QED
    BY <2>1, Zenon DEF NegotiateBackendSsl, TlsSslMode, RequiresEncryption, Links
<1> DEFINE b == IF k < Len(warm[key]) THEN "warm" ELSE "fresh"
           v == IF k < Len(warm[key]) THEN warm[key][k + 1] ELSE <<>>
           u == [conn[c] EXCEPT !.stage = "auth", !.link = link, !.backend = b, !.capture = v]
<1>b. b \in {"warm", "fresh"} /\ b \in Backends /\ "auth" \in Stages
  BY Zenon DEF Backends, Stages, Backed
<1>q. warm \in [PoolKeys -> Seq({Whole})] /\ warm[key] \in Seq({Whole})
  BY <1>k, Zenon DEF Inv, TypeOK
<1>v. /\ b = "warm" => v = Whole
      /\ b = "fresh" => v = <<>>
      /\ v \in Captures
  <2>1. CASE k < Len(warm[key])
    <3>1. warm[key][k + 1] \in {Whole}
      BY <1>q, <2>1, PoolSequences, Zenon
    <3> QED
      BY <2>1, <3>1, Zenon DEF Captures
  <2>2. CASE ~(k < Len(warm[key]))
    BY <2>2, Zenon DEF Captures
  <2> QED
    BY <2>1, <2>2, Zenon
<1>3. u \in Task
  <2> HIDE DEF b, v
  <2> QED
    BY <1>t, <1>b, <1>l, <1>v, TaskFields, Zenon
<1>u. /\ u.stage = "auth" /\ u.link = link /\ u.backend = b /\ u.capture = v
      /\ u.heard = conn[c].heard /\ u.transport = conn[c].transport
      /\ u.user = conn[c].user /\ u.db = conn[c].db /\ u.given = conn[c].given
      /\ u.list = conn[c].list /\ u.pool = conn[c].pool
      /\ u.stream = conn[c].stream
  BY <1>t, Zenon DEF Task
<1>4. /\ conn' \in [Conns -> Task] /\ conn'[c] = u
      /\ \A d \in Conns : d # c => conn'[d] = conn[d]
  BY <1>2, <1>t, <1>3, OneTask, Zenon
<1>w. warm' \in [PoolKeys -> Seq({Whole})]
  <2>1. SubSeq(warm[key], k + 2, Len(warm[key])) \in Seq({Whole})
    BY <1>q, PoolSequences, Zenon
  <2> QED
    BY <1>2, <1>k, <1>q, <2>1, Zenon
<1> HIDE DEF u, b, v, key
<1>5. Good(settings, u)
  <2>1. HeardFits(u)
    BY <1>1, <1>t, <1>u, Zenon DEF Good, HeardFits, Told
  <2>2. StreamFits(u)
    BY <1>u, Zenon DEF StreamFits
  <2>3. ServedFits(settings, u)
    <3>1. /\ u.pool # Absent /\ u.pool = Routed(settings, u.db) /\ u.db # AdminDatabase
      BY <1>1, <1>t, <1>u, Zenon DEF Good, ServedFits, Early, AtConsole
    <3>2. u.backend # "none" /\ u.backend # "direct"
      BY <1>b, <1>u, Zenon
    <3> QED
      BY <1>l, <1>u, <3>1, <3>2, Zenon DEF ServedFits, Early, Backed, AtConsole
  <2>4. RightFits(settings, u)
    BY <1>1, <1>t, <1>u, Zenon DEF Good, RightFits, Admitted, AtConsole
  <2>5. CaptureFits(u)
    BY <1>b, <1>u, <1>v, Zenon DEF CaptureFits
  <2> QED
    BY <1>3, <2>1, <2>2, <2>3, <2>4, <2>5, Zenon DEF Good
<1>f. Follow(conn[c], conn'[c])
  BY <1>4, <1>u, Zenon DEF Follow
<1>6. Accepted(settings)' /\ TypeOK' /\ ListsFit' /\ JobsFit' /\ PausesFit'
  <2>1. conn[c].stage # "console"
    BY <1>1, Zenon
  <2> QED
    BY <1>1, <1>4, <1>w, <2>1, ConsoleStays, Zenon
<1>7. TasksFit'
  BY <1>1, <1>4, <1>5, Zenon DEF Inv, TasksFit
<1>8. EntriesFit'
  <2>1. \A d \in Conns : conn'[d].stage \in Early <=> conn[d].stage \in Early
    BY <1>1, <1>4, <1>u, Zenon DEF Early
  <2>2. DOMAIN entries' = {d \in Conns : conn'[d].stage \notin Early}
    BY <1>1, <2>1, Zenon DEF Inv, EntriesFit
  <2>3. \A d \in Conns : /\ conn'[d].stage \in AtConsole <=> conn[d].stage \in AtConsole
                         /\ conn'[d].db = conn[d].db /\ conn'[d].transport = conn[d].transport
    BY <1>1, <1>4, <1>u, Zenon DEF AtConsole
  <2> QED
    BY <1>1, <2>2, <2>3, Zenon DEF Inv, EntriesFit, IsEncrypted
<1>9. Borrows(c)
  <2> SUFFICES ASSUME NEW pool \in PoolKeys
               PROVE  \/ Lent(pool)' \subseteq Lent(pool)
                      \/ /\ InUse(pool) < PoolSize(pool)
                         /\ Lent(pool)' \subseteq Lent(pool) \cup {c}
    BY Zenon DEF Borrows
  <2>1. CASE pool = key
    <3>1. Lent(pool)' \subseteq Lent(pool) \cup {c}
      BY <1>4, Zenon DEF Lent
    <3> QED
      BY <1>1, <2>1, <3>1, Zenon
  <2>2. CASE pool # key
    <3>1. Lent(pool)' \subseteq Lent(pool)
      BY <1>4, <1>u, <2>2, Zenon DEF Lent, key
    <3> QED
      BY <3>1, Zenon
  <2> QED
    BY <2>1, <2>2, Zenon
<1> QED
  BY <1>1, <1>4, <1>6, <1>7, <1>8, <1>9, <1>f, Zenon DEF Inv, Advances

-----------------------------------------------------------------------------
(* The listeners.                                                          *)
LEMMA SpawnSteps ==
  ASSUME Inv, NEW c \in Conns, SpawnTcp(c) \/ SpawnUnix(c), UNCHANGED consoleVars
  PROVE  Advances(c)
<1>1. /\ Good(settings, conn[c]) /\ authenticator \in MaybeLists
      /\ settings.auth_file # "unset" => authenticator # Absent
  BY Zenon DEF Inv, TasksFit, TypeOK, ListsFit
<1>2. CASE SpawnTcp(c)
  <2> DEFINE u == [conn[c] EXCEPT !.stage = "first", !.list = authenticator]
  <2>1. conn[c].stage = "new" /\ Becomes(c, u) /\ UNCHANGED shared
    BY <1>2, Zenon DEF SpawnTcp, At
  <2>2. Moves(settings, conn[c], u)
    BY <1>1, <2>1, SpawnTcpMoves, Zenon
  <2> QED
    BY <2>1, <2>2, BecomesKeeps, Zenon
<1>3. CASE SpawnUnix(c)
  <2> DEFINE u == [conn[c] EXCEPT !.stage = "startup", !.transport = "unix",
                                  !.list = authenticator]
  <2>1. conn[c].stage = "new" /\ Becomes(c, u) /\ UNCHANGED shared
    BY <1>3, Zenon DEF SpawnUnix, At
  <2>2. Moves(settings, conn[c], u)
    BY <1>1, <2>1, SpawnUnixMoves, Zenon
  <2> QED
    BY <2>1, <2>2, BecomesKeeps, Zenon
<1> QED
  BY <1>2, <1>3, Zenon

(* A StartupMessage is read.                                               *)
LEMMA ReadsSteps ==
  ASSUME Inv, NEW c \in Conns, conn[c].stage \in {"first", "declined", "upgraded"},
         conn[c].stage = "first" => ~RequiresEncryption(settings.client_tls_sslmode),
         Reads(c), UNCHANGED shared, UNCHANGED consoleVars
  PROVE  Advances(c)
<1>1. PICK ask \in Asks[c] :
        Becomes(c, [conn[c] EXCEPT !.stage = "startup", !.user = ask.user, !.db = ask.db])
  BY Zenon DEF Reads
<1>2. ask.user \in Askers
  BY StartupAssumption, Zenon DEF Askers
<1>3. ask.db \in Names
  <2>1. ask \in UNION {Asks[d] : d \in Conns}
    BY Zenon
  <2> QED
    BY <2>1, Zenon DEF Names, AskedNames
<1>4. Good(settings, conn[c])
  BY Zenon DEF Inv, TasksFit
<1>5. Moves(settings, conn[c],
            [conn[c] EXCEPT !.stage = "startup", !.user = ask.user, !.db = ask.db])
  BY <1>2, <1>3, <1>4, ReadsMoves, Zenon
<1> QED
  BY <1>1, <1>5, BecomesKeeps, Zenon

(* A task whose client has not been let in may be closed, loudly or not.   *)
LEMMA ClosesEarly ==
  ASSUME Inv, NEW c \in Conns, NEW how \in {"error", "closed"}, Close(c, how),
         conn[c].stage \in {"first", "declined", "accept", "upgraded", "startup", "acquire",
                            "waiting", "auth", "password", "admin", "admin password"},
         UNCHANGED shared, UNCHANGED consoleVars
  PROVE  Advances(c)
<1>1. Good(settings, conn[c])
  BY Zenon DEF Inv, TasksFit
<1>2. Told(conn[c]) \in Opening \cup {"cleartext", "md5"}
  BY <1>1, Zenon DEF Good, HeardFits, Opening
<1>3. conn[c].stage # "console" /\ conn[c].stage # "closed"
  BY Zenon
<1> QED
  BY <1>2, <1>3, CloseKeeps, Zenon

(* Any task that is not at a prompt may be closed without a word.          *)
LEMMA ClosesQuietly ==
  ASSUME Inv, NEW c \in Conns, Close(c, "closed"),
         conn[c].stage \in {"first", "declined", "upgraded", "auth", "login", "forward", "ready"},
         UNCHANGED shared, UNCHANGED consoleVars
  PROVE  Advances(c)
<1>1. conn[c].stage # "console" /\ conn[c].stage # "closed"
  BY Zenon
<1> QED
  BY <1>1, CloseKeeps, Zenon

(* The TLS negotiation.                                                    *)
LEMMA NegotiateSteps ==
  ASSUME Inv, NEW c \in Conns, Negotiate(c), UNCHANGED consoleVars
  PROVE  Advances(c)
<1>g. Good(settings, conn[c])
  BY Zenon DEF Inv, TasksFit
<1>1. CASE NoSslRequest(c)
  <2>1. conn[c].stage = "first" /\ UNCHANGED shared
    BY <1>1, Zenon DEF NoSslRequest, At
  <2>2. \/ Close(c, "error")
        \/ ~RequiresEncryption(settings.client_tls_sslmode) /\ Reads(c)
    BY <1>1, Zenon DEF NoSslRequest
  <2> QED
    BY <2>1, <2>2, ClosesEarly, ReadsSteps, Zenon
<1>2. CASE SslRequest(c)
  <2>1. conn[c].stage = "first" /\ UNCHANGED shared
    BY <1>2, Zenon DEF SslRequest, At
  <2> DEFINE n == [conn[c] EXCEPT !.stage = "declined", !.heard = @ \o <<"N">>]
             y == [conn[c] EXCEPT !.stage = "accept", !.heard = @ \o <<"S">>]
  <2>2. \/ settings.client_tls_sslmode = "disable" /\ Becomes(c, n)
        \/ settings.client_tls_sslmode # "disable" /\ Becomes(c, y)
    BY <1>2, Zenon DEF SslRequest, ClientTls
  <2>3. CASE settings.client_tls_sslmode = "disable" /\ Becomes(c, n)
    <3>1. Moves(settings, conn[c], n)
      BY <1>g, <2>1, <2>3, DeclinedMoves, Zenon
    <3> QED
      BY <2>1, <2>3, <3>1, BecomesKeeps, Zenon
  <2>4. CASE settings.client_tls_sslmode # "disable" /\ Becomes(c, y)
    <3>1. Moves(settings, conn[c], y)
      BY <1>g, <2>1, <2>4, AcceptMoves, Zenon
    <3> QED
      BY <2>1, <2>4, <3>1, BecomesKeeps, Zenon
  <2> QED
    BY <2>2, <2>3, <2>4, Zenon
<1>3. CASE ReadDeclined(c)
  <2>1. conn[c].stage = "declined" /\ UNCHANGED shared /\ Reads(c)
    BY <1>3, Zenon DEF ReadDeclined, At
  <2> QED
    BY <2>1, ReadsSteps, Zenon
<1>4. CASE TlsAccept(c)
  <2> DEFINE how == IF Verifies(settings.client_tls_sslmode) THEN "verified" ELSE "tls"
             u == [conn[c] EXCEPT !.stage = "upgraded", !.transport = how]
  <2>1. /\ conn[c].stage = "accept" /\ UNCHANGED shared
        /\ Becomes(c, u) \/ Close(c, "closed")
    BY <1>4, Zenon DEF TlsAccept, At
  <2>2. CASE Becomes(c, u)
    <3>1. how \in {"tls", "verified"}
      BY Zenon
    <3>2. Moves(settings, conn[c], u)
      BY <1>g, <2>1, <3>1, UpgradedMoves, Zenon
    <3> QED
      BY <2>1, <2>2, <3>2, BecomesKeeps, Zenon
  <2>3. CASE Close(c, "closed")
    BY <2>1, <2>3, ClosesEarly, Zenon
  <2> QED
    BY <2>1, <2>2, <2>3, Zenon
<1>5. CASE ReadUpgraded(c)
  <2>1. conn[c].stage = "upgraded" /\ UNCHANGED shared /\ Reads(c)
    BY <1>5, Zenon DEF ReadUpgraded, At
  <2> QED
    BY <2>1, ReadsSteps, Zenon
<1> QED
  BY <1>1, <1>2, <1>3, <1>4, <1>5, Zenon DEF Negotiate

(* The backend.                                                            *)
LEMMA AcquireSteps ==
  ASSUME Inv, NEW c \in Conns, Acquire(c), UNCHANGED consoleVars
  PROVE  Advances(c)
<1>g. Good(settings, conn[c])
  BY Zenon DEF Inv, TasksFit
<1>1. CASE AcquireStarts(c)
  <2> DEFINE u == [conn[c] EXCEPT !.stage = "waiting"]
  <2>1. /\ conn[c].stage = "acquire" /\ conn[c].pool # Absent /\ UNCHANGED shared
        /\ Becomes(c, u) \/ Close(c, "error")
    BY <1>1, Zenon DEF AcquireStarts, At
  <2>2. Moves(settings, conn[c], u)
    BY <1>g, <2>1, WaitingMoves, Zenon
  <2> QED
    BY <2>1, <2>2, BecomesKeeps, ClosesEarly, Zenon
<1>2. CASE AcquireGets(c)
  BY <1>2, GetsKeeps, Zenon
<1>3. CASE AcquireFails(c)
  <2>1. /\ conn[c].stage = "waiting" /\ UNCHANGED shared
        /\ \E how \in {"error", "closed"} : Close(c, how)
    BY <1>3, Zenon DEF AcquireFails, At
  <2> QED
    BY <2>1, ClosesEarly, Zenon
<1>4. CASE ConnectDirect(c)
  <2> DEFINE u == [conn[c] EXCEPT !.stage = "auth", !.backend = "direct", !.link = "plain"]
  <2>1. /\ conn[c].stage = "acquire" /\ conn[c].pool = Absent /\ UNCHANGED shared
        /\ Becomes(c, u) \/ Close(c, "closed")
    BY <1>4, Zenon DEF ConnectDirect, At
  <2>2. Moves(settings, conn[c], u)
    BY <1>g, <2>1, DirectMoves, Zenon
  <2> QED
    BY <2>1, <2>2, BecomesKeeps, ClosesEarly, Zenon
<1> QED
  BY <1>1, <1>2, <1>3, <1>4, Zenon DEF Acquire

(* What a userlist holds for a user of it.                                 *)
LEMMA PlainEntry ==
  ASSUME NEW list \in UserLists, NEW u, HasUser(list, u), GetPassword(list, u) # Absent
  PROVE  list[u] = [kind |-> "Plain", of |-> GetPassword(list, u)]
<1>1. PICK U \in SUBSET Users : list \in [U -> PasswordEntry]
  BY Zenon DEF UserLists
<1>2. list[u] \in PasswordEntry
  BY <1>1, Zenon DEF HasUser
<1>3. list[u].kind = "Plain" /\ GetPassword(list, u) = list[u].of
  BY Zenon DEF GetPassword, AsPlain
<1> QED
  BY <1>2, <1>3, SMT DEF PasswordEntry

(* A task is let in that has the right to be.                              *)
LEMMA AdmitSteps ==
  ASSUME Inv, NEW c \in Conns, conn[c].stage \in {"auth", "password"},
         NEW v \in Task, Allowed(settings, v),
         v.stage = conn[c].stage, v.heard = conn[c].heard, v.transport = conn[c].transport,
         v.user = conn[c].user, v.db = conn[c].db, v.list = conn[c].list,
         v.pool = conn[c].pool, v.backend = conn[c].backend, v.link = conn[c].link,
         v.stream = conn[c].stream, v.capture = conn[c].capture,
         Admit(c, v), UNCHANGED shared, UNCHANGED consoleVars
  PROVE  Advances(c)
<1>1. Good(settings, conn[c])
  BY Zenon DEF Inv, TasksFit
<1>2. /\ v.backend = "direct" => Moves(settings, conn[c], AdmitDirect(v))
      /\ v.backend = "fresh" => Moves(settings, conn[c], AdmitFresh(v))
      /\ v.backend = "warm" => Moves(settings, conn[c], AdmitWarm(v))
  BY <1>1, AdmitMoves, Zenon
<1>3. v.backend \in {"direct", "fresh", "warm"}
  <2>1. v.backend # "none"
    BY <1>1, Zenon DEF Good, ServedFits, Backed
  <2>2. v.backend \in Backends
    BY Zenon DEF Task
  <2> QED
    BY <2>1, <2>2, Zenon DEF Backends
<1>4. CASE v.backend = "direct"
  <2>1. Becomes(c, AdmitDirect(v))
    BY <1>4, Zenon DEF Admit
  <2> QED
    BY <1>2, <1>4, <2>1, BecomesKeeps, Zenon
<1>5. CASE v.backend = "fresh"
  <2>1. Becomes(c, AdmitFresh(v))
    BY <1>5, Zenon DEF Admit
  <2> QED
    BY <1>2, <1>5, <2>1, BecomesKeeps, Zenon
<1>6. CASE v.backend = "warm"
  <2>1. Becomes(c, AdmitWarm(v))
    BY <1>6, Zenon DEF Admit
  <2> QED
    BY <1>2, <1>6, <2>1, BecomesKeeps, Zenon
<1> QED
  BY <1>3, <1>4, <1>5, <1>6, Zenon

(* Client authentication, up to the password.                              *)
LEMMA AuthenticateSteps ==
  ASSUME Inv, NEW c \in Conns, ReadUnix(c) \/ Authenticate(c), UNCHANGED consoleVars
  PROVE  Advances(c)
<1>g. Good(settings, conn[c]) /\ conn[c] \in Task
  BY Zenon DEF Inv, TasksFit, Good
<1>1. CASE ReadUnix(c)
  <2>1. PICK u \in Users : Becomes(c, [conn[c] EXCEPT !.user = u])
    BY <1>1, Zenon DEF ReadUnix
  <2>2. conn[c].stage = "auth" /\ UNCHANGED shared
    BY <1>1, Zenon DEF ReadUnix, At
  <2>3. Moves(settings, conn[c], [conn[c] EXCEPT !.user = u])
    BY <1>g, <2>2, ReadUnixMoves, Zenon
  <2> QED
    BY <2>1, <2>2, <2>3, BecomesKeeps, Zenon
<1>2. CASE Authenticate(c)
  <2>1. conn[c].stage = "auth" /\ UNCHANGED shared
    BY <1>2, Zenon DEF Authenticate, At
  <2>2. \/ Close(c, "closed")
        \/ settings.auth_type = "trust" /\ Admit(c, conn[c])
        \/ settings.auth_type = "md5" /\ AuthenticateMd5(c)
        \/ settings.auth_type = "cert" /\ HasVerifiedPeerCert(c) /\ Admit(c, conn[c])
    BY <1>2, Zenon DEF Authenticate
  <2>3. CASE Close(c, "closed")
    BY <2>1, <2>3, ClosesEarly, Zenon
  <2>4. CASE settings.auth_type = "trust" /\ Admit(c, conn[c])
    <3>1. Allowed(settings, conn[c])
      BY <2>4, Zenon DEF Allowed
    <3> QED
      BY <1>g, <2>1, <2>4, <3>1, AdmitSteps, Zenon
  <2>5. CASE settings.auth_type = "cert" /\ HasVerifiedPeerCert(c) /\ Admit(c, conn[c])
    <3>1. Allowed(settings, conn[c])
      BY <2>5, Zenon DEF Allowed, HasVerifiedPeerCert
    <3> QED
      BY <1>g, <2>1, <2>5, <3>1, AdmitSteps, Zenon
  <2>6. CASE settings.auth_type = "md5" /\ AuthenticateMd5(c)
    <3> DEFINE u == [conn[c] EXCEPT !.stage = "password", !.heard = @ \o <<"md5">>]
    <3>1. \/ Close(c, "closed") \/ Close(c, "error")
          \/ conn[c].list # Absent /\ HasUser(conn[c].list, conn[c].user) /\ Becomes(c, u)
      BY <2>6, Zenon DEF AuthenticateMd5
    <3>2. CASE Close(c, "closed") \/ Close(c, "error")
      BY <2>1, <3>2, ClosesEarly, Zenon
    <3>3. CASE conn[c].list # Absent /\ HasUser(conn[c].list, conn[c].user) /\ Becomes(c, u)
      <4>1. Moves(settings, conn[c], u)
        BY <1>g, <2>1, <2>6, <3>3, PasswordMoves, Zenon
      <4> QED
        BY <2>1, <3>3, <4>1, BecomesKeeps, Zenon
    <3> QED
      BY <3>1, <3>2, <3>3, Zenon
  <2> QED
    BY <2>2, <2>3, <2>4, <2>5, <2>6, Zenon
<1> QED
  BY <1>1, <1>2, Zenon

(* The password: only one that is stored in the clear, and is right.       *)
LEMMA ReadPasswordSteps ==
  ASSUME Inv, NEW c \in Conns, ReadPassword(c), UNCHANGED consoleVars
  PROVE  Advances(c)
<1> DEFINE u == conn[c].user
           stored == GetPassword(conn[c].list, u)
<1>g. Good(settings, conn[c]) /\ conn[c] \in Task
  BY Zenon DEF Inv, TasksFit, Good
<1>1. conn[c].stage = "password" /\ UNCHANGED shared
  BY Zenon DEF ReadPassword, At
<1>2. \/ Close(c, "closed") \/ Close(c, "error")
      \/ \E p \in Passwords : /\ stored # Absent /\ Md5Response(p, u) = Md5Response(stored, u)
                              /\ Admit(c, [conn[c] EXCEPT !.given = p])
  BY Zenon DEF ReadPassword
<1>3. CASE Close(c, "closed") \/ Close(c, "error")
  BY <1>1, <1>3, ClosesEarly, Zenon
<1>4. ASSUME NEW p \in Passwords, stored # Absent, Md5Response(p, u) = Md5Response(stored, u),
             Admit(c, [conn[c] EXCEPT !.given = p])
      PROVE  Advances(c)
  <2> DEFINE v == [conn[c] EXCEPT !.given = p]
  <2>1. v \in Task
    BY <1>g, TaskFields, Zenon DEF Givens
  <2>2. /\ v.given = p /\ v.stage = conn[c].stage /\ v.heard = conn[c].heard
        /\ v.transport = conn[c].transport /\ v.user = conn[c].user /\ v.db = conn[c].db
        /\ v.list = conn[c].list /\ v.pool = conn[c].pool /\ v.backend = conn[c].backend
        /\ v.link = conn[c].link /\ v.stream = conn[c].stream
        /\ v.capture = conn[c].capture
    BY <1>g, Zenon DEF Task
  <2>3. p = stored
    BY <1>4 DEF Md5Response
  <2>4. /\ settings.auth_type = "md5" /\ conn[c].list # Absent /\ HasUser(conn[c].list, u)
    BY <1>g, <1>1, Zenon DEF Good, RightFits
  <2>5. conn[c].list \in UserLists
    BY <1>g, <2>4, Zenon DEF Task, MaybeLists
  <2>6. conn[c].list[u] = [kind |-> "Plain", of |-> p]
    <3>1. conn[c].list[u] = [kind |-> "Plain", of |-> stored]
      BY <1>4, <2>4, <2>5, PlainEntry, Zenon
    <3> QED
      BY <2>3, <3>1, Zenon
  <2>7. Admit(c, v)
    BY <1>4, Zenon
  <2> HIDE DEF v
  <2>8. Allowed(settings, v)
    BY <2>2, <2>4, <2>6, Zenon DEF Allowed
  <2> QED
    BY <1>1, <2>1, <2>2, <2>7, <2>8, AdmitSteps, Zenon
<1> QED
  BY <1>2, <1>3, <1>4, Zenon

(* What a server may send while it is logged in to.                        *)
LEMMA ServerSteps ==
  ASSUME Inv, NEW c \in Conns, Server(c), UNCHANGED consoleVars
  PROVE  Advances(c)
<1>g. Good(settings, conn[c]) /\ conn[c] \in Task
  BY Zenon DEF Inv, TasksFit, Good
<1>1. CASE ServerAnswers(c)
  <2>1. conn[c].stage = "login" /\ UNCHANGED shared
    BY <1>1, Zenon DEF ServerAnswers, At
  <2>2. PICK msgs : /\ Sends(c, msgs)
                    /\ \/ msgs = <<"error">> \/ msgs \in Login
                       \/ msgs \in {<<"cleartext">>, <<"md5">>, <<"sasl">>, <<"gss">>}
                       \/ msgs = <<"continue">>
                       \/ msgs = <<"final", "ok", "params", "ready">>
                       \/ msgs = <<"final", "ok", "error">>
    BY <1>1, Zenon DEF ServerAnswers
  <2>4. msgs \in Streams
    BY <2>2, Zenon DEF Streams, Login
  <2> DEFINE to == IF msgs[Len(msgs)] = "error" THEN "gone"
                   ELSE IF msgs[Len(msgs)] = "ready" THEN "up" ELSE "waiting"
  <2>5. to \in Servers
    BY Zenon DEF Servers
  <2>6. Becomes(c, [conn[c] EXCEPT !.stream = msgs, !.server = to])
    BY <2>2, Zenon DEF Sends
  <2> HIDE DEF to
  <2>7. Moves(settings, conn[c], [conn[c] EXCEPT !.stream = msgs, !.server = to])
    BY <1>g, <2>1, <2>4, <2>5, LoginMoves, Zenon
  <2> QED
    BY <2>1, <2>6, <2>7, BecomesKeeps, Zenon
<1>2. CASE ServerGone(c)
  <2> DEFINE u == [conn[c] EXCEPT !.server = "gone"]
  <2>1. conn[c].stage = "login" /\ UNCHANGED shared /\ Becomes(c, u)
    BY <1>2, Zenon DEF ServerGone, At
  <2>2. Moves(settings, conn[c], u)
    BY <1>g, <2>1, GoneMoves, Zenon
  <2> QED
    BY <2>1, <2>2, BecomesKeeps, Zenon
<1> QED
  BY <1>1, <1>2, Zenon DEF Server

(* A read of the server's stream after AuthenticationOk.                   *)
LEMMA ReadSteps ==
  ASSUME Inv, NEW c \in Conns, NEW n \in 0..Len(conn[c].stream), NEW inside \in BOOLEAN,
         Forward(c, n, inside) \/ Capture(c, n, inside), UNCHANGED consoleVars
  PROVE  Advances(c)
<1> DEFINE t == conn[c]
           m == SubSeq(t.stream, n + 1, Len(t.stream))
<1>g. Good(settings, t) /\ t \in Task
  BY Zenon DEF Inv, TasksFit, Good
<1>1. t.stage = "forward" /\ UNCHANGED shared
  BY Zenon DEF Forward, Capture, At
<1>2. t.stream \in Afters \cup {<<"ready">>, <<>>}
  BY <1>g, <1>1, Zenon DEF Good, StreamFits
<1> DEFINE more == SubSeq(t.stream, 1, n)
           d == t.cut /\ \E i \in 1..n : t.stream[i] = "ready"
<1>3. \/ n = 0 /\ m = t.stream /\ more = <<>>
      \/ /\ t.stream = <<"params", "ready">> /\ m = <<"ready">> /\ more = <<"params">>
         /\ \A i \in 1..n : t.stream[i] # "ready"
      \/ m = <<>> /\ more = t.stream /\ t.stream \in {<<"params", "ready">>, <<"ready">>}
      \/ /\ m = <<>> /\ more = t.stream /\ t.stream = <<"error">>
         /\ \A i \in 1..n : t.stream[i] # "ready"
  BY <1>2, StreamRest, Zenon
<1>d. d \in BOOLEAN
  <2>1. t.cut \in BOOLEAN
    BY <1>g, Zenon DEF Task
  <2> QED
    BY <2>1, Zenon
<1>r. ContainsReadyForQuery(c, n) => \E i \in 1..n : t.stream[i] = "ready"
  BY Zenon DEF ContainsReadyForQuery
<1>n. n = 0 => ~ContainsReadyForQuery(c, n)
  BY <1>r
<1>t. ASSUME NEW y PROVE Takes(t, m, more, IF ContainsReadyForQuery(c, n) THEN y ELSE "forward", y)
  <2> DEFINE x == IF ContainsReadyForQuery(c, n) THEN y ELSE "forward"
  <2>1. x \in {"forward", y} /\ (~ContainsReadyForQuery(c, n) => x = "forward")
    BY Zenon
  <2> HIDE DEF x, m, more
  <2>2. Takes(t, m, more, x, y)
    BY <1>3, <1>r, <1>n, <2>1, Zenon DEF Takes, Whole
  <2> QED
    BY <2>2, Zenon DEF x
<1>4. CASE Forward(c, n, inside)
  <2> DEFINE x == IF ContainsReadyForQuery(c, n) THEN "ready" ELSE "forward"
             u == [[t EXCEPT !.stream = m, !.cut = inside, !.blind = d] EXCEPT
                     !.stage = x, !.heard = @ \o more]
  <2>1. t.backend = "direct" /\ Becomes(c, u)
    BY <1>4, Zenon DEF Forward, Consumed
  <2>2. Takes(t, m, more, x, "ready")
    BY <1>t, Zenon
  <2> HIDE DEF x, m, more, d
  <2>3. Moves(settings, t, u)
    BY <1>g, <1>1, <1>d, <2>1, <2>2, ForwardMoves, Zenon
  <2> QED
    BY <1>1, <2>1, <2>3, BecomesKeeps, Zenon
<1>5. CASE Capture(c, n, inside)
  <2> DEFINE x == IF ContainsReadyForQuery(c, n) THEN "greet" ELSE "forward"
             u == [[t EXCEPT !.stream = m, !.cut = inside, !.blind = d] EXCEPT
                     !.stage = x, !.capture = @ \o more]
  <2>1. t.backend = "fresh" /\ Becomes(c, u)
    BY <1>5, Zenon DEF Capture, Consumed
  <2>2. Takes(t, m, more, x, "greet")
    BY <1>t, Zenon
  <2> HIDE DEF x, m, more, d
  <2>3. Moves(settings, t, u)
    BY <1>g, <1>1, <1>d, <2>1, <2>2, CaptureMoves, Zenon
  <2> QED
    BY <1>1, <2>1, <2>3, BecomesKeeps, Zenon
<1> QED
  BY <1>4, <1>5, Zenon

(* The login to the server and the first ReadyForQuery.                    *)
LEMMA LogInSteps ==
  ASSUME Inv, NEW c \in Conns, LogIn(c), UNCHANGED consoleVars
  PROVE  Advances(c)
<1> DEFINE t == conn[c]
<1>g. Good(settings, t) /\ t \in Task
  BY Zenon DEF Inv, TasksFit, Good
<1>1. CASE BackendAuthenticate(c)
  <2>1. /\ t.stage = "login" /\ UNCHANGED shared
        /\ t.stream # <<>> /\ Head(t.stream) \in AuthRequests
    BY <1>1, Zenon DEF BackendAuthenticate, At, TryParseAuth
  <2>2. t.stream \in Streams /\ t.server \in Servers
    BY <1>g, Zenon DEF Task
  <2> DEFINE r == Tail(t.stream)
             h == IF t.backend = "direct" THEN t.heard \o <<"ok">> ELSE t.heard
             f == [t EXCEPT !.stage = "forward", !.stream = r, !.heard = h]
  <2>3. r \in Streams /\ (Head(t.stream) = "ok" => r \in Afters)
    BY <2>1, <2>2, StreamTail, Zenon
  <2>4. \/ Head(t.stream) = "ok" /\ Becomes(c, f)
        \/ Becomes(c, [t EXCEPT !.stream = r, !.server = "password"])
        \/ Becomes(c, [t EXCEPT !.stream = r, !.server = "sasl initial"])
        \/ Becomes(c, [t EXCEPT !.stream = r, !.server = "sasl response"])
        \/ Becomes(c, [t EXCEPT !.stream = r, !.server = t.server])
    BY <1>1, Zenon DEF BackendAuthenticate, LogsIn
  <2> HIDE DEF r
  <2>5. CASE Head(t.stream) = "ok" /\ Becomes(c, f)
    <3>1. Moves(settings, t, f)
      BY <1>g, <2>1, <2>3, <2>5, AuthOkMoves, Zenon
    <3> QED
      BY <2>1, <2>5, <3>1, BecomesKeeps, Zenon
  <2>6. ASSUME NEW to \in Servers, Becomes(c, [t EXCEPT !.stream = r, !.server = to])
        PROVE  Advances(c)
    <3>1. Moves(settings, t, [t EXCEPT !.stream = r, !.server = to])
      BY <1>g, <2>1, <2>3, LoginMoves, Zenon
    <3> QED
      BY <2>1, <2>6, <3>1, BecomesKeeps, Zenon
  <2>7. "password" \in Servers /\ "sasl initial" \in Servers /\ "sasl response" \in Servers
    BY Zenon DEF Servers
  <2> QED
    BY <2>2, <2>4, <2>5, <2>6, <2>7, Zenon
<1>2. CASE ScramFails(c)
  <2>1. t.stage = "login" /\ UNCHANGED shared /\ Close(c, "closed")
    BY <1>2, Zenon DEF ScramFails, At
  <2> QED
    BY <2>1, ClosesQuietly, Zenon
<1>3. CASE BackendCloses(c)
  <2>1. t.stage \in {"login", "forward"} /\ UNCHANGED shared /\ Close(c, "closed")
    BY <1>3, Zenon DEF BackendCloses
  <2> QED
    BY <2>1, ClosesQuietly, Zenon
<1>4. CASE Greet(c)
  <2> DEFINE u == [t EXCEPT !.stage = "ready", !.heard = @ \o t.capture, !.backend = "warm",
                            !.server = "none", !.stream = <<>>, !.cut = FALSE]
  <2>1. t.stage = "greet" /\ UNCHANGED shared /\ Becomes(c, u)
    BY <1>4, Zenon DEF Greet, At
  <2>2. Moves(settings, t, u)
    BY <1>g, <2>1, GreetMoves, Zenon
  <2> QED
    BY <2>1, <2>2, BecomesKeeps, Zenon
<1>5. CASE Replay(c)
  <2> DEFINE u == [t EXCEPT !.stage = "ready", !.heard = @ \o t.capture]
  <2>1. t.stage = "replay" /\ UNCHANGED shared /\ Becomes(c, u)
    BY <1>5, Zenon DEF Replay, At
  <2>2. Moves(settings, t, u)
    BY <1>g, <2>1, ReplayMoves, Zenon
  <2> QED
    BY <2>1, <2>2, BecomesKeeps, Zenon
<1>6. CASE \E n \in 0..Len(conn[c].stream), inside \in BOOLEAN :
             Forward(c, n, inside) \/ Capture(c, n, inside)
  BY <1>6, ReadSteps, Zenon
<1> QED
  BY <1>1, <1>2, <1>3, <1>4, <1>5, <1>6, Zenon DEF LogIn

(* The console's login.                                                    *)
LEMMA AdminSteps ==
  ASSUME Inv, NEW c \in Conns, AdminLogin(c) \/ AdminPassword(c) \/ AdminGreet(c),
         UNCHANGED consoleVars
  PROVE  Advances(c)
<1> DEFINE t == conn[c]
<1>g. Good(settings, t) /\ t \in Task
  BY Zenon DEF Inv, TasksFit, Good
<1>1. CASE AdminLogin(c)
  <2> DEFINE u == [t EXCEPT !.stage = "admin password", !.heard = @ \o <<"cleartext">>]
  <2>1. /\ t.stage = "admin" /\ UNCHANGED shared
        /\ Close(c, "error") \/ (settings.admin_enabled /\ Becomes(c, u))
    BY <1>1, Zenon DEF AdminLogin, At
  <2>2. CASE Close(c, "error")
    BY <2>1, <2>2, ClosesEarly, Zenon
  <2>3. CASE settings.admin_enabled /\ Becomes(c, u)
    <3>1. Moves(settings, t, u)
      BY <1>g, <2>1, <2>3, AdminLoginMoves, Zenon
    <3> QED
      BY <2>1, <2>3, <3>1, BecomesKeeps, Zenon
  <2> QED
    BY <2>1, <2>2, <2>3, Zenon
<1>2. CASE AdminPassword(c)
  <2>1. t.stage = "admin password" /\ UNCHANGED shared
    BY <1>2, Zenon DEF AdminPassword, At
  <2>2. PICK p \in Passwords \cup {Absent} :
          IF p = settings.admin_password
          THEN Becomes(c, [t EXCEPT !.stage = "admin greet", !.heard = @ \o <<"ok">>, !.given = p])
          ELSE Close(c, "error")
    BY <1>2, Zenon DEF AdminPassword
  <2>3. CASE p # settings.admin_password
    BY <2>1, <2>2, <2>3, ClosesEarly, Zenon
  <2>4. CASE p = settings.admin_password
    <3>1. p \in Givens
      BY Zenon DEF Givens
    <3>2. Moves(settings, t, [t EXCEPT !.stage = "admin greet", !.heard = @ \o <<"ok">>, !.given = p])
      BY <1>g, <2>1, <2>4, <3>1, AdminPasswordMoves, Zenon
    <3>3. Becomes(c, [t EXCEPT !.stage = "admin greet", !.heard = @ \o <<"ok">>, !.given = p])
      BY <2>2, <2>4, Zenon
    <3> QED
      BY <2>1, <3>2, <3>3, BecomesKeeps, Zenon
  <2> QED
    BY <2>3, <2>4, Zenon
<1>3. CASE AdminGreet(c)
  <2> DEFINE u == [t EXCEPT !.stage = "console", !.heard = @ \o <<"ready">>]
  <2>1. t.stage = "admin greet" /\ UNCHANGED shared /\ Becomes(c, u)
    BY <1>3, Zenon DEF AdminGreet, At
  <2>2. Moves(settings, t, u)
    BY <1>g, <2>1, AdminGreetMoves, Zenon
  <2> QED
    BY <2>1, <2>2, BecomesKeeps, Zenon
<1> QED
  BY <1>1, <1>2, <1>3, Zenon

(* Every step of a connection's task, of its client and of its server.     *)
LEMMA StartupSteps ==
  ASSUME Inv, NEW c \in Conns, StartupNext(c), UNCHANGED consoleVars
  PROVE  Advances(c)
<1>1. CASE SpawnTcp(c) \/ SpawnUnix(c)
  BY <1>1, SpawnSteps, Zenon
<1>2. CASE StartUp(c)
  BY <1>2, NegotiateSteps, RouteKeeps, AcquireSteps, AuthenticateSteps, ReadPasswordSteps,
     LogInSteps, AdminSteps, Zenon DEF StartUp
<1>3. CASE Server(c)
  BY <1>3, ServerSteps, Zenon
<1>4. CASE ClientLeaves(c)
  <2>1. /\ conn[c].stage \in {"first", "declined", "upgraded", "auth"}
        /\ UNCHANGED shared /\ Close(c, "closed")
    BY <1>4, Zenon DEF ClientLeaves, At
  <2> QED
    BY <2>1, ClosesQuietly, Zenon
<1>5. CASE SessionEnds(c)
  <2>1. conn[c].stage = "ready" /\ UNCHANGED shared /\ Close(c, "closed")
    BY <1>5, Zenon DEF SessionEnds, At
  <2> QED
    BY <2>1, ClosesQuietly, Zenon
<1> QED
  BY <1>1, <1>2, <1>3, <1>4, <1>5, Zenon DEF StartupNext

-----------------------------------------------------------------------------
(* What is said of the tasks and the registry stays with them.             *)
LEMMA TasksStay ==
  ASSUME Inv, UNCHANGED <<settings, conn, entries, warm>>
  PROVE  /\ Accepted(settings)' /\ TasksFit' /\ EntriesFit'
         /\ conn' \in [Conns -> Task] /\ warm' \in [PoolKeys' -> Seq({Whole})]
<1>1. settings' = settings /\ conn' = conn /\ entries' = entries /\ warm' = warm
  BY Zenon
<1>2. PoolKeys' = PoolKeys
  BY <1>1, PoolsStay, Zenon
<1>3. Accepted(settings)' /\ TasksFit' /\ EntriesFit'
  BY <1>1, Zenon DEF Inv, TasksFit, EntriesFit, IsEncrypted
<1>4. conn' \in [Conns -> Task] /\ warm' \in [PoolKeys' -> Seq({Whole})]
  BY <1>1, <1>2, Zenon DEF Inv, TypeOK
<1> QED
  BY <1>3, <1>4, Zenon

(* The rows: the default backend's, and one per configured database.       *)
LEMMA Rows ==
  /\ \A e \in DatabaseEntries :
       \/ /\ e.name = DefaultName /\ e.pool_key = Star
          /\ e.configured_pool_size = settings.pool_size
       \/ /\ e.name \in Databases /\ e.pool_key = e.name
          /\ e.configured_pool_size = IF SizeOverride[e.name] = Absent THEN settings.pool_size
                                      ELSE SizeOverride[e.name]
  /\ \E e \in DatabaseEntries : e.name = DefaultName /\ e.pool_key = Star
  /\ \A db \in Databases : \E e \in DatabaseEntries : e.name = db /\ e.pool_key = db
<1> DEFINE Size(db) == IF SizeOverride[db] = Absent THEN settings.pool_size ELSE SizeOverride[db]
           Row(db) == [name |-> db, pool_key |-> db, configured_pool_size |-> Size(db)]
           default == [name |-> DefaultName, pool_key |-> Star,
                       configured_pool_size |-> settings.pool_size]
<1>1. DatabaseEntries = {default} \cup {Row(db) : db \in Databases}
  BY Zenon DEF DatabaseEntries
<1>2. /\ default.name = DefaultName /\ default.pool_key = Star
      /\ default.configured_pool_size = settings.pool_size
  BY Zenon
<1>3. ASSUME NEW db
      PROVE  /\ Row(db).name = db /\ Row(db).pool_key = db
             /\ Row(db).configured_pool_size = Size(db)
  BY Zenon
<1> HIDE DEF Size, Row, default
<1>5. ASSUME NEW e \in DatabaseEntries, e # default
      PROVE  /\ e.name \in Databases /\ e.pool_key = e.name
             /\ e.configured_pool_size = Size(e.name)
  <2>1. PICK db \in Databases : e = Row(db)
    BY <1>1, <1>5, Zenon
  <2>2. e.name = db /\ e.pool_key = db /\ e.configured_pool_size = Size(db)
    BY <1>3, <2>1, Zenon
  <2> QED
    BY <2>2, Zenon
<1>6. default \in DatabaseEntries /\ \A db \in Databases : Row(db) \in DatabaseEntries
  BY <1>1, Zenon
<1> QED
  BY <1>2, <1>3, <1>5, <1>6, Zenon DEF Size

(* The name of an operator's command resolves to the pool that its clients *)
(* are routed to, or to none.                                              *)
LEMMA Resolves ==
  ASSUME NEW name, ResolvePoolManager(name) # Absent
  PROVE  ResolvePoolManager(name) \in PoolKeys /\ PoolOf(name) = ResolvePoolManager(name)
<1>1. CASE name \in PoolKeys
  BY <1>1, Zenon DEF ResolvePoolManager, PoolOf
<1>2. CASE name \notin PoolKeys
  <2> DEFINE Named(e) == e.name = name /\ e.pool_key \in PoolKeys
             f == CHOOSE e \in DatabaseEntries : Named(e)
  <2>1. /\ \E e \in DatabaseEntries : Named(e)
        /\ ResolvePoolManager(name) = f.pool_key
    BY <1>2, Zenon DEF ResolvePoolManager
  <2>2. f \in DatabaseEntries /\ f.name = name /\ f.pool_key \in PoolKeys
    BY <2>1, Zenon
  <2> HIDE DEF f
  <2>3. f.pool_key = Star \/ f.pool_key = f.name
    BY <2>2, Rows, Zenon
  <2>4. f.pool_key = Star
    BY <1>2, <2>2, <2>3, Zenon
  <2> QED
    BY <1>2, <2>1, <2>2, <2>4, Zenon DEF PoolOf
<1> QED
  BY <1>1, <1>2, Zenon

(* No command, and a command that is one field away from another.          *)
LEMMA JobFields ==
  /\ NoJob \in Jobs
  /\ NoJob.cmd = "none" /\ NoJob.left = {} /\ NoJob.read = Absent /\ NoJob.holds = {}
  /\ \A j \in Jobs :
       /\ \A v \in Commands : [j EXCEPT !.cmd = v] \in Jobs
       /\ \A v \in SUBSET PoolKeys : [j EXCEPT !.left = v] \in Jobs
       /\ \A v \in MaybeLists : [j EXCEPT !.read = v] \in Jobs
<1>1. NoJob \in Jobs
  <2>1. "none" \in Commands /\ Absent \in MaybeLists
    BY Zenon DEF Commands, MaybeLists
  <2> QED
    BY <2>1 DEF NoJob, Jobs
<1>2. NoJob.cmd = "none" /\ NoJob.left = {} /\ NoJob.read = Absent /\ NoJob.holds = {}
  BY Zenon DEF NoJob
<1>3. ASSUME NEW j \in Jobs
      PROVE  /\ \A v \in Commands : [j EXCEPT !.cmd = v] \in Jobs
             /\ \A v \in SUBSET PoolKeys : [j EXCEPT !.left = v] \in Jobs
             /\ \A v \in MaybeLists : [j EXCEPT !.read = v] \in Jobs
  <2>1. \A v \in Commands : [j EXCEPT !.cmd = v] \in Jobs
    BY SMT DEF Jobs
  <2>2. \A v \in SUBSET PoolKeys : [j EXCEPT !.left = v] \in Jobs
    BY SMT DEF Jobs
  <2>3. \A v \in MaybeLists : [j EXCEPT !.read = v] \in Jobs
    BY SMT DEF Jobs
  <2> QED
    BY <2>1, <2>2, <2>3, Zenon
<1> QED
  BY <1>1, <1>2, <1>3, Zenon

(* A command that is to hold other names is the same otherwise.            *)
LEMMA JobHolds ==
  ASSUME NEW j \in Jobs, NEW v \in SUBSET Holdable
  PROVE  /\ [j EXCEPT !.holds = v] \in Jobs
         /\ [j EXCEPT !.holds = v].cmd = j.cmd
         /\ [j EXCEPT !.holds = v].left = j.left
         /\ [j EXCEPT !.holds = v].read = j.read
         /\ [j EXCEPT !.holds = v].holds = v
         /\ j.holds = v => [j EXCEPT !.holds = v] = j
BY SMT DEF Jobs

(* PAUSE db.                                                               *)
LEMMA PauseNamedStep ==
  ASSUME Inv, NEW c \in Conns, NEW name, PauseNamed(c, name)
  PROVE  Rests
<1> DEFINE key == ResolvePoolManager(name)
<1>1. /\ settings' = settings /\ entries' = entries /\ warm' = warm
      /\ authenticator' = authenticator /\ userlist' = userlist /\ job' = job
      /\ conn[c].stage = "console"
  BY Zenon DEF PauseNamed, AtPrompt, At
<1>2. conn' = conn
  BY Zenon DEF PauseNamed
<1>3. /\ Accepted(settings)' /\ TasksFit' /\ EntriesFit'
      /\ conn' \in [Conns -> Task] /\ warm' \in [PoolKeys' -> Seq({Whole})]
  BY <1>1, <1>2, TasksStay, Zenon
<1>4. PoolKeys' = PoolKeys /\ Jobs' = Jobs /\ \A db : PoolOf(db)' = PoolOf(db)
  BY <1>1, PoolsStay, Zenon
<1>5. ListsFit' /\ JobsFit'
  BY <1>1, <1>2, Zenon DEF Inv, ListsFit, JobsFit
<1>6. accepting \in [PoolKeys -> BOOLEAN]
  BY Zenon DEF Inv, TypeOK
<1>7. /\ accepting' \in [PoolKeys -> BOOLEAN]
      /\ \A k \in PoolKeys : ~accepting[k] => ~accepting'[k]
      /\ paused' \in {paused, paused \cup {name}}
      /\ name \in paused' \ paused =>
           NoneResuming /\ key \in PoolKeys /\ PoolOf(name) = key /\ ~accepting'[key]
  <2>1. CASE key = Absent
    <3>1. accepting' = accepting /\ paused' = paused
      BY <2>1, Zenon DEF PauseNamed
    <3> QED
      BY <1>6, <3>1, Zenon
  <2>2. CASE key # Absent
    <3>1. /\ accepting' = [accepting EXCEPT ![key] = FALSE]
          /\ paused' = IF NoneResuming THEN paused \cup {name} ELSE paused
      BY <2>2, Zenon DEF PauseNamed
    <3>2. key \in PoolKeys /\ PoolOf(name) = key
      BY <2>2, Resolves, Zenon
    <3>3. accepting' \in [PoolKeys -> BOOLEAN] /\ ~accepting'[key]
      BY <1>6, <3>1, <3>2, Zenon
    <3>4. \A k \in PoolKeys : ~accepting[k] => ~accepting'[k]
      BY <1>6, <3>1, <3>2, Zenon
    <3> HIDE DEF key
    <3> QED
      BY <3>1, <3>2, <3>3, <3>4, Zenon
  <2> QED
    BY <2>1, <2>2, Zenon
<1>8. TypeOK'
  BY <1>1, <1>3, <1>4, <1>7, Zenon DEF Inv, TypeOK
<1>9. PausesFit'
  <2>1. \A n \in paused' : PoolOf(n)' \in PoolKeys' /\ ~accepting'[PoolOf(n)']
    BY <1>4, <1>7, Zenon DEF Inv, PausesFit
  <2>2. \A p \in Reloaders : \A n \in job'[p].holds :
          /\ job'[p].cmd = "PAUSE"
          /\ PoolOf(n)' \notin job'[p].left => ~accepting'[PoolOf(n)']
    <3>1. \A p \in Reloaders : \A n \in job[p].holds : PoolOf(n) \in PoolKeys
      <4>1. \A p \in Reloaders : job[p].holds \subseteq Holdable
        BY Zenon DEF Inv, TypeOK, Jobs
      <4> QED
        BY <4>1, PoolOfRouted, Zenon DEF Holdable
    <3> QED
      BY <1>1, <1>4, <1>7, <3>1, Zenon DEF Inv, PausesFit
  <2>3. ~NoneResuming' => paused' = {} /\ \A p \in Reloaders : job'[p].holds = {}
    <3>1. NoneResuming' <=> NoneResuming
      BY <1>1, Zenon DEF NoneResuming
    <3>2. ~NoneResuming => paused' = paused
      BY <1>7, Zenon
    <3> QED
      BY <1>1, <3>1, <3>2, Zenon DEF Inv, PausesFit
  <2> QED
    BY <2>1, <2>2, <2>3, Zenon DEF PausesFit
<1> QED
  BY <1>1, <1>2, <1>3, <1>5, <1>8, <1>9, Zenon DEF Inv, Rests

(* A console command leaves the tasks alone: what it changes must fit.     *)
LEMMA CommandKeeps ==
  ASSUME Inv, settings' = settings, conn' = conn, entries' = entries, warm' = warm,
         accepting' \in [PoolKeys -> BOOLEAN], authenticator' \in MaybeLists,
         userlist' \in MaybeLists \cup {Malformed}, job' \in [Reloaders -> Jobs],
         ListsFit', JobsFit', PausesFit'
  PROVE  Inv'
<1>1. /\ Accepted(settings)' /\ TasksFit' /\ EntriesFit'
      /\ conn' \in [Conns -> Task] /\ warm' \in [PoolKeys' -> Seq({Whole})]
  BY TasksStay, Zenon
<1>2. PoolKeys' = PoolKeys /\ Jobs' = Jobs
  BY PoolsStay, Zenon
<1>3. TypeOK'
  BY <1>1, <1>2, Zenon DEF TypeOK
<1> QED
  BY <1>1, <1>3, Zenon DEF Inv

(* The pools are as accepting as before, and nothing starts to hold.       *)
LEMMA PausesStay ==
  ASSUME Inv, settings' = settings, accepting' = accepting, paused' = paused,
         \A p \in Reloaders :
           \/ /\ job'[p].cmd = job[p].cmd /\ job'[p].left = job[p].left
              /\ job'[p].holds = job[p].holds
           \/ job'[p].cmd \in {"none", "RELOAD"} /\ job[p].cmd \in {"none", "RELOAD"}
              /\ job'[p].holds = {}
  PROVE  PausesFit'
<1>1. \A db : PoolOf(db)' = PoolOf(db)
  BY PoolsStay, Zenon
<1>2. PoolKeys' = PoolKeys
  BY PoolsStay, Zenon
<1>3. \A n \in paused' : PoolOf(n)' \in PoolKeys' /\ ~accepting'[PoolOf(n)']
  BY <1>1, <1>2, Zenon DEF Inv, PausesFit
<1>4. \A p \in Reloaders : \A n \in job'[p].holds :
        /\ job'[p].cmd = "PAUSE"
        /\ PoolOf(n)' \notin job'[p].left => ~accepting'[PoolOf(n)']
  BY <1>1, Zenon DEF Inv, PausesFit
<1>5. NoneResuming' <=> NoneResuming
  BY Zenon DEF NoneResuming
<1>6. ~NoneResuming => paused' = {} /\ \A p \in Reloaders : job'[p].holds = {}
  BY Zenon DEF Inv, PausesFit
<1> QED
  BY <1>3, <1>4, <1>5, <1>6, Zenon DEF PausesFit

(* RESUME db.                                                              *)
LEMMA ResumeNamedStep ==
  ASSUME Inv, NEW c \in Conns, NEW name, ResumeNamed(c, name)
  PROVE  Rests
<1> DEFINE key == ResolvePoolManager(name)
           Rest(p) == {n \in job[p].holds : PoolOf(n) # key}
<1>1. /\ settings' = settings /\ entries' = entries /\ warm' = warm
      /\ authenticator' = authenticator /\ userlist' = userlist
      /\ conn[c].stage = "console"
  BY Zenon DEF ResumeNamed, AtPrompt, At
<1>2. conn' = conn
  BY Zenon DEF ResumeNamed
<1>3. /\ accepting \in [PoolKeys -> BOOLEAN] /\ job \in [Reloaders -> Jobs]
      /\ authenticator' \in MaybeLists /\ userlist' \in MaybeLists \cup {Malformed}
  BY <1>1, Zenon DEF Inv, TypeOK
<1>4. CASE key = Absent
  <2>1. accepting' = accepting /\ paused' = paused /\ job' = job
    BY <1>4, Zenon DEF ResumeNamed
  <2>2. PausesFit'
    BY <1>1, <2>1, PausesStay, Zenon
  <2>3. ListsFit' /\ JobsFit'
    BY <1>1, <1>2, <2>1, Zenon DEF Inv, ListsFit, JobsFit
  <2> QED
    BY <1>1, <1>2, <1>3, <2>1, <2>2, <2>3, CommandKeeps, Zenon DEF Rests
<1>5. CASE key # Absent
  <2>1. /\ accepting' = [accepting EXCEPT ![key] = TRUE]
        /\ paused' = {n \in paused : PoolOf(n) # key}
        /\ job' = [p \in Reloaders |-> [job[p] EXCEPT !.holds = Rest(p)]]
    BY <1>5, Zenon DEF ResumeNamed
  <2>2. key \in PoolKeys
    BY <1>5, Resolves, Zenon
  <2> HIDE DEF key
  <2>3. /\ accepting' \in [PoolKeys -> BOOLEAN]
        /\ \A k \in PoolKeys : k # key => accepting'[k] = accepting[k]
    BY <1>3, <2>1, <2>2, Zenon
  <2>4. ASSUME NEW p \in Reloaders
        PROVE  /\ job[p] \in Jobs /\ Rest(p) \in SUBSET Holdable
               /\ job'[p] = [job[p] EXCEPT !.holds = Rest(p)]
    <3>1. job[p] \in Jobs
      BY <1>3, Zenon
    <3>2. job[p].holds \in SUBSET Holdable
      BY <3>1, Zenon DEF Jobs
    <3> QED
      BY <2>1, <3>1, <3>2, Zenon
  <2> HIDE DEF Rest
  <2>5. \A p \in Reloaders :
          /\ job'[p] \in Jobs /\ job'[p].cmd = job[p].cmd /\ job'[p].left = job[p].left
          /\ job'[p].read = job[p].read /\ job'[p].holds = Rest(p)
          /\ job[p].holds = Rest(p) => job'[p] = job[p]
    <3> SUFFICES ASSUME NEW p \in Reloaders
                 PROVE  /\ job'[p] \in Jobs /\ job'[p].cmd = job[p].cmd
                        /\ job'[p].left = job[p].left /\ job'[p].read = job[p].read
                        /\ job'[p].holds = Rest(p)
                        /\ job[p].holds = Rest(p) => job'[p] = job[p]
      BY Zenon
    <3>1. /\ job[p] \in Jobs /\ Rest(p) \in SUBSET Holdable
          /\ job'[p] = [job[p] EXCEPT !.holds = Rest(p)]
      BY <2>4, Zenon
    <3>2. /\ [job[p] EXCEPT !.holds = Rest(p)] \in Jobs
          /\ [job[p] EXCEPT !.holds = Rest(p)].cmd = job[p].cmd
          /\ [job[p] EXCEPT !.holds = Rest(p)].left = job[p].left
          /\ [job[p] EXCEPT !.holds = Rest(p)].read = job[p].read
          /\ [job[p] EXCEPT !.holds = Rest(p)].holds = Rest(p)
          /\ job[p].holds = Rest(p) => [job[p] EXCEPT !.holds = Rest(p)] = job[p]
      BY <3>1, JobHolds, SMT
    <3> QED
      BY <3>1, <3>2, SMT
  <2> USE DEF Rest
  <2>6. job' \in [Reloaders -> Jobs]
    BY <2>1, <2>5, Zenon
  <2>7. ListsFit'
    BY <1>1, <2>5, Zenon DEF Inv, ListsFit
  <2>8. JobsFit'
    <3>1. \A d \in Conns : job'[d].cmd # "none" => conn'[d].stage = "console"
      BY <1>2, <2>5, Zenon DEF Inv, JobsFit, Reloaders
    <3>2. \A p \in Reloaders : job'[p].cmd = "none" => job'[p] = NoJob
      BY <2>5, JobFields, Zenon DEF Inv, JobsFit
    <3>3. \A p \in Reloaders : job'[p].cmd = "RELOAD" => job'[p].left = {} /\ job'[p].holds = {}
      BY <2>5, Zenon DEF Inv, JobsFit
    <3> QED
      BY <3>1, <3>2, <3>3, Zenon DEF JobsFit
  <2>9. PausesFit'
    <3>1. PoolKeys' = PoolKeys /\ \A db : PoolOf(db)' = PoolOf(db)
      BY <1>1, PoolsStay, Zenon
    <3>2. \A n \in paused' : PoolOf(n)' \in PoolKeys' /\ ~accepting'[PoolOf(n)']
      BY <2>1, <2>3, <3>1, Zenon DEF Inv, PausesFit
    <3>3. \A p \in Reloaders : \A n \in job[p].holds : PoolOf(n) \in PoolKeys
      BY <1>3, PoolOfRouted, Zenon DEF Jobs, Holdable
    <3>4. \A p \in Reloaders : \A n \in job'[p].holds :
            /\ job'[p].cmd = "PAUSE"
            /\ PoolOf(n)' \notin job'[p].left => ~accepting'[PoolOf(n)']
      BY <2>3, <2>5, <3>1, <3>3, Zenon DEF Inv, PausesFit
    <3>5. NoneResuming' <=> NoneResuming
      BY <2>5, Zenon DEF NoneResuming
    <3>6. ~NoneResuming => paused' = {} /\ \A p \in Reloaders : job'[p].holds = {}
      BY <2>1, <2>5, Zenon DEF Inv, PausesFit
    <3> QED
      BY <3>2, <3>4, <3>5, <3>6, Zenon DEF PausesFit
  <2> QED
    BY <1>1, <1>2, <1>3, <2>3, <2>6, <2>7, <2>8, <2>9, CommandKeeps, Zenon DEF Rests
<1> QED
  BY <1>4, <1>5, Zenon

(* A bare RESUME begins.                                                   *)
LEMMA ResumeAllStep ==
  ASSUME Inv, NEW c \in Conns, AllPools(c, "RESUME")
  PROVE  Rests
<1>1. /\ settings' = settings /\ conn' = conn /\ entries' = entries /\ warm' = warm
      /\ accepting' = accepting /\ authenticator' = authenticator /\ userlist' = userlist
      /\ conn[c].stage = "console" /\ paused' = {}
      /\ job' = [p \in Reloaders |->
                   IF p = c THEN [NoJob EXCEPT !.cmd = "RESUME", !.left = PoolKeys]
                   ELSE [job[p] EXCEPT !.holds = {}]]
  BY Zenon DEF AllPools, Walk, AtPrompt, At, startupVars
<1>2. /\ accepting \in [PoolKeys -> BOOLEAN] /\ job \in [Reloaders -> Jobs]
      /\ authenticator \in MaybeLists /\ userlist \in MaybeLists \cup {Malformed}
  BY Zenon DEF Inv, TypeOK
<1>3. /\ c \in Reloaders /\ "RESUME" \in Commands /\ PoolKeys \in SUBSET PoolKeys
      /\ {} \in SUBSET Holdable /\ Absent \in MaybeLists
  BY Zenon DEF Reloaders, Commands, MaybeLists
<1> DEFINE j == [NoJob EXCEPT !.cmd = "RESUME", !.left = PoolKeys]
<1>4. /\ j \in Jobs /\ j.cmd = "RESUME" /\ j.left = PoolKeys /\ j.holds = {}
  <2>1. NoJob \in Jobs /\ NoJob.holds = {}
    BY JobFields, Zenon
  <2>2. j \in Jobs
    BY <1>3, <2>1, JobFields, JobHolds, Zenon
  <2>3. j.cmd = "RESUME" /\ j.left = PoolKeys /\ j.holds = {}
    BY <2>1, Zenon DEF Jobs
  <2> QED
    BY <2>2, <2>3, Zenon
<1>5. job'[c] = j
  BY <1>1, <1>3, Zenon
<1> HIDE DEF j
<1>6. ASSUME NEW p \in Reloaders, p # c
      PROVE  /\ job'[p] \in Jobs /\ job'[p].cmd = job[p].cmd /\ job'[p].left = job[p].left
             /\ job'[p].read = job[p].read /\ job'[p].holds = {}
             /\ job[p].holds = {} => job'[p] = job[p]
  <2>1. job'[p] = [job[p] EXCEPT !.holds = {}] /\ job[p] \in Jobs
    BY <1>1, <1>2, <1>6, Zenon
  <2>2. /\ [job[p] EXCEPT !.holds = {}] \in Jobs
        /\ [job[p] EXCEPT !.holds = {}].cmd = job[p].cmd
        /\ [job[p] EXCEPT !.holds = {}].left = job[p].left
        /\ [job[p] EXCEPT !.holds = {}].read = job[p].read
        /\ [job[p] EXCEPT !.holds = {}].holds = {}
        /\ job[p].holds = {} => [job[p] EXCEPT !.holds = {}] = job[p]
    BY <2>1, SMT DEF Jobs
  <2> QED
    BY <2>1, <2>2, SMT
<1>7. job' \in [Reloaders -> Jobs]
  <2>1. \A p \in Reloaders : job'[p] \in Jobs
    BY <1>4, <1>5, <1>6, Zenon
  <2> QED
    BY <1>1, <2>1, Zenon
<1>8. ListsFit'
  <2>1. \A p \in Reloaders : job'[p].cmd = "RELOAD" => job[p].cmd = "RELOAD" /\ job'[p].read = job[p].read
    BY <1>4, <1>5, <1>6, Zenon
  <2> QED
    BY <1>1, <2>1, Zenon DEF Inv, ListsFit
<1>9. JobsFit'
  <2>1. \A d \in Conns : job'[d].cmd # "none" => conn'[d].stage = "console"
    BY <1>1, <1>6, Zenon DEF Inv, JobsFit, Reloaders
  <2>2. \A p \in Reloaders : job'[p].cmd = "none" => job'[p] = NoJob
    BY <1>4, <1>5, <1>6, JobFields, Zenon DEF Inv, JobsFit
  <2>3. \A p \in Reloaders : job'[p].cmd = "RELOAD" => job'[p].left = {} /\ job'[p].holds = {}
    BY <1>4, <1>5, <1>6, Zenon DEF Inv, JobsFit
  <2> QED
    BY <2>1, <2>2, <2>3, Zenon DEF JobsFit
<1>10. PausesFit'
  BY <1>1, <1>4, <1>5, <1>6, Zenon DEF PausesFit
<1> QED
  BY <1>1, <1>2, <1>7, <1>8, <1>9, <1>10, CommandKeeps, Zenon DEF Rests

(* A bare PAUSE begins.                                                    *)
LEMMA PauseAllStep ==
  ASSUME Inv, NEW c \in Conns, AllPools(c, "PAUSE")
  PROVE  Rests
<1> DEFINE names == IF NoneResuming THEN Holdable ELSE {}
<1>1. /\ settings' = settings /\ conn' = conn /\ entries' = entries /\ warm' = warm
      /\ accepting' = accepting /\ authenticator' = authenticator /\ userlist' = userlist
      /\ conn[c].stage = "console" /\ paused' = paused /\ job[c] = NoJob
      /\ job' = [job EXCEPT ![c] =
                   [NoJob EXCEPT !.cmd = "PAUSE", !.left = PoolKeys, !.holds = names]]
  BY Zenon DEF AllPools, Walk, AtPrompt, At, startupVars
<1>2. /\ accepting \in [PoolKeys -> BOOLEAN] /\ job \in [Reloaders -> Jobs]
      /\ authenticator \in MaybeLists /\ userlist \in MaybeLists \cup {Malformed}
  BY Zenon DEF Inv, TypeOK
<1>3. /\ c \in Reloaders /\ "PAUSE" \in Commands /\ PoolKeys \in SUBSET PoolKeys
      /\ names \in SUBSET Holdable /\ Absent \in MaybeLists
  BY Zenon DEF Reloaders, Commands, MaybeLists
<1>n. ~NoneResuming => names = {}
  BY Zenon
<1> HIDE DEF names
<1> DEFINE j == [NoJob EXCEPT !.cmd = "PAUSE", !.left = PoolKeys, !.holds = names]
<1>4. /\ j \in Jobs /\ j.cmd = "PAUSE" /\ j.left = PoolKeys /\ j.holds = names
  <2>1. NoJob \in Jobs /\ NoJob.holds = {}
    BY JobFields, Zenon
  <2>2. j \in Jobs
    BY <1>3, <2>1, JobFields, JobHolds, Zenon
  <2>3. j.cmd = "PAUSE" /\ j.left = PoolKeys /\ j.holds = names
    BY <2>1, Zenon DEF Jobs
  <2> QED
    BY <2>2, <2>3, Zenon
<1>5. job' = [job EXCEPT ![c] = j]
  BY <1>1, Zenon
<1> HIDE DEF j
<1>6. /\ job' \in [Reloaders -> Jobs] /\ job'[c] = j
      /\ \A p \in Reloaders : p # c => job'[p] = job[p]
  BY <1>2, <1>3, <1>4, <1>5, Zenon
<1>7. ListsFit'
  BY <1>1, <1>4, <1>6, Zenon DEF Inv, ListsFit
<1>8. JobsFit'
  <2>1. \A d \in Conns : job'[d].cmd # "none" => conn'[d].stage = "console"
    BY <1>1, <1>6, Zenon DEF Inv, JobsFit, Reloaders
  <2>2. \A p \in Reloaders : job'[p].cmd = "none" => job'[p] = NoJob
    BY <1>4, <1>6, Zenon DEF Inv, JobsFit
  <2>3. \A p \in Reloaders : job'[p].cmd = "RELOAD" => job'[p].left = {} /\ job'[p].holds = {}
    BY <1>4, <1>6, Zenon DEF Inv, JobsFit
  <2> QED
    BY <2>1, <2>2, <2>3, Zenon DEF JobsFit
<1>9. PausesFit'
  <2>1. PoolKeys' = PoolKeys /\ \A db : PoolOf(db)' = PoolOf(db)
    BY <1>1, PoolsStay, Zenon
  <2>2. \A n \in paused' : PoolOf(n)' \in PoolKeys' /\ ~accepting'[PoolOf(n)']
    BY <1>1, <2>1, Zenon DEF Inv, PausesFit
  <2>3. \A n \in names : PoolOf(n) \in PoolKeys
    BY <1>3, PoolOfRouted, Zenon DEF Holdable
  <2>4. \A p \in Reloaders : \A n \in job'[p].holds :
          /\ job'[p].cmd = "PAUSE"
          /\ PoolOf(n)' \notin job'[p].left => ~accepting'[PoolOf(n)']
    BY <1>1, <1>4, <1>6, <2>1, <2>3, Zenon DEF Inv, PausesFit
  <2>5. NoneResuming' <=> NoneResuming
    BY <1>1, <1>3, <1>4, <1>6, JobFields, Zenon DEF NoneResuming
  <2>6. ~NoneResuming => paused' = {} /\ \A p \in Reloaders : job'[p].holds = {}
    BY <1>n, <1>1, <1>4, <1>6, Zenon DEF Inv, PausesFit
  <2> QED
    BY <2>2, <2>4, <2>5, <2>6, Zenon DEF PausesFit
<1> QED
  BY <1>1, <1>2, <1>6, <1>7, <1>8, <1>9, CommandKeeps, Zenon DEF Rests

(* A bare PAUSE or RESUME visits a pool.                                   *)
LEMMA EachPoolStep ==
  ASSUME Inv, NEW c \in Conns, EachPool(c)
  PROVE  Rests
<1>1. /\ settings' = settings /\ conn' = conn /\ entries' = entries /\ warm' = warm
      /\ authenticator' = authenticator /\ userlist' = userlist /\ paused' = paused
  BY Zenon DEF EachPool
<1>2. PICK key \in job[c].left :
        /\ accepting' = [accepting EXCEPT ![key] = job[c].cmd = "RESUME"]
        /\ job' = [job EXCEPT ![c].left = @ \ {key}]
  BY Zenon DEF EachPool
<1>3. /\ accepting \in [PoolKeys -> BOOLEAN] /\ job \in [Reloaders -> Jobs]
      /\ authenticator \in MaybeLists /\ userlist \in MaybeLists \cup {Malformed}
      /\ c \in Reloaders /\ job[c] \in Jobs
  BY Zenon DEF Inv, TypeOK, Reloaders
<1>4. job[c].left \in SUBSET PoolKeys /\ key \in PoolKeys
  BY <1>3, Zenon DEF Jobs
<1> DEFINE rest == job[c].left \ {key}
           j == [job[c] EXCEPT !.left = rest]
<1>5. /\ j \in Jobs /\ j.cmd = job[c].cmd /\ j.left = rest
      /\ j.read = job[c].read /\ j.holds = job[c].holds
  <2>1. rest \in SUBSET PoolKeys
    BY <1>4, Zenon
  <2> HIDE DEF rest
  <2>2. j \in Jobs
    BY <1>3, <2>1, JobFields, Zenon
  <2>3. j.cmd = job[c].cmd /\ j.left = rest /\ j.read = job[c].read /\ j.holds = job[c].holds
    BY <1>3, Zenon DEF Jobs
  <2> QED
    BY <2>2, <2>3, Zenon
<1>6. job' = [job EXCEPT ![c] = j]
  BY <1>2, <1>3, Zenon
<1> HIDE DEF j
<1>7. /\ job' \in [Reloaders -> Jobs] /\ job'[c] = j
      /\ \A p \in Reloaders : p # c => job'[p] = job[p]
  BY <1>3, <1>5, <1>6, Zenon
<1>8. /\ accepting' \in [PoolKeys -> BOOLEAN]
      /\ accepting'[key] = (job[c].cmd = "RESUME")
      /\ \A k \in PoolKeys : k # key => accepting'[k] = accepting[k]
  BY <1>2, <1>3, <1>4, Zenon
<1>9. \A p \in Reloaders :
        /\ job'[p].cmd = job[p].cmd /\ job'[p].read = job[p].read
        /\ job'[p].holds = job[p].holds
  BY <1>5, <1>7, Zenon
<1>10. job[c].cmd # "none" /\ job[c].cmd # "RELOAD"
  <2>1. NoJob.left = {}
    BY JobFields, Zenon
  <2> QED
    BY <1>2, <1>3, <2>1, Zenon DEF Inv, JobsFit
<1>11. ListsFit'
  BY <1>1, <1>9, Zenon DEF Inv, ListsFit
<1>12. JobsFit'
  <2>1. \A d \in Conns : job'[d].cmd # "none" => conn'[d].stage = "console"
    BY <1>1, <1>9, Zenon DEF Inv, JobsFit, Reloaders
  <2>2. \A p \in Reloaders : job'[p].cmd = "none" => job'[p] = NoJob
    BY <1>5, <1>7, <1>10, Zenon DEF Inv, JobsFit
  <2>3. \A p \in Reloaders : job'[p].cmd = "RELOAD" => job'[p].left = {} /\ job'[p].holds = {}
    BY <1>5, <1>7, <1>10, Zenon DEF Inv, JobsFit
  <2> QED
    BY <2>1, <2>2, <2>3, Zenon DEF JobsFit
<1>13. PausesFit'
  <2>1. PoolKeys' = PoolKeys /\ \A db : PoolOf(db)' = PoolOf(db)
    BY <1>1, PoolsStay, Zenon
  <2>2. job[c].cmd = "RESUME" => paused = {} /\ \A p \in Reloaders : job[p].holds = {}
    BY <1>3, Zenon DEF Inv, PausesFit, NoneResuming
  <2>3. \A n \in paused' : PoolOf(n)' \in PoolKeys' /\ ~accepting'[PoolOf(n)']
    BY <1>1, <1>8, <2>1, <2>2, Zenon DEF Inv, PausesFit
  <2>4. \A p \in Reloaders : \A n \in job[p].holds : PoolOf(n) \in PoolKeys
    BY <1>3, PoolOfRouted, Zenon DEF Jobs, Holdable
  <2>5. \A p \in Reloaders : \A n \in job[p].holds :
          PoolOf(n) \notin job'[p].left => PoolOf(n) = key \/ PoolOf(n) \notin job[p].left
    BY <1>5, <1>7, Zenon
  <2>6. \A p \in Reloaders : \A n \in job'[p].holds :
          /\ job'[p].cmd = "PAUSE"
          /\ PoolOf(n)' \notin job'[p].left => ~accepting'[PoolOf(n)']
    <3> SUFFICES ASSUME NEW p \in Reloaders, NEW n \in job[p].holds
                 PROVE  /\ job[p].cmd = "PAUSE"
                        /\ PoolOf(n) \notin job'[p].left => ~accepting'[PoolOf(n)]
      BY <1>9, <2>1, Zenon
    <3>1. job[p].cmd = "PAUSE" /\ (PoolOf(n) \notin job[p].left => ~accepting[PoolOf(n)])
      BY Zenon DEF Inv, PausesFit
    <3>2. ~accepting'[key]
      BY <1>8, <2>2, Zenon
    <3> QED
      BY <1>8, <2>4, <2>5, <3>1, <3>2, Zenon
  <2>7. NoneResuming' <=> NoneResuming
    BY <1>9, Zenon DEF NoneResuming
  <2>8. ~NoneResuming => paused' = {} /\ \A p \in Reloaders : job'[p].holds = {}
    BY <1>1, <1>9, Zenon DEF Inv, PausesFit
  <2> QED
    BY <2>3, <2>6, <2>7, <2>8, Zenon DEF PausesFit
<1> QED
  BY <1>1, <1>3, <1>7, <1>8, <1>11, <1>12, <1>13, CommandKeeps, Zenon DEF Rests

(* A bare PAUSE or RESUME is done: what it holds is paused.                *)
LEMMA AllPoolsDoneStep ==
  ASSUME Inv, NEW c \in Conns, AllPoolsDone(c)
  PROVE  Rests
<1>1. /\ settings' = settings /\ entries' = entries /\ warm' = warm /\ accepting' = accepting
      /\ authenticator' = authenticator /\ userlist' = userlist
      /\ job' = [job EXCEPT ![c] = NoJob] /\ paused' = paused \cup job[c].holds
      /\ job[c].cmd # "none" /\ job[c].left = {}
  BY Zenon DEF AllPoolsDone, startupVars
<1>2. conn' = conn
  BY Zenon DEF AllPoolsDone, startupVars
<1>3. /\ accepting \in [PoolKeys -> BOOLEAN] /\ job \in [Reloaders -> Jobs]
      /\ authenticator \in MaybeLists /\ userlist \in MaybeLists \cup {Malformed}
      /\ c \in Reloaders /\ job[c] \in Jobs
  BY Zenon DEF Inv, TypeOK, Reloaders
<1>4. NoJob \in Jobs /\ NoJob.cmd = "none" /\ NoJob.left = {} /\ NoJob.holds = {}
  BY JobFields, Zenon
<1>5. /\ job' \in [Reloaders -> Jobs] /\ job'[c] = NoJob
      /\ \A p \in Reloaders : p # c => job'[p] = job[p]
  BY <1>1, <1>3, <1>4, Zenon
<1>6. ListsFit'
  BY <1>1, <1>4, <1>5, Zenon DEF Inv, ListsFit
<1>7. JobsFit'
  <2>1. \A d \in Conns : job'[d].cmd # "none" => conn'[d].stage = "console"
    BY <1>2, <1>4, <1>5, Zenon DEF Inv, JobsFit, Reloaders
  <2>2. \A p \in Reloaders : job'[p].cmd = "none" => job'[p] = NoJob
    BY <1>5, Zenon DEF Inv, JobsFit
  <2>3. \A p \in Reloaders : job'[p].cmd = "RELOAD" => job'[p].left = {} /\ job'[p].holds = {}
    BY <1>4, <1>5, Zenon DEF Inv, JobsFit
  <2> QED
    BY <2>1, <2>2, <2>3, Zenon DEF JobsFit
<1>8. PausesFit'
  <2>1. PoolKeys' = PoolKeys /\ \A db : PoolOf(db)' = PoolOf(db)
    BY <1>1, PoolsStay, Zenon
  <2>2. \A n \in job[c].holds : PoolOf(n) \in PoolKeys /\ ~accepting[PoolOf(n)]
    <3>1. \A n \in job[c].holds : PoolOf(n) \in PoolKeys
      BY <1>3, PoolOfRouted, Zenon DEF Jobs, Holdable
    <3> QED
      BY <1>1, <1>3, <3>1, Zenon DEF Inv, PausesFit
  <2>3. \A n \in paused' : PoolOf(n)' \in PoolKeys' /\ ~accepting'[PoolOf(n)']
    BY <1>1, <2>1, <2>2, Zenon DEF Inv, PausesFit
  <2>4. \A p \in Reloaders : \A n \in job'[p].holds :
          /\ job'[p].cmd = "PAUSE"
          /\ PoolOf(n)' \notin job'[p].left => ~accepting'[PoolOf(n)']
    BY <1>1, <1>4, <1>5, <2>1, Zenon DEF Inv, PausesFit
  <2>5. ~NoneResuming' => ~NoneResuming
    BY <1>4, <1>5, Zenon DEF NoneResuming
  <2>6. ~NoneResuming => paused' = {} /\ \A p \in Reloaders : job'[p].holds = {}
    BY <1>1, <1>3, <1>4, <1>5, Zenon DEF Inv, PausesFit
  <2> QED
    BY <2>3, <2>4, <2>5, <2>6, Zenon DEF PausesFit
<1> QED
  BY <1>1, <1>2, <1>3, <1>5, <1>6, <1>7, <1>8, CommandKeeps, Zenon DEF Rests

(* A reload has read the file.                                             *)
LEMMA ReloadReadsStep ==
  ASSUME Inv, NEW p \in Reloaders, ReloadReads(p)
  PROVE  Rests
<1>1. /\ settings' = settings /\ conn' = conn /\ entries' = entries /\ warm' = warm
      /\ accepting' = accepting /\ authenticator' = authenticator /\ userlist' = userlist
      /\ paused' = paused /\ job[p] = NoJob
      /\ p \in Conns => conn[p].stage = "console"
      /\ settings.auth_file # "unset" /\ userlist # Malformed
      /\ job' = [job EXCEPT ![p] = [NoJob EXCEPT !.cmd = "RELOAD", !.read = userlist]]
  BY Zenon DEF ReloadReads, AtPrompt, At, startupVars
<1>2. /\ accepting \in [PoolKeys -> BOOLEAN] /\ job \in [Reloaders -> Jobs]
      /\ authenticator \in MaybeLists /\ userlist \in MaybeLists \cup {Malformed}
  BY Zenon DEF Inv, TypeOK
<1>3. userlist \in MaybeLists /\ userlist # Absent /\ "RELOAD" \in Commands
  BY <1>1, ConfigAssumption, Zenon DEF Inv, ListsFit, MaybeLists, Commands
<1>4. /\ NoJob \in Jobs /\ NoJob.cmd = "none" /\ NoJob.left = {} /\ NoJob.holds = {}
  BY JobFields, Zenon
<1> DEFINE j == [NoJob EXCEPT !.cmd = "RELOAD", !.read = userlist]
<1>5. /\ j \in Jobs /\ j.cmd = "RELOAD" /\ j.left = {} /\ j.holds = {} /\ j.read = userlist
  <2>1. j \in Jobs
    BY <1>3, <1>4, JobFields, Zenon
  <2>2. j.cmd = "RELOAD" /\ j.left = {} /\ j.holds = {} /\ j.read = userlist
    BY <1>4, Zenon DEF Jobs
  <2> QED
    BY <2>1, <2>2, Zenon
<1>6. job' = [job EXCEPT ![p] = j]
  BY <1>1, Zenon
<1> HIDE DEF j
<1>7. /\ job' \in [Reloaders -> Jobs] /\ job'[p] = j
      /\ \A q \in Reloaders : q # p => job'[q] = job[q]
  BY <1>2, <1>5, <1>6, Zenon
<1>8. ListsFit'
  BY <1>1, <1>3, <1>5, <1>7, Zenon DEF Inv, ListsFit
<1>9. JobsFit'
  <2>1. \A d \in Conns : job'[d].cmd # "none" => conn'[d].stage = "console"
    BY <1>1, <1>7, Zenon DEF Inv, JobsFit, Reloaders
  <2>2. \A q \in Reloaders : job'[q].cmd = "none" => job'[q] = NoJob
    BY <1>5, <1>7, Zenon DEF Inv, JobsFit
  <2>3. \A q \in Reloaders : job'[q].cmd = "RELOAD" => job'[q].left = {} /\ job'[q].holds = {}
    BY <1>5, <1>7, Zenon DEF Inv, JobsFit
  <2> QED
    BY <2>1, <2>2, <2>3, Zenon DEF JobsFit
<1>10. PausesFit'
  BY <1>1, <1>4, <1>5, <1>7, PausesStay, Zenon
<1> QED
  BY <1>1, <1>2, <1>7, <1>8, <1>9, <1>10, CommandKeeps, Zenon DEF Rests

(* A reload stores what it has read.                                       *)
LEMMA ReloadStoresStep ==
  ASSUME Inv, NEW p \in Reloaders, ReloadStores(p)
  PROVE  Rests
<1>1. /\ settings' = settings /\ entries' = entries /\ warm' = warm
      /\ accepting' = accepting /\ authenticator' = job[p].read /\ userlist' = userlist
      /\ paused' = paused /\ job[p].cmd = "RELOAD" /\ job' = [job EXCEPT ![p] = NoJob]
  BY Zenon DEF ReloadStores
<1>2. conn' = conn
  BY Zenon DEF ReloadStores
<1>3. /\ accepting \in [PoolKeys -> BOOLEAN] /\ job \in [Reloaders -> Jobs]
      /\ userlist \in MaybeLists \cup {Malformed} /\ job[p] \in Jobs
  BY Zenon DEF Inv, TypeOK
<1>4. NoJob \in Jobs /\ NoJob.cmd = "none" /\ NoJob.left = {} /\ NoJob.holds = {}
  BY JobFields, Zenon
<1>5. /\ job' \in [Reloaders -> Jobs] /\ job'[p] = NoJob
      /\ \A q \in Reloaders : q # p => job'[q] = job[q]
  BY <1>1, <1>3, <1>4, Zenon
<1>6. authenticator' \in MaybeLists
  BY <1>1, <1>3, Zenon DEF Jobs
<1>7. ListsFit'
  BY <1>1, <1>4, <1>5, Zenon DEF Inv, ListsFit
<1>8. JobsFit'
  <2>1. \A d \in Conns : job'[d].cmd # "none" => conn'[d].stage = "console"
    BY <1>2, <1>4, <1>5, Zenon DEF Inv, JobsFit, Reloaders
  <2>2. \A q \in Reloaders : job'[q].cmd = "none" => job'[q] = NoJob
    BY <1>5, Zenon DEF Inv, JobsFit
  <2>3. \A q \in Reloaders : job'[q].cmd = "RELOAD" => job'[q].left = {} /\ job'[q].holds = {}
    BY <1>4, <1>5, Zenon DEF Inv, JobsFit
  <2> QED
    BY <2>1, <2>2, <2>3, Zenon DEF JobsFit
<1>9. PausesFit'
  BY <1>1, <1>4, <1>5, PausesStay, Zenon
<1> QED
  BY <1>1, <1>2, <1>3, <1>5, <1>6, <1>7, <1>8, <1>9, CommandKeeps, Zenon DEF Rests

(* A step that changes nothing.                                            *)
LEMMA Stutters ==
  ASSUME Inv, UNCHANGED vars
  PROVE  Rests
<1>1. /\ settings' = settings /\ conn' = conn /\ entries' = entries /\ warm' = warm
      /\ accepting' = accepting /\ authenticator' = authenticator /\ userlist' = userlist
      /\ paused' = paused /\ job' = job
  BY Zenon DEF vars
<1>2. PausesFit'
  BY <1>1, PausesStay, Zenon
<1>3. ListsFit' /\ JobsFit'
  BY <1>1, Zenon DEF Inv, ListsFit, JobsFit
<1>4. /\ accepting \in [PoolKeys -> BOOLEAN] /\ job \in [Reloaders -> Jobs]
      /\ authenticator \in MaybeLists /\ userlist \in MaybeLists \cup {Malformed}
  BY Zenon DEF Inv, TypeOK
<1> QED
  BY <1>1, <1>2, <1>3, <1>4, CommandKeeps, Zenon DEF Rests

(* A command that only answers.                                            *)
LEMMA AnswerSteps ==
  ASSUME Inv, NEW c \in Conns, ReloadAnswers(c) \/ Show(c)
  PROVE  Rests
<1>1. UNCHANGED vars
  BY Zenon DEF ReloadAnswers, Show
<1> QED
  BY <1>1, Stutters, Zenon

(* The operator edits the auth_file.                                       *)
LEMMA EditUserlistStep ==
  ASSUME Inv, EditUserlist
  PROVE  Rests
<1>1. /\ settings' = settings /\ conn' = conn /\ entries' = entries /\ warm' = warm
      /\ accepting' = accepting /\ authenticator' = authenticator /\ userlist' \in Lists
      /\ paused' = paused /\ job' = job
  BY Zenon DEF EditUserlist, startupVars
<1>2. userlist' \in UserLists \cup {Malformed}
  BY <1>1, ConsoleAssumption, Zenon
<1>3. PausesFit'
  BY <1>1, PausesStay, Zenon
<1>4. ListsFit' /\ JobsFit'
  BY <1>1, <1>2, Zenon DEF Inv, ListsFit, JobsFit
<1>5. /\ accepting \in [PoolKeys -> BOOLEAN] /\ job \in [Reloaders -> Jobs]
      /\ authenticator \in MaybeLists /\ userlist' \in MaybeLists \cup {Malformed}
  BY <1>2, Zenon DEF Inv, TypeOK, MaybeLists
<1> QED
  BY <1>1, <1>3, <1>4, <1>5, CommandKeeps, Zenon DEF Rests

(* A command of a console leaves the tasks alone, or ends the console's.   *)
LEMMA CommandSteps ==
  ASSUME Inv, NEW c \in Conns, Command(c)
  PROVE  (Advances(c) /\ conn[c].stage = "console") \/ Rests
<1>1. CASE \E name \in {e.name : e \in DatabaseEntries} \cup AskedNames :
             PauseNamed(c, name) \/ ResumeNamed(c, name)
  BY <1>1, PauseNamedStep, ResumeNamedStep, Zenon
<1>2. CASE \E cmd \in {"PAUSE", "RESUME"} : AllPools(c, cmd)
  BY <1>2, PauseAllStep, ResumeAllStep, Zenon
<1>3. CASE EachPool(c) \/ AllPoolsDone(c) \/ ReloadAnswers(c) \/ Show(c)
  BY <1>3, EachPoolStep, AllPoolsDoneStep, AnswerSteps, Zenon
<1>4. CASE ConsoleEnds(c)
  <2>1. /\ conn[c].stage = "console" /\ job[c] = NoJob /\ Close(c, "closed")
        /\ UNCHANGED shared /\ UNCHANGED consoleVars
    BY <1>4, Zenon DEF ConsoleEnds, AtPrompt, At
  <2> QED
    BY <2>1, CloseKeeps, Zenon
<1> QED
  BY <1>1, <1>2, <1>3, <1>4, Zenon DEF Command

(* A step of the gateway keeps the invariant, and a client hears what may  *)
(* follow what it has heard, or nothing; it is a step of a task, or one    *)
(* that leaves the tasks alone.                                            *)
LEMMA NextSteps ==
  ASSUME Inv, Next
  PROVE  (\E c \in Conns : Advances(c)) \/ Rests
<1>1. CASE \E c \in Conns : StartupNext(c) /\ UNCHANGED consoleVars
  BY <1>1, StartupSteps, Zenon
<1>2. CASE \E c \in Conns : Command(c)
  BY <1>2, CommandSteps, Zenon
<1>3. CASE Reload
  BY <1>3, ReloadReadsStep, ReloadStoresStep, Zenon DEF Reload
<1>4. CASE EditUserlist
  BY <1>4, EditUserlistStep, Zenon
<1> QED
  BY <1>1, <1>2, <1>3, <1>4, Zenon DEF Next

-----------------------------------------------------------------------------
(* What load returns is what it has layered, with the password at its      *)
(* place.                                                                  *)
LEMMA LoadKeeps ==
  ASSUME NEW file, NEW env
  PROVE  /\ DOMAIN Load(file, env) = DOMAIN Defaults
         /\ \A k \in DOMAIN Defaults :
              k # "password" => Load(file, env)[k] = Layered(file, env)[k]
<1> DEFINE c == Layered(file, env)
           w == IF c.password_file = "unset" THEN c.password ELSE c.password_file
<1>1. DOMAIN c = DOMAIN Defaults
  BY Zenon DEF Layered
<1>2. Load(file, env) = [c EXCEPT !["password"] = w]
  BY Zenon DEF Load
<1> HIDE DEF c, w
<1>3. /\ DOMAIN [c EXCEPT !["password"] = w] = DOMAIN c
      /\ \A k \in DOMAIN c : k # "password" => [c EXCEPT !["password"] = w][k] = c[k]
  BY Zenon
<1> QED
  BY <1>1, <1>2, <1>3, Zenon DEF c

(* The settings that decide who is let in and how many.                    *)
LEMMA HasSettings ==
  {"client_tls_sslmode", "server_tls_sslmode", "auth_type", "connection_pooling", "pool_size",
   "max_connections", "admin_password", "auth_file"} \subseteq DOMAIN Defaults
<1>1. /\ "client_tls_sslmode" \in DOMAIN Defaults /\ "server_tls_sslmode" \in DOMAIN Defaults
      /\ "auth_type" \in DOMAIN Defaults /\ "connection_pooling" \in DOMAIN Defaults
      /\ "pool_size" \in DOMAIN Defaults /\ "max_connections" \in DOMAIN Defaults
      /\ "admin_password" \in DOMAIN Defaults /\ "auth_file" \in DOMAIN Defaults
  BY SMT DEF Defaults
<1> QED
  BY <1>1, Zenon

(* A process that starts has settings that validate accepts.               *)
LEMMA StartsAccepted ==
  ASSUME NEW file, NEW env, NEW list, Starts(file, env, FALSE, list)
  PROVE  Accepted(Load(file, env))
<1> DEFINE s == Load(file, env)
           c == Layered(file, env)
<1>1. Validate(s) /\ LoadClientTlsSucceeds(s) /\ Deserializes(c)
  BY Zenon DEF Starts, LoadSucceeds
<1>2. DOMAIN s = DOMAIN Defaults
  BY LoadKeeps, Zenon
<1>3. /\ s.client_tls_sslmode = c.client_tls_sslmode
      /\ s.server_tls_sslmode = c.server_tls_sslmode
      /\ s.auth_type = c.auth_type /\ s.connection_pooling = c.connection_pooling
      /\ s.pool_size = c.pool_size /\ s.max_connections = c.max_connections
  BY LoadKeeps, HasSettings, Zenon
<1> HIDE DEF s, c
<1>4. Deserializes(s)
  BY <1>1, <1>3, Zenon DEF Deserializes
<1> QED
  BY <1>1, <1>2, <1>4, Zenon DEF Accepted, s

(* The initial states.                                                     *)
LEMMA InitFits ==
  ASSUME Init
  PROVE  Inv
<1>1. PICK source \in Sources :
        /\ StartupInit(source)
        /\ userlist = LoadAuthenticator(settings, source.list)
        /\ job = [p \in Reloaders |-> NoJob] /\ paused = {}
  BY Zenon DEF Init
<1>2. /\ Starts(source.file, source.env, FALSE, source.list)
      /\ settings = Load(source.file, source.env)
      /\ conn = [c \in Conns |-> NewConn] /\ entries = <<>>
      /\ accepting = [k \in PoolKeys |-> TRUE] /\ warm = [k \in PoolKeys |-> <<>>]
      /\ authenticator = LoadAuthenticator(settings, source.list)
  BY <1>1, Zenon DEF StartupInit
<1>3. Accepted(settings)
  BY <1>2, StartsAccepted, Zenon
<1>4. Good(settings, NewConn) /\ NewConn \in Task
  BY NewGood, Zenon DEF Good
<1>5. NewConn.stage = "new" /\ NewConn.backend = "none"
  BY Zenon DEF NewConn
<1>6. NoJob \in Jobs /\ NoJob.cmd = "none" /\ NoJob.left = {} /\ NoJob.holds = {}
  BY JobFields, Zenon
<1>7. /\ settings.auth_file # "unset" =>
           authenticator \in UserLists /\ userlist \in UserLists
      /\ settings.auth_file = "unset" => authenticator = Absent /\ userlist = Absent
  <2>1. settings.auth_file # "unset" => source.list # Malformed
    BY <1>2, Zenon DEF Starts
  <2>2. source.list \in UserLists \cup {Malformed}
    BY StartupAssumption, Zenon
  <2> QED
    BY <1>1, <1>2, <2>1, <2>2, Zenon DEF LoadAuthenticator
<1>8. \A c \in Conns : conn[c] = NewConn
  BY <1>2, Zenon
<1>9. \A p \in Reloaders : job[p] = NoJob
  BY <1>1, Zenon
<1>10. TypeOK
  <2>1. conn \in [Conns -> Task]
    BY <1>2, <1>4, Zenon
  <2>2. accepting \in [PoolKeys -> BOOLEAN]
    BY <1>2, Zenon
  <2>3. warm \in [PoolKeys -> Seq({Whole})]
    <3>1. <<>> \in Seq({Whole})
      BY SMT
    <3> QED
      BY <1>2, <3>1, Zenon
  <2>4. job \in [Reloaders -> Jobs]
    BY <1>1, <1>6, Zenon
  <2>5. authenticator \in MaybeLists /\ userlist \in MaybeLists \cup {Malformed}
    BY <1>7, Zenon DEF MaybeLists
  <2> QED
    BY <2>1, <2>2, <2>3, <2>4, <2>5, Zenon DEF TypeOK
<1>11. TasksFit
  BY <1>4, <1>8, Zenon DEF TasksFit
<1>12. EntriesFit
  <2>1. DOMAIN entries = {}
    BY <1>2, SMT
  <2>2. {c \in Conns : conn[c].stage \notin Early} = {}
    BY <1>5, <1>8, Zenon DEF Early
  <2> QED
    BY <2>1, <2>2, Zenon DEF EntriesFit
<1>13. ListsFit
  BY <1>6, <1>7, <1>9, ConfigAssumption, Zenon DEF ListsFit
<1>14. JobsFit
  BY <1>6, <1>9, Zenon DEF JobsFit, Reloaders
<1>15. PausesFit
  BY <1>1, <1>6, <1>9, Zenon DEF PausesFit
<1> QED
  BY <1>3, <1>10, <1>11, <1>12, <1>13, <1>14, <1>15, Zenon DEF Inv

(* The gateway's inductive invariant: what every task is entitled to at    *)
(* the stage it has reached, and what the registry, the userlist and the   *)
(* commands under way hold.                                                *)
THEOREM InvHolds == Spec => []Inv
<1>1. Init => Inv
  BY InitFits, Zenon
<1>2. Inv /\ [Next]_vars => Inv'
  BY NextSteps, Stutters, Zenon DEF Advances, Rests
<1> QED
  BY <1>1, <1>2, PTL DEF Spec

-----------------------------------------------------------------------------
(* A client that has been told AuthenticationOk, or anything after it.     *)
LEMMA ToldIsAdmitted ==
  ASSUME Inv, NEW c \in Conns, Told(conn[c]) \in {"ok", "params", "ready"}
  PROVE  conn[c].stage \in Admitted \cup {"admin greet", "console"}
<1>1. conn[c] \in Task /\ HeardFits(conn[c])
  BY Zenon DEF Inv, TasksFit, Good
<1>2. conn[c].stage \in Stages
  BY <1>1, Zenon DEF Task
<1>3. Told(conn[c]) \notin Opening /\ Told(conn[c]) \notin {"md5", "cleartext", "error", "closed"}
  BY Zenon DEF Opening
<1>4. conn[c].stage \notin Early \cup {"acquire", "waiting", "auth", "password", "admin", "admin password"}
  BY <1>1, <1>3, Zenon DEF HeardFits, Early, Opening
<1> QED
  BY <1>2, <1>4, Zenon DEF Stages, Backed, Admitted, AtConsole

(* A client is told AuthenticationOk only as the configuration allows.     *)
THEOREM AdmitsAsConfigured == Spec => []AdmittedAsConfigured
<1>1. Inv => AdmittedAsConfigured
  <2> SUFFICES ASSUME Inv, NEW c \in Conns, Told(conn[c]) \in {"ok", "params", "ready"}
               PROVE  /\ RequiresEncryption(settings.client_tls_sslmode) =>
                           conn[c].transport # "plain"
                      /\ RequiresEncryption(settings.server_tls_sslmode) /\ conn[c].pool # Absent =>
                           conn[c].link = "tls"
                      /\ IF entries[c].admin
                         THEN settings.admin_enabled /\ conn[c].given = settings.admin_password
                         ELSE CASE settings.auth_type = "trust" -> settings.allow_trust
                                [] settings.auth_type = "cert" -> conn[c].transport = "verified"
                                [] settings.auth_type = "md5" ->
                                     /\ conn[c].user \in DOMAIN conn[c].list
                                     /\ conn[c].list[conn[c].user] =
                                          [kind |-> "Plain", of |-> conn[c].given]
                                [] OTHER -> FALSE
    BY Zenon DEF AdmittedAsConfigured, Told
  <2>1. conn[c].stage \in Admitted \cup {"admin greet", "console"}
    BY ToldIsAdmitted, Zenon
  <2>2. ServedFits(settings, conn[c]) /\ RightFits(settings, conn[c])
    BY Zenon DEF Inv, TasksFit, Good
  <2>3. RequiresEncryption(settings.client_tls_sslmode) => conn[c].transport # "plain"
    BY <2>1, <2>2, Zenon DEF RightFits, Admitted
  <2>4. RequiresEncryption(settings.server_tls_sslmode) /\ conn[c].pool # Absent =>
          conn[c].link = "tls"
    BY <2>1, <2>2, Zenon DEF ServedFits, Admitted, Backed, AtConsole
  <2>5. entries[c].admin <=> conn[c].stage \in AtConsole
    <3>1. conn[c].stage \notin Early
      BY <2>1, Zenon DEF Admitted, Early
    <3> QED
      BY <3>1, Zenon DEF Inv, EntriesFit
  <2>6. CASE conn[c].stage \in AtConsole
    <3>1. conn[c].stage \in {"admin greet", "console"}
      BY <2>1, <2>6, Zenon DEF Admitted, AtConsole
    <3>2. settings.admin_enabled /\ conn[c].given = settings.admin_password
      BY <2>2, <3>1, Zenon DEF RightFits, AtConsole
    <3> QED
      BY <2>3, <2>4, <2>5, <2>6, <3>2, Zenon
  <2>7. CASE conn[c].stage \notin AtConsole
    <3>1. Allowed(settings, conn[c])
      BY <2>1, <2>2, <2>7, Zenon DEF RightFits, AtConsole
    <3>2. settings.auth_type = "trust" => settings.allow_trust
      BY Zenon DEF Inv, Accepted, Validate, ValidAuth
    <3>3. CASE settings.auth_type = "trust"
      BY <2>3, <2>4, <2>5, <2>7, <3>2, <3>3, Zenon
    <3>4. CASE settings.auth_type = "cert"
      BY <2>3, <2>4, <2>5, <2>7, <3>1, <3>4, Zenon DEF Allowed
    <3>5. CASE settings.auth_type = "md5"
      BY <2>3, <2>4, <2>5, <2>7, <3>1, <3>5, Zenon DEF Allowed, HasUser
    <3>6. CASE settings.auth_type \notin {"trust", "cert", "md5"}
      BY <3>1, <3>6, Zenon DEF Allowed
    <3> QED
      BY <3>3, <3>4, <3>5, <3>6, Zenon
  <2> QED
    BY <2>6, <2>7, Zenon
<1> QED
  BY <1>1, InvHolds, PTL

(* The arms that guard at run time against what validate refuses are never *)
(* reached.                                                                *)
THEOREM ReachesNoDeadArm == Spec => []NoDeadArm
<1>1. Inv => NoDeadArm
  <2> SUFFICES ASSUME Inv PROVE NoDeadArm
    BY Zenon
  <2>1. /\ ValidAuth(settings) /\ ValidPublisher(settings) /\ ValidCapacity(settings)
        /\ LoadClientTlsSucceeds(settings) /\ Deserializes(settings)
    BY Zenon DEF Inv, Accepted, Validate
  <2>2. settings.publisher_enabled /\ settings.anonymize => settings.anonymize_salt # "unset"
    BY <2>1, Zenon DEF ValidPublisher
  <2>3. ASSUME NEW c \in Conns
        PROVE  /\ At(c, "auth") => settings.auth_type # "scram-sha-256"
               /\ At(c, "auth") /\ settings.auth_type = "md5" => conn[c].list # Absent
               /\ At(c, "accept") => settings.client_tls_cert_file = "good"
               /\ At(c, "waiting") /\ conn[c].pool \notin Databases => PoolSize(conn[c].pool) > 0
               /\ At(c, "login") => settings.password # ""
    <3>1. ServedFits(settings, conn[c]) /\ RightFits(settings, conn[c])
      BY Zenon DEF Inv, TasksFit, Good
    <3>2. settings.auth_type # "scram-sha-256" /\ settings.password # ""
      BY <2>1, Zenon DEF ValidAuth
    <3>3. At(c, "auth") /\ settings.auth_type = "md5" => conn[c].list # Absent
      BY <2>1, <3>1, Zenon DEF ValidAuth, RightFits, At
    <3>4. At(c, "accept") => settings.client_tls_cert_file = "good"
      BY <2>1, <3>1, Zenon DEF LoadClientTlsSucceeds, RightFits, At
    <3>5. At(c, "waiting") /\ conn[c].pool \notin Databases => PoolSize(conn[c].pool) > 0
      <4> SUFFICES ASSUME At(c, "waiting"), conn[c].pool \notin Databases
                   PROVE  PoolSize(conn[c].pool) > 0
        BY Zenon
      <4>1. conn[c].pool # Absent /\ conn[c].pool = Routed(settings, conn[c].db)
        BY <3>1, Zenon DEF ServedFits, At, Early, AtConsole
      <4>2. settings.connection_pooling # "disabled"
        BY <4>1, Zenon DEF Routed
      <4>3. settings.pool_size # 0 /\ settings.pool_size \in Nat
        BY <2>1, <4>2, Zenon DEF ValidCapacity, Deserializes
      <4>4. PoolSize(conn[c].pool) = settings.pool_size
        BY Zenon DEF PoolSize
      <4> QED
        BY <4>3, <4>4, SMT
    <3> QED
      BY <3>2, <3>3, <3>4, <3>5, Zenon
  <2> QED
    BY <2>2, <2>3, Zenon DEF NoDeadArm
<1> QED
  BY <1>1, InvHolds, PTL

-----------------------------------------------------------------------------
(* A client hears a startup of the protocol: the gateway implements        *)
(* Greeting.                                                               *)
THEOREM GreetsByProtocol == Spec => SeesGreeting
<1> DEFINE h == [c \in Conns |-> conn[c].heard]
<1>1. Init => G!Init
  <2> SUFFICES ASSUME Init PROVE h = [c \in Conns |-> <<>>]
    BY Zenon DEF G!Init
  <2>1. \A c \in Conns : conn[c].heard = <<>>
    <3>1. conn = [c \in Conns |-> NewConn]
      BY Zenon DEF Init, StartupInit
    <3>2. NewConn.heard = <<>>
      BY Zenon DEF NewConn
    <3> QED
      BY <3>1, <3>2, Zenon
  <2> QED
    BY <2>1, Zenon
<1>2. Inv /\ [Next]_vars => [G!Next]_h
  <2> SUFFICES ASSUME Inv, [Next]_vars PROVE G!Next \/ h' = h
    BY Zenon
  <2>1. (\E c \in Conns : Advances(c)) \/ conn' = conn
    BY NextSteps, Stutters, Zenon DEF Rests
  <2>2. CASE conn' = conn
    BY <2>2, Zenon
  <2>3. ASSUME NEW c \in Conns, Advances(c)
        PROVE  G!Next \/ h' = h
    <3>1. \A d \in Conns : d # c => h'[d] = h[d]
      BY <2>3, Zenon DEF Advances
    <3>2. /\ h[c] = conn[c].heard /\ Told(conn[c]) = G!Latest(h[c])
          /\ h' = [h EXCEPT ![c] = conn'[c].heard]
      BY <3>1, Zenon DEF Told
    <3>3. CASE conn'[c].heard = conn[c].heard
      <4>1. \A d \in Conns : conn'[d].heard = conn[d].heard
        BY <2>3, <3>3, Zenon DEF Advances
      <4> QED
        BY <4>1, Zenon
    <3>4. CASE \E more \in G!Continues(Told(conn[c])) : conn'[c].heard = conn[c].heard \o more
      <4>1. PICK more \in G!Continues(G!Latest(h[c])) : conn'[c].heard = h[c] \o more
        BY <3>2, <3>4, Zenon
      <4>2. h' = [h EXCEPT ![c] = @ \o more]
        BY <3>2, <4>1, Zenon
      <4> QED
        BY <4>1, <4>2, Zenon DEF G!Next, G!Hears
    <3>5. CASE \E how \in G!Follows(Told(conn[c])) \cap {"error", "closed"} :
                 conn'[c].heard = <<how>>
      <4>1. PICK how \in G!Follows(G!Latest(h[c])) \cap {"error", "closed"} :
              conn'[c].heard = <<how>>
        BY <3>2, <3>5, Zenon
      <4>2. h' = [h EXCEPT ![c] = <<how>>]
        BY <3>2, <4>1, Zenon
      <4> QED
        BY <3>2, <4>1, <4>2, Zenon DEF G!Next, G!Ends
    <3> QED
      BY <2>3, <3>3, <3>4, <3>5, Zenon DEF Advances, Follow
  <2> QED
    BY <2>1, <2>2, <2>3, Zenon
<1> QED
  BY <1>1, <1>2, InvHolds, PTL DEF Spec, SeesGreeting, G!Spec

(* A task that is to acquire does nothing else.                            *)
LEMMA AcquiresNext ==
  ASSUME NEW c \in Conns, At(c, "acquire"), StartupNext(c)
  PROVE  AcquireStarts(c) \/ ConnectDirect(c)
<1>1. ~SpawnTcp(c) /\ ~SpawnUnix(c) /\ ~ClientLeaves(c) /\ ~SessionEnds(c)
  BY Zenon DEF At, SpawnTcp, SpawnUnix, ClientLeaves, SessionEnds
<1>2. ~Server(c)
  BY Zenon DEF At, Server, ServerAnswers, ServerGone
<1>3. ~Negotiate(c) /\ ~HandleClientConnection(c)
  BY Zenon DEF At, Negotiate, NoSslRequest, SslRequest, ReadDeclined, TlsAccept, ReadUpgraded,
               HandleClientConnection
<1>4. ~ReadUnix(c) /\ ~Authenticate(c) /\ ~ReadPassword(c)
  BY Zenon DEF At, ReadUnix, Authenticate, ReadPassword
<1>5. ~LogIn(c)
  BY Zenon DEF At, LogIn, BackendAuthenticate, ScramFails, BackendCloses, Greet, Replay,
               Forward, Capture
<1>6. ~AdminLogin(c) /\ ~AdminPassword(c) /\ ~AdminGreet(c)
  BY Zenon DEF At, AdminLogin, AdminPassword, AdminGreet
<1>7. ~AcquireGets(c) /\ ~AcquireFails(c)
  BY Zenon DEF At, AcquireGets, AcquireFails
<1> QED
  BY <1>1, <1>2, <1>3, <1>4, <1>5, <1>6, <1>7, Zenon DEF StartupNext, StartUp, Acquire

(* A database that PAUSE is done for starts no acquire for a new client,   *)
(* whatever consoles and clients do at the same time.                      *)
THEOREM PausesHold == Spec => PauseHolds
<1> DEFINE Held == \A c \in Conns :
             At(c, "acquire") /\ conn'[c].stage \in {"waiting", "auth"} =>
               conn[c].db \notin paused
<1>1. Inv /\ [Next]_vars => [Held]_vars
  <2> SUFFICES ASSUME Inv, [Next]_vars, NEW c \in Conns, conn[c].stage = "acquire",
                      conn'[c].stage \in {"waiting", "auth"}
               PROVE  conn[c].db \notin paused
    BY Zenon DEF At
  <2>1. conn'[c] # conn[c]
    BY Zenon
  <2>2. StartupNext(c)
    <3>1. ASSUME NEW d \in Conns, StartupNext(d), UNCHANGED consoleVars, d # c
          PROVE  FALSE
      BY <2>1, <3>1, StartupSteps, Zenon DEF Advances
    <3>2. ASSUME NEW d \in Conns, Command(d)
          PROVE  FALSE
      BY <2>1, <3>2, CommandSteps, Zenon DEF Advances, Rests
    <3>3. ~Reload /\ ~EditUserlist /\ ~UNCHANGED vars
      BY <2>1, ReloadReadsStep, ReloadStoresStep, EditUserlistStep, Stutters, Zenon DEF Reload, Rests
    <3> QED
      BY <3>1, <3>2, <3>3, Zenon DEF Next
  <2>3. AcquireStarts(c) \/ ConnectDirect(c)
    BY <2>2, AcquiresNext, Zenon DEF At
  <2>4. conn[c].pool = PoolOf(conn[c].db)
    BY PoolOfRouted, Zenon DEF Inv, TasksFit, Good, ServedFits, Early, AtConsole
  <2>5. CASE ConnectDirect(c)
    <3>1. conn[c].pool = Absent
      BY <2>5, Zenon DEF ConnectDirect
    <3> QED
      BY <2>4, <3>1, PoolOfRouted, Zenon DEF Inv, PausesFit
  <2>6. CASE AcquireStarts(c)
    <3>1. accepting[conn[c].pool]
      <4> SUFFICES ASSUME ~accepting[conn[c].pool] PROVE FALSE
        BY Zenon
      <4>1. Close(c, "error")
        BY <2>6, Zenon DEF AcquireStarts
      <4>2. PICK how : conn' = [conn EXCEPT ![c] = Ended(how)]
        BY <4>1, Zenon DEF Close
      <4>3. conn'[c] = Ended(how)
        BY <4>2, Zenon DEF Inv, TypeOK
      <4>4. Ended(how).stage = "closed"
        BY SMT DEF Ended, NewConn
      <4> QED
        BY <4>3, <4>4, Zenon
    <3> QED
      BY <2>4, <3>1, Zenon DEF Inv, PausesFit
  <2> QED
    BY <2>3, <2>5, <2>6, Zenon
<1> QED
  BY <1>1, InvHolds, PTL DEF Spec, PauseHolds
=============================================================================
