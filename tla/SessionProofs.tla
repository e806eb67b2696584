--------------------------- MODULE SessionProofs ---------------------------
(***************************************************************************)
(* What TLAPS proves about Session, for every number of clients and        *)
(* backends: first whatever the clients do; then, while they wait for      *)
(* their answers, that statements meet no other client's transaction and   *)
(* that the proxy implements a direct connection per client.               *)
(***************************************************************************)
EXTENDS Session, TLAPS

(* A backend has one owner: a handler, or the idle list.                   *)
Exclusive ==
    /\ \A c, d \in Clients : conn[c] = conn[d] /\ conn[c] # NoBackend => c = d
    /\ \A c \in Clients : conn[c] \notin idle

Unheld(b) == \A c \in Clients : conn[c] # b

(* A server that has had its startup has left its response with the pool,  *)
(* or its first client is being sent it.                                   *)
StartedInv ==
    \A b \in started : b \in captured \/ \E c \in Clients : stage[c] = "greet" /\ conn[c] = b

(* Without transactions nothing is released, and DISCARD ALL always works. *)
CalmAt(b) ==
    /\ session[b].txn = "I"
    /\ \A i \in DOMAIN outbox[b] : outbox[b][i].shows.txn = "I"
    /\ \A i \in DOMAIN inbox[b] : inbox[b][i].kind # "begin"
    /\ Unheld(b) /\ b \notin idle => inbox[b] = <<>> /\ ~session[b].guc

(* A statement of a live client is where its handler sent it.              *)
SentAt(b) ==
    \A i \in DOMAIN inbox[b] :
      LET r == inbox[b][i] IN
      r.from \in Clients /\ stage[r.from] # "done" =>
        /\ stage[r.from] = "loop" /\ conn[r.from] = b
        /\ r.kind = "set" => "set" \in did[r.from]

(* Between c's statements and whatever came before them is a DISCARD ALL.  *)
Parted(b, c) ==
    \/ \E j \in DOMAIN inbox[b] :
         /\ inbox[b][j].from = Proxy /\ inbox[b][j].kind = "discard"
         /\ \A i \in DOMAIN inbox[b] : inbox[b][i].from = c <=> i > j
    \/ /\ \A i \in DOMAIN inbox[b] : inbox[b][i].from = c
       /\ session[b].guc => "set" \in did[c]

PartedOf(c) ==
    stage[c] \in {"reset", "startup", "greet", "loop"} /\ conn[c] \in up => Parted(conn[c], c)

CalmInv ==
    /\ \A b \in Backends : CalmAt(b) /\ SentAt(b)
    /\ \A c \in Clients : tracker[c] = "I" /\ PartedOf(c)

-----------------------------------------------------------------------------
(* The session and the streams keep their types.                           *)
LEMMA AfterType ==
  ASSUME NEW s \in Sessions, NEW k \in Statements \cup {"health"}
  PROVE  After(s, k) \in Sessions
BY ZenonT(30) DEF After, Sessions, Statements, Statuses, FreshSession, Failed

(* Streams, as sequences: only the empty one has length 0;                 *)
LEMMA NoLength ==
  ASSUME NEW S, NEW s \in Seq(S)
  PROVE  Len(s) \in Nat /\ (s = <<>> <=> Len(s) = 0)
OBVIOUS

(* another has a first element and a rest;                                 *)
LEMMA FirstAndRest ==
  ASSUME NEW S, NEW s \in Seq(S), s # <<>>
  PROVE  /\ Head(s) \in S /\ Head(s) = s[1]
         /\ Tail(s) \in Seq(S) /\ Len(Tail(s)) = Len(s) - 1
         /\ \A i \in 1..Len(Tail(s)) : Tail(s)[i] = s[i + 1]
OBVIOUS

(* one stream is continued by another;                                     *)
LEMMA Joined ==
  ASSUME NEW S, NEW s \in Seq(S), NEW t \in Seq(S)
  PROVE  /\ s \o t \in Seq(S) /\ Len(s \o t) = Len(s) + Len(t)
         /\ \A i \in 1..(Len(s) + Len(t)) :
              (s \o t)[i] = IF i > Len(s) THEN t[i - Len(s)] ELSE s[i]
OBVIOUS

(* an element is added at the end of a stream;                             *)
LEMMA Added ==
  ASSUME NEW S, NEW s \in Seq(S), NEW x \in S
  PROVE  Append(s, x) \in Seq(S)
OBVIOUS

(* a part of a stream.                                                     *)
LEMMA Part ==
  ASSUME NEW S, NEW s \in Seq(S), NEW m \in Nat \ {0}
  PROVE  SubSeq(s, m, Len(s)) \in Seq(S) /\ SubSeq(s, m, m - 1) = <<>>
OBVIOUS

(* What is left of a stream after a read of m elements.                    *)
LEMMA Rest ==
  ASSUME NEW S, NEW s \in Seq(S), NEW m \in 0..Len(s)
  PROVE  /\ SubSeq(s, m + 1, Len(s)) \in Seq(S)
         /\ Len(SubSeq(s, m + 1, Len(s))) = Len(s) - m
         /\ \A i \in 1..(Len(s) - m) : SubSeq(s, m + 1, Len(s))[i] = s[i + m]
OBVIOUS

(* Statements are numbered within the window.                              *)
LEMMA Numbers == 0 \in 0..Window-1 /\ \A n \in Int : n % Window \in 0..Window-1
BY SessionAssumption

(* So is the next statement of a client.                                   *)
LEMMA NumberType ==
  ASSUME TypeOK, NEW c \in Clients
  PROVE  Number(c) \in 0..Window-1
<1>1. answer[c].n \in Int
  BY DEF TypeOK, Responses
<1>2. Len(asked[c]) \in Int
  BY DEF TypeOK
<1>3. answer[c].n + Len(asked[c]) + 1 \in Int
  BY <1>1, <1>2
<1> QED BY Zenon, <1>3, Numbers DEF Number

(* The session and the answer before any statement.                        *)
LEMMA FreshType == FreshSession \in Sessions /\ \A c \in Clients : NoAnswer(c) \in Responses
BY Zenon, Numbers DEF FreshSession, Sessions, Statuses, NoAnswer, Responses

(* A write leaves a stream of requests, with what is written at its end.   *)
LEMMA WriteType ==
  ASSUME TypeOK, NEW b \in Backends, NEW reqs \in Seq(Requests), Write(b, reqs)
  PROVE  inbox' \in [Backends -> Seq(Requests)]
BY Zenon, Joined DEF Write, TypeOK

(* The handlers that simply return.                                        *)
Returns(c) ==
    AcquireFails(c) \/ StartupInterrupted(c) \/ ClientLeaves(c) \/ BackendGone(c) \/ QueryTimesOut(c)

(* They all finish in the same way.                                        *)
LEMMA ReturnsFinish ==
  ASSUME NEW c \in Clients, Returns(c)
  PROVE  Finish(c) /\ UNCHANGED <<mode, captured, serverVars>>
BY Zenon DEF Returns, AcquireFails, StartupInterrupted, ClientLeaves, BackendGone, QueryTimesOut

(* The type of what a client is served with, apart from the streams.       *)
LEMMA OverType ==
  ASSUME TypeOK, NEW c \in Clients, Over(c)
  PROVE  /\ stage' \in [Clients -> Stages] /\ begun' \subseteq Clients
         /\ conn' \in [Clients -> Backends \cup {NoBackend}]
         /\ tracker' \in [Clients -> Statuses]
         /\ pinned' \subseteq Clients /\ armed' \subseteq Clients
         /\ partial' \in [Clients -> {"no", "even", "cut"}]
         /\ asked' \in [Clients -> Seq(Kinds)] /\ did' \in [Clients -> SUBSET Kinds]
         /\ answer' \in [Clients -> Responses]
         /\ \A d \in Clients : conn'[d] # NoBackend <=> stage'[d] \notin {"acquire", "done"}
<1>1. answer' \in [Clients -> Responses]
  BY Zenon, FreshType DEF TypeOK, Over
<1> QED BY <1>1 DEF TypeOK, Over, GoTo, Take, Stages, Statuses

(* Close leaves the types of a backend.                                    *)
LEMMA CloseType ==
  ASSUME TypeOK, NEW b \in Backends, Close(b)
  PROVE  /\ up' \subseteq Backends /\ started' \subseteq Backends /\ captured' \subseteq Backends
         /\ session' \in [Backends -> Sessions]
         /\ inbox' \in [Backends -> Seq(Requests)] /\ outbox' \in [Backends -> Seq(Responses)]
BY FreshType DEF TypeOK, Close

(* A read from a backend leaves a stream of responses.                     *)
LEMMA ReadType ==
  ASSUME TypeOK, NEW b \in Backends, NEW m \in 1..Len(outbox[b]),
         outbox' = [outbox EXCEPT ![b] = SubSeq(@, m + 1, Len(@))]
  PROVE  /\ outbox' \in [Backends -> Seq(Responses)]
         /\ outbox[b][m] \in Responses
<1>1. outbox[b] \in Seq(Responses) /\ m \in 0..Len(outbox[b])
  BY DEF TypeOK
<1>2. SubSeq(outbox[b], m + 1, Len(outbox[b])) \in Seq(Responses)
  BY Zenon, <1>1, Rest
<1> QED BY <1>1, <1>2 DEF TypeOK

(* The first state has the types.                                          *)
LEMMA TypeInit == Init => TypeOK
<1> SUFFICES ASSUME Init PROVE TypeOK
  BY Zenon
<1>1. idle \subseteq Backends
  BY Zenon, SessionAssumption DEF Init, Warmup
<1>2. answer \in [Clients -> Responses] /\ session \in [Backends -> Sessions]
  BY Zenon, FreshType DEF Init
<1> QED BY <1>1, <1>2 DEF Init, TypeOK, Stages, Statuses

(* Every action of Next keeps them, case by case.                          *)
LEMMA TypeStep == TypeOK /\ [Next]_vars => TypeOK'
<1> SUFFICES ASSUME TypeOK, [Next]_vars PROVE TypeOK'
  BY Zenon
<1> USE DEF handlerVars, clientVars, serverVars
<1>s. \A c \in Clients : stage[c] \notin {"acquire", "done"} => conn[c] \in Backends
  BY Zenon DEF TypeOK
<1>e. <<>> \in Seq(Requests)
  OBVIOUS
<1>0. CASE UNCHANGED vars
  BY Zenon, <1>0 DEF vars, TypeOK
<1>1. ASSUME NEW c \in Clients, AcquireIdle(c) PROVE TypeOK'
  <2>1. PICK b \in idle : idle' = idle \ {b} /\ Take(c, b)
                          /\ Write(b, <<Request(Proxy, 0, "health")>>)
    BY Zenon, <1>1 DEF AcquireIdle
  <2>2. <<Request(Proxy, 0, "health")>> \in Seq(Requests)
    BY Numbers DEF Request, Requests
  <2>3. b \in Backends /\ inbox' \in [Backends -> Seq(Requests)]
    BY Zenon, <2>1, <2>2, WriteType DEF TypeOK
  <2> QED BY Zenon, <1>1, <2>1, <2>3, SessionAssumption DEF AcquireIdle, TypeOK, GoTo, Take, Stages
<1>2. ASSUME NEW c \in Clients, RecycleReads(c) PROVE TypeOK'
  <2> DEFINE b == conn[c]
  <2>0. b \in Backends
    BY Zenon, <1>2, <1>s DEF RecycleReads
  <2>1. PICK m \in 1..Len(outbox[b]) :
         IF outbox[b][m].shows.txn # "I"
           THEN RecycleFails(c)
           ELSE /\ outbox' = [outbox EXCEPT ![b] = SubSeq(@, m + 1, Len(@))]
                /\ IF stage[c] = "health"
                     THEN Write(b, <<Request(Proxy, 0, "discard")>>) /\ GoTo(c, "reset")
                     ELSE GoTo(c, "startup") /\ UNCHANGED inbox
                /\ UNCHANGED <<conn, captured, up, started, session>>
    BY Zenon, <1>2 DEF RecycleReads
  <2>2. CASE RecycleFails(c)
    <3>1. Close(b) /\ Take(c, NoBackend) /\ GoTo(c, "acquire")
      BY Zenon, <2>2 DEF RecycleFails
    <3>2. UNCHANGED <<mode, begun, tracker, pinned, armed, partial, clientVars, idle>>
      BY Zenon, <1>2 DEF RecycleReads
    <3> HIDE DEF b
    <3> QED BY Zenon, <2>0, <3>1, <3>2, CloseType DEF TypeOK, Take, GoTo, Stages
  <2>3. CASE ~RecycleFails(c)
    <3>1. outbox' \in [Backends -> Seq(Responses)]
      BY Zenon, <2>0, <2>1, <2>3, ReadType
    <3>2. <<Request(Proxy, 0, "discard")>> \in Seq(Requests)
      BY Numbers DEF Request, Requests, Statements
    <3>3. inbox' \in [Backends -> Seq(Requests)]
      BY Zenon, <2>0, <2>1, <2>3, <3>2, WriteType DEF TypeOK
    <3>g. UNCHANGED <<conn, captured, up, started, session>>
      BY Zenon, <2>1, <2>3
    <3>h. PICK g \in {"reset", "startup"} : stage' = [stage EXCEPT ![c] = g]
      BY Zenon, <2>1, <2>3 DEF GoTo
    <3>i. conn[c] # NoBackend /\ stage \in [Clients -> Stages]
      BY Zenon, <1>2 DEF RecycleReads, TypeOK
    <3>4. /\ stage' \in [Clients -> Stages]
          /\ \A d \in Clients : conn[d] # NoBackend <=> stage'[d] \notin {"acquire", "done"}
          /\ UNCHANGED <<conn, captured, up, started, session>>
      <4>1. stage' \in [Clients -> Stages]
        BY <3>h, <3>i DEF Stages
      <4>2. ASSUME NEW d \in Clients PROVE conn[d] # NoBackend <=> stage'[d] \notin {"acquire", "done"}
        <5>1. CASE d = c
          BY <3>h, <3>i, <5>1
        <5>2. CASE d # c
          <6>1. stage'[d] = stage[d]
            BY <3>h, <3>i, <5>2
          <6> QED BY Zenon, <6>1 DEF TypeOK
        <5> QED BY Zenon, <5>1, <5>2
      <4> QED BY Zenon, <3>g, <4>1, <4>2
    <3> QED BY Zenon, <1>2, <3>1, <3>3, <3>4 DEF RecycleReads, TypeOK
  <2> QED BY Zenon, <2>2, <2>3
<1>3. ASSUME NEW c \in Clients, RecycleTimesOut(c) PROVE TypeOK'
  <2>1. conn[c] \in Backends
    BY Zenon, <1>3, <1>s DEF RecycleTimesOut
  <2>2. Close(conn[c])
    BY Zenon, <1>3 DEF RecycleTimesOut, RecycleFails
  <2> QED BY Zenon, <1>3, <2>1, <2>2, CloseType
          DEF RecycleTimesOut, RecycleFails, TypeOK, Take, GoTo, Stages
<1>4. ASSUME NEW c \in Clients, AcquireNew(c) PROVE TypeOK'
  BY <1>4, SessionAssumption DEF AcquireNew, TypeOK, Take, GoTo, Stages
<1>5. ASSUME NEW c \in Clients, Returns(c) PROVE TypeOK'
  <2>1. Finish(c) /\ UNCHANGED <<mode, captured, serverVars>>
    BY Zenon, <1>5, ReturnsFinish
  <2>2. idle' \subseteq Backends
    BY Zenon, <2>1 DEF Finish, TypeOK
  <2> QED BY Zenon, <2>1, <2>2, OverType DEF Finish, TypeOK
<1>6. ASSUME NEW c \in Clients, ReplayStartup(c) \/ Greet(c) PROVE TypeOK'
  BY ZenonT(30), <1>6, <1>s DEF ReplayStartup, Greet, TypeOK, GoTo, Stages
<1>7. ASSUME NEW c \in Clients, InitializeBackend(c) PROVE TypeOK'
  <2>1. stage' \in [Clients -> Stages] /\ \A d \in Clients : conn[d] # NoBackend <=> stage'[d] \notin {"acquire", "done"}
    BY ZenonT(30), <1>7 DEF InitializeBackend, TypeOK, GoTo, Stages
  <2>2. started' \subseteq Backends /\ captured' \subseteq Backends
    BY Zenon, <1>7, <1>s DEF InitializeBackend, TypeOK
  <2> QED BY Zenon, <1>7, <2>1, <2>2 DEF InitializeBackend, TypeOK
<1>8. ASSUME NEW c \in Clients, InitializeFails(c) PROVE TypeOK'
  <2>1. Over(c) /\ idle' \subseteq Backends
    BY Zenon, <1>8 DEF InitializeFails, Finish, TypeOK
  <2>2. inbox' \in [Backends -> Seq(Requests)] /\ up' \subseteq Backends
    BY Zenon, <1>8, <1>e DEF InitializeFails, TypeOK
  <2> QED BY Zenon, <1>8, <2>1, <2>2, OverType DEF InitializeFails, TypeOK
<1>9. ASSUME NEW c \in Clients, NEW k \in Kinds, ForwardQuery(c, k) PROVE TypeOK'
  <2>1. <<Request(c, Number(c), k)>> \in Seq(Requests)
    <3>1. Number(c) \in 0..Window-1
      BY Zenon, NumberType
    <3> QED BY <3>1, SessionAssumption DEF Request, Requests
  <2>2. inbox' \in [Backends -> Seq(Requests)]
    BY Zenon, <1>9, <1>s, <2>1, WriteType DEF ForwardQuery
  <2>3. asked' \in [Clients -> Seq(Kinds)]
    BY Zenon, <1>9, Added DEF ForwardQuery, Ask, TypeOK
  <2>4. did' \in [Clients -> SUBSET Kinds]
    BY Zenon, <1>9 DEF ForwardQuery, Ask, TypeOK
  <2>5. pinned' \subseteq Clients /\ armed' \subseteq Clients
    BY Zenon, <1>9 DEF ForwardQuery, PinnedAfter, TypeOK
  <2> QED BY Zenon, <1>9, <2>2, <2>3, <2>4, <2>5 DEF ForwardQuery, Ask, TypeOK
<1>10. ASSUME NEW c \in Clients, NEW k \in Kinds, RejectQuery(c, k) PROVE TypeOK'
  <2>1. Number(c) \in 0..Window-1
    BY Zenon, NumberType
  <2>2. answer[c] \in Responses /\ tracker[c] \in Statuses
    BY Zenon DEF TypeOK
  <2>3. [answer[c] EXCEPT !.n = Number(c), !.shows.txn = tracker[c]] \in Responses
    BY Zenon, <2>1, <2>2 DEF Responses, Sessions
  <2>a. answer \in [Clients -> Responses]
    BY Zenon DEF TypeOK
  <2>b. answer' = [answer EXCEPT ![c].n = Number(c), ![c].shows.txn = tracker[c]]
    BY Zenon, <1>10 DEF RejectQuery
  <2>4. answer' = [answer EXCEPT ![c] = [answer[c] EXCEPT !.n = Number(c), !.shows.txn = tracker[c]]]
    BY ZenonT(30), <2>a, <2>b
  <2>5. answer' \in [Clients -> Responses]
    BY Zenon, <2>3, <2>4 DEF TypeOK
  <2> QED BY Zenon, <1>10, <2>5 DEF RejectQuery, TypeOK
<1>11. ASSUME NEW c \in Clients, NEW k \in Kinds, QueryThenTerminate(c, k) PROVE TypeOK'
  <2>1. <<Request(c, Number(c), k), Request(c, 0, "terminate")>> \in Seq(Requests)
    <3>1. Number(c) \in 0..Window-1
      BY Zenon, NumberType
    <3>2. Request(c, Number(c), k) \in Requests /\ Request(c, 0, "terminate") \in Requests
      BY Zenon, <3>1, Numbers, SessionAssumption DEF Request, Requests
    <3> QED BY <3>2
  <2>2. inbox' \in [Backends -> Seq(Requests)]
    BY Zenon, <1>11, <1>s, <2>1, WriteType DEF QueryThenTerminate
  <2>3. Over(c) /\ idle' \subseteq Backends
    BY Zenon, <1>11 DEF QueryThenTerminate, Finish, TypeOK
  <2> QED BY Zenon, <1>11, <2>2, <2>3, OverType DEF QueryThenTerminate, TypeOK
<1>12. ASSUME NEW c \in Clients, NEW m \in 1..Len(outbox[conn[c]]), BackendResponds(c, m) PROVE TypeOK'
  <2>1. conn[c] \in Backends
    BY Zenon, <1>12, <1>s DEF BackendResponds
  <2>2. outbox' \in [Backends -> Seq(Responses)] /\ outbox[conn[c]][m] \in Responses
    BY Zenon, <1>12, <2>1, ReadType DEF BackendResponds
  <2>3. asked' \in [Clients -> Seq(Kinds)]
    <3>1. asked[c] \in Seq(Kinds) /\ m + 1 \in Int /\ Len(asked[c]) \in Int
      BY DEF TypeOK
    <3>2. SubSeq(asked[c], m + 1, Len(asked[c])) \in Seq(Kinds)
      BY <3>1, Part
    <3> QED BY Zenon, <1>12, <3>2 DEF BackendResponds, TypeOK
  <2>4. answer' \in [Clients -> Responses] /\ tracker' \in [Clients -> Statuses]
    BY Zenon, <1>12, <2>2 DEF BackendResponds, Track, TypeOK, Responses, Sessions
  <2>5. /\ stage' \in [Clients -> Stages] /\ idle' \subseteq Backends
        /\ conn' \in [Clients -> Backends \cup {NoBackend}]
        /\ \A d \in Clients : conn'[d] # NoBackend <=> stage'[d] \notin {"acquire", "done"}
    <3>1. \/ UNCHANGED <<idle, conn, stage>>
          \/ idle' = idle \cup {conn[c]} /\ Take(c, NoBackend) /\ GoTo(c, "acquire")
      BY Zenon, <1>12 DEF BackendResponds
    <3> QED BY ZenonT(30), <2>1, <3>1, SessionAssumption DEF TypeOK, GoTo, Take, Stages
  <2>6. partial' \in [Clients -> {"no", "even", "cut"}]
    BY Zenon, <1>12 DEF BackendResponds, TypeOK
  <2> QED BY Zenon, <1>12, <2>2, <2>3, <2>4, <2>5, <2>6 DEF BackendResponds, TypeOK
<1>13. ASSUME NEW c \in Clients, ResponseEndsUnseen(c) PROVE TypeOK'
  <2>1. conn[c] \in Backends
    BY Zenon, <1>13, <1>s DEF ResponseEndsUnseen
  <2>2. outbox[conn[c]] \in Seq(Responses) /\ outbox[conn[c]] # <<>>
    BY Zenon, <1>13, <2>1 DEF ResponseEndsUnseen, TypeOK
  <2>3. Head(outbox[conn[c]]) \in Responses /\ Tail(outbox[conn[c]]) \in Seq(Responses)
    BY Zenon, <2>2, FirstAndRest
  <2>4. asked' \in [Clients -> Seq(Kinds)]
    <3>1. asked[c] \in Seq(Kinds) /\ 2 \in Int /\ Len(asked[c]) \in Int
      BY DEF TypeOK
    <3>2. SubSeq(asked[c], 2, Len(asked[c])) \in Seq(Kinds)
      BY <3>1, Part
    <3> QED BY Zenon, <1>13, <3>2 DEF ResponseEndsUnseen, TypeOK
  <2>5. answer' \in [Clients -> Responses] /\ outbox' \in [Backends -> Seq(Responses)]
    BY Zenon, <1>13, <2>3 DEF ResponseEndsUnseen, TypeOK
  <2>6. partial' \in [Clients -> {"no", "even", "cut"}]
    BY Zenon, <1>13 DEF ResponseEndsUnseen, TypeOK
  <2> QED BY ZenonT(30), <1>13, <2>4, <2>5, <2>6 DEF ResponseEndsUnseen, TypeOK
<1>17. ASSUME NEW c \in Clients, ResponseBegins(c) PROVE TypeOK'
  <2>1. armed' \subseteq Clients /\ partial' \in [Clients -> {"no", "even", "cut"}]
    BY Zenon, <1>17 DEF ResponseBegins, TypeOK
  <2> QED BY Zenon, <1>17, <2>1 DEF ResponseBegins, TypeOK
<1>14. ASSUME NEW c \in Clients, RecycleInterrupted(c) PROVE TypeOK'
  <2>1. conn[c] \in Backends /\ Close(conn[c]) /\ Over(c)
    BY Zenon, <1>14, <1>s DEF RecycleInterrupted
  <2> QED BY Zenon, <1>14, <2>1, CloseType, OverType DEF RecycleInterrupted, TypeOK
<1>15. ASSUME NEW b \in Backends, Serve(b) PROVE TypeOK'
  <2> DEFINE r == Head(inbox[b])
  <2>1. inbox[b] \in Seq(Requests) /\ inbox[b] # <<>>
    BY Zenon, <1>15 DEF Serve, TypeOK
  <2>2. r \in Requests /\ Tail(inbox[b]) \in Seq(Requests)
    BY Zenon, <2>1, FirstAndRest
  <2>3. CASE r.kind = "terminate" \/ b \notin started
    <3>1. inbox' = [inbox EXCEPT ![b] = <<>>] /\ up' = up \ {b} /\ UNCHANGED <<session, outbox>>
      BY Zenon, <1>15, <2>3 DEF Serve
    <3>2. inbox' \in [Backends -> Seq(Requests)]
      BY Zenon, <3>1, <1>e DEF TypeOK
    <3> QED BY Zenon, <1>15, <3>1, <3>2 DEF Serve, TypeOK
  <2>4. CASE ~(r.kind = "terminate" \/ b \notin started)
    <3>1. /\ session' = [session EXCEPT ![b] = After(@, r.kind)]
          /\ inbox' = [inbox EXCEPT ![b] = Tail(@)]
          /\ outbox' = [outbox EXCEPT ![b] =
                Append(@, [from |-> r.from, n |-> r.n, shows |-> session'[b]])]
          /\ UNCHANGED up
      BY Zenon, <1>15, <2>4 DEF Serve
    <3>2. r.kind \in Statements \cup {"health"} /\ r.from \in Clients \cup {Proxy} /\ r.n \in 0..Window-1
      BY Zenon, <2>2, <2>4 DEF Requests
    <3> HIDE DEF r
    <3>3. session' \in [Backends -> Sessions]
      BY Zenon, <3>1, <3>2, AfterType DEF TypeOK
    <3>4. [from |-> r.from, n |-> r.n, shows |-> session'[b]] \in Responses
      BY Zenon, <3>2, <3>3 DEF Responses
    <3>5. outbox' \in [Backends -> Seq(Responses)]
      BY Zenon, <3>1, <3>4, Added DEF TypeOK
    <3>6. inbox' \in [Backends -> Seq(Requests)]
      BY Zenon, <2>2, <3>1 DEF TypeOK
    <3> QED BY ZenonT(30), <1>15, <3>1, <3>3, <3>5, <3>6 DEF Serve, TypeOK
  <2> QED BY Zenon, <2>3, <2>4
<1>16. ASSUME NEW b \in Backends, Crash(b) PROVE TypeOK'
  BY <1>16 DEF Crash, TypeOK
<1> QED
  BY Zenon, <1>0, <1>1, <1>2, <1>3, <1>4, <1>5, <1>6, <1>7, <1>8, <1>9, <1>10, <1>11, <1>12, <1>13,
     <1>14, <1>15, <1>16, <1>17 DEF Next, Recycling, Startup, Loop, Returns

-----------------------------------------------------------------------------
(* How the backends change hands in a step.                                *)
Moves ==
    \/ UNCHANGED <<conn, idle>>
    \/ \E c \in Clients :
         \/ \E b \in idle : idle' = idle \ {b} /\ Take(c, b)
         \/ \E b \in Backends : idle = {} /\ Unheld(b) /\ UNCHANGED idle /\ Take(c, b)
         \/ idle' = idle \cup ({conn[c]} \ {NoBackend}) /\ Take(c, NoBackend)
         \/ UNCHANGED idle /\ Take(c, NoBackend)

(* Every step is such a change.                                            *)
LEMMA NextMoves == TypeOK /\ [Next]_vars => Moves
<1> SUFFICES ASSUME TypeOK, [Next]_vars PROVE Moves
  BY Zenon
<1> USE DEF handlerVars, clientVars, serverVars
<1>0. CASE UNCHANGED vars
  BY Zenon, <1>0 DEF vars, Moves
<1>1. ASSUME NEW c \in Clients, AcquireIdle(c) PROVE Moves
  BY Zenon, <1>1 DEF AcquireIdle, Moves
<1>2. ASSUME NEW c \in Clients, RecycleReads(c) PROVE Moves
  BY Zenon, <1>2 DEF RecycleReads, RecycleFails, Moves
<1>3. ASSUME NEW c \in Clients, RecycleTimesOut(c) PROVE Moves
  BY Zenon, <1>3 DEF RecycleTimesOut, RecycleFails, Moves
<1>4. ASSUME NEW c \in Clients, AcquireNew(c) PROVE Moves
  BY Zenon, <1>4 DEF AcquireNew, Moves, Unheld
<1>5. ASSUME NEW c \in Clients, Returns(c) PROVE Moves
  BY Zenon, <1>5, ReturnsFinish DEF Finish, Over, Moves
<1>6. ASSUME NEW c \in Clients, ReplayStartup(c) \/ InitializeBackend(c) \/ Greet(c) PROVE Moves
  BY Zenon, <1>6 DEF ReplayStartup, InitializeBackend, Greet, Moves
<1>7. ASSUME NEW c \in Clients, InitializeFails(c) PROVE Moves
  BY Zenon, <1>7 DEF InitializeFails, Finish, Over, Moves
<1>8. ASSUME NEW c \in Clients, NEW k \in Kinds,
             ForwardQuery(c, k) \/ RejectQuery(c, k) PROVE Moves
  BY Zenon, <1>8 DEF ForwardQuery, RejectQuery, Moves
<1>9. ASSUME NEW c \in Clients, NEW k \in Kinds, QueryThenTerminate(c, k) PROVE Moves
  BY Zenon, <1>9 DEF QueryThenTerminate, Finish, Over, Moves
<1>10. ASSUME NEW c \in Clients, NEW m \in 1..Len(outbox[conn[c]]), BackendResponds(c, m)
       PROVE Moves
  <2>1. \/ UNCHANGED <<idle, conn, stage>>
        \/ idle' = idle \cup {conn[c]} /\ Take(c, NoBackend)
    BY Zenon, <1>10 DEF BackendResponds
  <2>2. conn[c] # NoBackend
    BY Zenon, <1>10 DEF BackendResponds, TypeOK
  <2> QED BY Zenon, <2>1, <2>2 DEF Moves
<1>11. ASSUME NEW c \in Clients, ResponseBegins(c) \/ ResponseEndsUnseen(c) PROVE Moves
  BY Zenon, <1>11 DEF ResponseBegins, ResponseEndsUnseen, Moves
<1>12. ASSUME NEW c \in Clients, RecycleInterrupted(c) PROVE Moves
  BY Zenon, <1>12 DEF RecycleInterrupted, Over, Moves
<1>13. ASSUME NEW b \in Backends, Serve(b) \/ Crash(b) PROVE Moves
  BY Zenon, <1>13 DEF Serve, Crash, Moves
<1> QED
  BY Zenon, <1>0, <1>1, <1>2, <1>3, <1>4, <1>5, <1>6, <1>7, <1>8, <1>9, <1>10, <1>11, <1>12, <1>13
  DEF Next, Recycling, Startup, Loop, Returns

(* In the first state no backend is held.                                  *)
LEMMA ExclusiveInit == Init => Exclusive
<1> SUFFICES ASSUME Init PROVE Exclusive
  BY Zenon
<1>1. idle \subseteq Backends
  BY Zenon, SessionAssumption DEF Init, Warmup
<1> QED BY Zenon, <1>1, SessionAssumption DEF Init, Exclusive

(* A backend keeps one owner.                                              *)
LEMMA ExclusiveStep == TypeOK /\ Exclusive /\ [Next]_vars => Exclusive'
<1> SUFFICES ASSUME TypeOK, Exclusive, Moves PROVE Exclusive'
  BY Zenon, NextMoves
<1>1. conn \in [Clients -> Backends \cup {NoBackend}] /\ idle \subseteq Backends
  BY Zenon DEF TypeOK
<1>2. CASE UNCHANGED <<conn, idle>>
  BY Zenon, <1>2 DEF Exclusive
<1>3. ASSUME NEW c \in Clients, NEW b \in idle, idle' = idle \ {b}, Take(c, b)
      PROVE  Exclusive'
  BY Zenon, <1>1, <1>3 DEF Exclusive, Take
<1>4. ASSUME NEW c \in Clients, NEW b \in Backends, idle = {}, Unheld(b), UNCHANGED idle, Take(c, b)
      PROVE  Exclusive'
  BY Zenon, <1>1, <1>4 DEF Exclusive, Take, Unheld
<1>5. ASSUME NEW c \in Clients, idle' = idle \cup ({conn[c]} \ {NoBackend}), Take(c, NoBackend)
      PROVE  Exclusive'
  BY Zenon, <1>1, <1>5, SessionAssumption DEF Exclusive, Take
<1>6. ASSUME NEW c \in Clients, UNCHANGED idle, Take(c, NoBackend)
      PROVE  Exclusive'
  BY Zenon, <1>1, <1>6, SessionAssumption DEF Exclusive, Take
<1> QED BY Zenon, <1>2, <1>3, <1>4, <1>5, <1>6 DEF Moves

(* The backends of different handlers are different.                       *)
LEMMA OneOwner ==
  ASSUME Exclusive, NEW c \in Clients, NEW d \in Clients, c # d, conn[c] # NoBackend
  PROVE  conn[d] # conn[c]
BY Zenon DEF Exclusive

(* The state keeps its types: a handler has a backend exactly while it is  *)
(* between acquire() and its end, and every stream holds what is sent.     *)
THEOREM SessionTypes == Spec => []TypeOK
BY TypeInit, TypeStep, PTL DEF Spec

-----------------------------------------------------------------------------
(* The greeting of the first client of a server is not interrupted.        *)
LEMMA StartedStep ==
  ~Interrupts /\ TypeOK /\ Exclusive /\ StartedInv /\ [Next]_vars => StartedInv'
<1> SUFFICES ASSUME ~Interrupts, TypeOK, Exclusive, StartedInv, [Next]_vars PROVE StartedInv'
  BY Zenon
<1> USE DEF handlerVars, clientVars, serverVars
<1>s. stage \in [Clients -> Stages] /\ conn \in [Clients -> Backends \cup {NoBackend}]
  BY Zenon DEF TypeOK
(* Nothing happens to a server, and nobody leaves greet.                   *)
<1>a. ASSUME UNCHANGED <<started, captured>>,
             \A d \in Clients : stage[d] = "greet" => stage'[d] = "greet" /\ conn'[d] = conn[d]
      PROVE  StartedInv'
  BY Zenon, <1>a DEF StartedInv
(* A server is disconnected, and nobody leaves greet.                      *)
<1>b. ASSUME NEW b \in Backends, Close(b),
             \A d \in Clients : stage[d] = "greet" => stage'[d] = "greet" /\ conn'[d] = conn[d]
      PROVE  StartedInv'
  BY Zenon, <1>b DEF StartedInv, Close
<1>0. CASE UNCHANGED vars
  BY Zenon, <1>0, <1>a DEF vars
<1>1. ASSUME NEW c \in Clients, AcquireIdle(c) \/ AcquireNew(c) PROVE StartedInv'
  BY Zenon, <1>1, <1>s, <1>a DEF AcquireIdle, AcquireNew, Take, GoTo
<1>2. ASSUME NEW c \in Clients, RecycleReads(c) PROVE StartedInv'
  <2>1. CASE RecycleFails(c)
    <3>1. conn[c] \in Backends /\ stage[c] # "greet"
      BY Zenon, <1>2 DEF RecycleReads, TypeOK
    <3> QED BY Zenon, <1>s, <2>1, <3>1, <1>b DEF RecycleFails, Take, GoTo
  <2>2. CASE ~RecycleFails(c)
    BY Zenon, <1>2, <1>s, <2>2, <1>a DEF RecycleReads, GoTo
  <2> QED BY Zenon, <2>1, <2>2
<1>3. ASSUME NEW c \in Clients, RecycleTimesOut(c) PROVE StartedInv'
  <2>1. conn[c] \in Backends /\ stage[c] # "greet"
    BY Zenon, <1>3 DEF RecycleTimesOut, TypeOK
  <2> QED BY Zenon, <1>3, <1>s, <2>1, <1>b DEF RecycleTimesOut, RecycleFails, Take, GoTo
<1>4. ASSUME NEW c \in Clients, Returns(c) PROVE StartedInv'
  <2>1. stage[c] # "greet"
    BY Zenon, <1>4 DEF Returns, AcquireFails, StartupInterrupted, ClientLeaves, BackendGone, QueryTimesOut
  <2> QED BY <1>4, <1>s, <2>1, ReturnsFinish, <1>a DEF Finish, Over, Take, GoTo
<1>5. ASSUME NEW c \in Clients, ReplayStartup(c) PROVE StartedInv'
  BY Zenon, <1>5, <1>s, <1>a DEF ReplayStartup, GoTo
<1>6. ASSUME NEW c \in Clients, Greet(c) PROVE StartedInv'
  BY Zenon, <1>6, <1>s DEF Greet, GoTo, StartedInv
<1>7. ASSUME NEW c \in Clients, InitializeBackend(c) PROVE StartedInv'
  BY <1>7, <1>s DEF InitializeBackend, GoTo, StartedInv
<1>8. ASSUME NEW c \in Clients, InitializeFails(c) PROVE StartedInv'
  BY Zenon, <1>8, <1>s, <1>a DEF InitializeFails, Finish, Over, Take, GoTo
<1>9. ASSUME NEW c \in Clients, NEW k \in Kinds,
             ForwardQuery(c, k) \/ RejectQuery(c, k) PROVE StartedInv'
  BY Zenon, <1>9, <1>a DEF ForwardQuery, RejectQuery
<1>10. ASSUME NEW c \in Clients, NEW m \in 1..Len(outbox[conn[c]]), BackendResponds(c, m)
       PROVE  StartedInv'
  <2>1. \/ UNCHANGED <<idle, conn, stage>>
        \/ Take(c, NoBackend) /\ GoTo(c, "acquire")
    BY Zenon, <1>10 DEF BackendResponds
  <2> QED BY ZenonT(30), <1>10, <1>s, <2>1, <1>a DEF BackendResponds, Take, GoTo
<1>11. ASSUME NEW c \in Clients, ResponseBegins(c) \/ ResponseEndsUnseen(c) PROVE StartedInv'
  BY Zenon, <1>11, <1>a DEF ResponseBegins, ResponseEndsUnseen
<1>12. ASSUME NEW b \in Backends, Serve(b) \/ Crash(b) PROVE StartedInv'
  BY Zenon, <1>12, <1>a DEF Serve, Crash
<1> QED
  BY Zenon, <1>0, <1>1, <1>2, <1>3, <1>4, <1>5, <1>6, <1>7, <1>8, <1>9, <1>10, <1>11, <1>12
  DEF Next, Recycling, Startup, Loop, Returns, QueryThenTerminate, RecycleInterrupted

(* Unless sessions are interrupted, no server is sent a second             *)
(* StartupMessage: initialize_backend_startup runs only on a backend that  *)
(* no client has used.                                                     *)
THEOREM StartsOnce ==
  ASSUME ~Interrupts
  PROVE  Spec => []StartedOnce
<1> DEFINE Inv == TypeOK /\ Exclusive /\ StartedInv
<1>1. Init => Inv
  BY Zenon, TypeInit, ExclusiveInit DEF Init, StartedInv
<1>2. Inv /\ [Next]_vars => Inv'
  BY Zenon, TypeStep, ExclusiveStep, StartedStep
<1>3. Inv => StartedOnce
  <2> SUFFICES ASSUME Inv, NEW c \in Clients, stage[c] = "startup",
                      conn[c] \notin captured, conn[c] \in started
               PROVE  FALSE
    BY Zenon DEF StartedOnce
  <2>1. PICK d \in Clients : stage[d] = "greet" /\ conn[d] = conn[c]
    BY Zenon DEF StartedInv
  <2>2. conn[c] # NoBackend
    BY Zenon DEF TypeOK
  <2> QED BY Zenon, <2>1, <2>2 DEF Exclusive
<1> QED BY <1>1, <1>2, <1>3, PTL DEF Spec

-----------------------------------------------------------------------------
(* A step of one handler and of its backend leaves the others alone.  b is *)
(* the backend that c has, gets or gives up, or NoBackend.                 *)
Local(c, b) ==
    /\ b \in Backends \cup {NoBackend}
    /\ conn[c] \in {b, NoBackend} /\ conn'[c] \in {b, NoBackend}
    /\ \A d \in Clients \ {c} :
         /\ b # NoBackend => conn[d] # b
         /\ stage'[d] = stage[d] /\ conn'[d] = conn[d] /\ asked'[d] = asked[d]
         /\ answer'[d] = answer[d] /\ did'[d] = did[d] /\ tracker'[d] = tracker[d]
         /\ (d \in armed' <=> d \in armed) /\ (d \in pinned' <=> d \in pinned)
    /\ \A e \in Backends \ {b} :
         /\ inbox'[e] = inbox[e] /\ outbox'[e] = outbox[e] /\ session'[e] = session[e]
         /\ (e \in up' <=> e \in up) /\ (e \in idle' <=> e \in idle)

(* The separation of the clients depends on the backend's stream and       *)
(* session, and on what the client did.                                    *)
LEMMA PartedFrame ==
  ASSUME NEW e, NEW d, Parted(e, d), inbox'[e] = inbox[e], session'[e] = session[e], did'[d] = did[d]
  PROVE  Parted(e, d)'
BY Zenon DEF Parted

(* What holds of the other handlers and backends still does.               *)
LEMMA LocalCalm ==
  ASSUME TypeOK, CalmInv, NEW c \in Clients, NEW b, Local(c, b),
         b \in Backends => CalmAt(b)' /\ SentAt(b)',
         tracker'[c] = "I", PartedOf(c)', stage[c] # "done"
  PROVE  CalmInv'
<1>s. NoBackend \notin Backends /\ \A d \in Clients : conn[d] \in Backends \cup {NoBackend}
  BY Zenon, SessionAssumption DEF TypeOK
<1>1. ASSUME NEW e \in Backends, e # b PROVE CalmAt(e)' /\ SentAt(e)'
  <2>1. CalmAt(e) /\ SentAt(e)
    BY Zenon DEF CalmInv
  <2>2. /\ inbox'[e] = inbox[e] /\ outbox'[e] = outbox[e] /\ session'[e] = session[e]
        /\ e \in idle' <=> e \in idle
    BY Zenon, <1>1 DEF Local
  <2>3. Unheld(e)' => Unheld(e)
    BY <1>1, <1>s DEF Local, Unheld
  <2>4. CalmAt(e)'
    BY Zenon, <2>1, <2>2, <2>3 DEF CalmAt
  <2>5. SentAt(e)'
    <3> SUFFICES ASSUME NEW i \in DOMAIN inbox[e], NEW r, r = inbox[e][i],
                        r.from \in Clients, stage'[r.from] # "done"
                 PROVE  /\ stage'[r.from] = "loop" /\ conn'[r.from] = e
                        /\ r.kind = "set" => "set" \in did'[r.from]
      BY Zenon, <2>2 DEF SentAt
    <3>1. stage[r.from] # "done"
      BY Zenon DEF Local
    <3>2. conn[r.from] = e /\ stage[r.from] = "loop" /\ (r.kind = "set" => "set" \in did[r.from])
      BY Zenon, <2>1, <3>1 DEF SentAt
    <3>3. r.from # c
      <4>1. conn[c] \in {b, NoBackend}
        BY Zenon DEF Local
      <4> QED BY Zenon, <1>1, <1>s, <3>2, <4>1
    <3> QED BY Zenon, <3>2, <3>3 DEF Local
  <2> QED BY Zenon, <2>4, <2>5
<1>2. ASSUME NEW d \in Clients, d # c PROVE tracker'[d] = "I" /\ PartedOf(d)'
  <2>1. tracker[d] = "I" /\ PartedOf(d)
    BY Zenon DEF CalmInv
  <2>2. tracker'[d] = tracker[d] /\ stage'[d] = stage[d] /\ conn'[d] = conn[d] /\ did'[d] = did[d]
    BY Zenon, <1>2 DEF Local
  <2>3. CASE stage[d] \in {"reset", "startup", "greet", "loop"}
    <3>b. PICK e : e = conn[d]
      BY Zenon
    <3>1. e \in Backends /\ e # b
      <4>1. conn[d] # NoBackend
        BY Zenon, <2>3 DEF TypeOK
      <4> QED BY Zenon, <1>2, <1>s, <3>b, <4>1 DEF Local
    <3>2. inbox'[e] = inbox[e] /\ session'[e] = session[e] /\ (e \in up' <=> e \in up)
      BY Zenon, <3>1 DEF Local
    <3>3. Parted(e, d) => Parted(e, d)'
      BY Zenon, <2>2, <3>2, PartedFrame
    <3> QED BY Zenon, <2>1, <2>2, <3>b, <3>2, <3>3 DEF PartedOf
  <2>4. CASE stage[d] \notin {"reset", "startup", "greet", "loop"}
    BY Zenon, <2>1, <2>2, <2>4 DEF PartedOf
  <2> QED BY Zenon, <2>1, <2>2, <2>3, <2>4
<1> QED BY Zenon, <1>1, <1>2 DEF CalmInv

(* Without BEGIN there is no transaction, only SET makes a setting and     *)
(* DISCARD ALL removes it.                                                 *)
LEMMA AfterCalm ==
  ASSUME NEW s \in Sessions, NEW k \in Statements \cup {"health"}, s.txn = "I", k # "begin"
  PROVE  /\ After(s, k).txn = "I"
         /\ After(s, k).guc => s.guc \/ k = "set"
         /\ k = "discard" => ~After(s, k).guc
BY Zenon DEF After, Sessions, Statements, Statuses, Failed, FreshSession

(* A client that is not in its loop has no statement under way.            *)
LEMMA Unsent ==
  ASSUME TypeOK, CalmInv, NEW c \in Clients, stage[c] \notin {"loop", "done"}, NEW b \in Backends,
         NEW i \in DOMAIN inbox[b]
  PROVE  inbox[b][i].from # c
BY DEF CalmInv, SentAt

(* An addition to a stream.                                                *)
LEMMA Longer ==
  ASSUME NEW S, NEW s \in Seq(S), NEW r \in S
  PROVE  /\ s \o <<r>> \in Seq(S) /\ DOMAIN (s \o <<r>>) = DOMAIN s \cup {Len(s) + 1}
         /\ Len(s) + 1 \notin DOMAIN s
         /\ (s \o <<r>>)[Len(s) + 1] = r
         /\ \A i \in DOMAIN s : (s \o <<r>>)[i] = s[i]
<1>1. <<r>> \in Seq(S) /\ Len(<<r>>) = 1 /\ <<r>>[1] = r /\ Len(s) \in Nat /\ DOMAIN s = 1..Len(s)
  OBVIOUS
<1>2. /\ s \o <<r>> \in Seq(S) /\ Len(s \o <<r>>) = Len(s) + 1
      /\ \A i \in 1 .. Len(s) + 1 : (s \o <<r>>)[i] = IF i <= Len(s) THEN s[i] ELSE <<r>>[i - Len(s)]
  BY <1>1, Joined
<1>3. ASSUME NEW n \in Nat PROVE 1..(n + 1) = (1..n) \cup {n + 1} /\ n + 1 \notin 1..n /\ n + 1 - n = 1
                                 /\ ~(n + 1 <= n) /\ n + 1 \in 1..(n+1) /\ \A i \in 1..n : i <= n /\ i \in 1..(n+1)
  BY <1>3
<1>4. DOMAIN (s \o <<r>>) = 1..(Len(s) + 1)
  BY <1>2
<1> QED BY <1>1, <1>2, <1>3, <1>4

(* Tail reads one element.                                                 *)
LEMMA TailRest ==
  ASSUME NEW S, NEW s \in Seq(S), s # <<>>
  PROVE  1 \in 1..Len(s) /\ Tail(s) = SubSeq(s, 1 + 1, Len(s))
<1>1. Len(s) \in Nat /\ Len(s) # 0
  BY Zenon, NoLength
<1>2. 1 \in 1..Len(s) /\ 1 + 1 = 2
  BY <1>1
<1> QED BY <1>2

(* What CalmInv depends on.                                                *)
LEMMA CalmFrame ==
  ASSUME CalmInv, UNCHANGED <<session, inbox, outbox, up, idle, stage, conn, tracker, did>>
  PROVE  CalmInv'
<1>1. ASSUME NEW b \in Backends PROVE CalmAt(b)'
  BY Zenon DEF CalmInv, CalmAt, Unheld
<1>2. ASSUME NEW b \in Backends PROVE SentAt(b)'
  BY DEF CalmInv, SentAt
<1>3. ASSUME NEW c \in Clients PROVE PartedOf(c)'
  BY DEF CalmInv, PartedOf, Parted
<1> QED BY Zenon, <1>1, <1>2, <1>3 DEF CalmInv

(* The pieces of CalmInv depend on little: what is known of the requests   *)
(* sent to a backend, on the clients' stages;                              *)
LEMMA SentFrame ==
  ASSUME NEW e, SentAt(e), inbox'[e] = inbox[e] \/ inbox'[e] = <<>>, UNCHANGED <<stage, conn, did>>
  PROVE  SentAt(e)'
<1>1. ASSUME NEW i \in DOMAIN inbox'[e] PROVE i \in DOMAIN inbox[e] /\ inbox'[e][i] = inbox[e][i]
  BY <1>1
<1> QED BY ZenonT(30), <1>1 DEF SentAt

(* the calm of a backend, on its streams, its session and its holder;      *)
LEMMA QuietFrame ==
  ASSUME NEW e, CalmAt(e), inbox'[e] = inbox[e] \/ inbox'[e] = <<>>,
         session'[e] = session[e], outbox'[e] = outbox[e], UNCHANGED <<conn, idle>>
  PROVE  CalmAt(e)'
<1>1. ASSUME NEW i \in DOMAIN inbox'[e] PROVE i \in DOMAIN inbox[e] /\ inbox'[e][i] = inbox[e][i]
  BY <1>1
<1> QED BY Zenon, <1>1 DEF CalmAt, Unheld

(* and a new server is calm.                                               *)
LEMMA FreshCalm ==
  ASSUME NEW e, inbox'[e] = <<>>, outbox'[e] = <<>>, session'[e] = FreshSession
  PROVE  CalmAt(e)' /\ SentAt(e)'
<1>1. DOMAIN inbox'[e] = {} /\ DOMAIN outbox'[e] = {}
  OBVIOUS
<1>2. session'[e].txn = "I" /\ ~session'[e].guc
  BY DEF FreshSession
<1> QED BY Zenon, <1>1, <1>2 DEF CalmAt, SentAt

(* Without BEGIN, a client meets only settings that it made itself.        *)
LEMMA CalmStep ==
  "begin" \notin Kinds /\ TypeOK /\ Exclusive /\ CalmInv /\ [Next]_vars => CalmInv'
<1> SUFFICES ASSUME "begin" \notin Kinds, TypeOK, Exclusive, CalmInv, [Next]_vars PROVE CalmInv'
  BY Zenon
<1> USE DEF handlerVars, clientVars, serverVars
<1>s. /\ stage \in [Clients -> Stages] /\ conn \in [Clients -> Backends \cup {NoBackend}]
      /\ asked \in [Clients -> Seq(Kinds)] /\ did \in [Clients -> SUBSET Kinds]
      /\ answer \in [Clients -> Responses] /\ tracker \in [Clients -> Statuses]
      /\ session \in [Backends -> Sessions]
      /\ inbox \in [Backends -> Seq(Requests)] /\ outbox \in [Backends -> Seq(Responses)]
      /\ NoBackend \notin Backends /\ idle \subseteq Backends /\ Proxy \notin Clients
      /\ \A c \in Clients : conn[c] # NoBackend <=> stage[c] \notin {"acquire", "done"}
  BY Zenon, SessionAssumption DEF TypeOK
<1>q. /\ \A c \in Clients : tracker[c] = "I" /\ PartedOf(c)
      /\ \A b \in Backends : CalmAt(b) /\ SentAt(b)
  BY Zenon DEF CalmInv
(* The proxy writes a request of its own to b, for c.                      *)
<1>w. ASSUME NEW b \in Backends, NEW c \in Clients, NEW r \in Requests, r.from = Proxy, r.kind # "begin",
             Write(b, <<r>>), UNCHANGED <<session, did, up>>, stage[c] \notin {"loop", "done"},
             \A d \in Clients : d # c => stage'[d] = stage[d] /\ conn'[d] = conn[d],
             outbox' = outbox \/ \A i \in DOMAIN outbox'[b] : outbox'[b][i].shows.txn = "I",
             ~Unheld(b)'
      PROVE  /\ CalmAt(b)' /\ SentAt(b)'
             /\ b \in up /\ r.kind = "discard" => Parted(b, c)'
  <2>1. CalmAt(b) /\ SentAt(b)
    BY Zenon, <1>q
  <2>2. inbox'[b] = (IF b \in up THEN inbox[b] \o <<r>> ELSE inbox[b])
    BY Zenon, <1>w, <1>s DEF Write
  <2>3. /\ DOMAIN (inbox[b] \o <<r>>) = DOMAIN inbox[b] \cup {Len(inbox[b]) + 1}
        /\ (inbox[b] \o <<r>>)[Len(inbox[b]) + 1] = r
        /\ \A i \in DOMAIN inbox[b] : (inbox[b] \o <<r>>)[i] = inbox[b][i]
    <3>1. inbox[b] \in Seq(Requests) /\ r \in Requests
      BY Zenon, <1>w, <1>s
    <3> QED BY <3>1, Longer
  <2>4. ASSUME NEW i \in DOMAIN inbox'[b]
        PROVE  inbox'[b][i] = r \/ (i \in DOMAIN inbox[b] /\ inbox'[b][i] = inbox[b][i])
    BY Zenon, <2>2, <2>3, <2>4
  <2>5. CalmAt(b)'
    BY ZenonT(30), <1>w, <2>1, <2>4 DEF CalmAt
  <2>6. SentAt(b)'
    <3> SUFFICES ASSUME NEW i \in DOMAIN inbox'[b], NEW q, q = inbox'[b][i],
                        q.from \in Clients, stage'[q.from] # "done"
                 PROVE  /\ stage'[q.from] = "loop" /\ conn'[q.from] = b
                        /\ q.kind = "set" => "set" \in did'[q.from]
      BY Zenon DEF SentAt
    <3>1. i \in DOMAIN inbox[b] /\ q = inbox[b][i]
      BY Zenon, <1>w, <1>s, <2>4
    <3>2. q.from # c
      BY Zenon, <3>1, <1>w, Unsent
    <3>3. stage'[q.from] = stage[q.from] /\ conn'[q.from] = conn[q.from] /\ did' = did
      BY Zenon, <1>w, <3>2
    <3> QED BY Zenon, <2>1, <3>1, <3>3 DEF SentAt
  <2>7. ASSUME b \in up, r.kind = "discard" PROVE Parted(b, c)'
    <3>1. inbox[b] \in Seq(Requests)
      BY Zenon, <1>s
    <3>2. \A i \in DOMAIN inbox[b] : ~(i > Len(inbox[b]) + 1)
      BY <3>1
    <3>3. ~(Len(inbox[b]) + 1 > Len(inbox[b]) + 1)
      BY <3>1
    <3>4. \A i \in DOMAIN inbox[b] : inbox[b][i].from # c
      BY Zenon, <1>w, Unsent
    <3>5. /\ inbox'[b][Len(inbox[b]) + 1] = r /\ Len(inbox[b]) + 1 \in DOMAIN inbox'[b]
          /\ \A i \in DOMAIN inbox'[b] : ~(i > Len(inbox[b]) + 1) /\ inbox'[b][i].from # c
      <4>1. r.from # c /\ inbox'[b] = inbox[b] \o <<r>>
        BY Zenon, <1>w, <1>s, <2>2, <2>7
      <4> QED BY Zenon, <2>3, <3>2, <3>3, <3>4, <4>1
    <3> QED BY Zenon, <1>w, <2>7, <3>5 DEF Parted
  <2> QED BY Zenon, <2>5, <2>6, <2>7
<1>0. CASE UNCHANGED vars
  BY Zenon, <1>0, CalmFrame DEF vars, handlerVars, clientVars, serverVars
<1>1. ASSUME NEW c \in Clients, AcquireIdle(c) PROVE CalmInv'
  <2>1. PICK b \in idle : idle' = idle \ {b} /\ Take(c, b)
                          /\ Write(b, <<Request(Proxy, 0, "health")>>)
    BY Zenon, <1>1 DEF AcquireIdle
  <2>2. b \in Backends /\ conn[c] = NoBackend /\ stage[c] = "acquire" /\ Unheld(b)
    BY <1>1, <1>s DEF AcquireIdle, Exclusive, Unheld
  <2>3. Local(c, b)
    BY <1>1, <1>s, <2>1, <2>2 DEF AcquireIdle, Local, Take, GoTo, Write, Unheld
  <2>4. stage' = [stage EXCEPT ![c] = "health"] /\ conn' = [conn EXCEPT ![c] = b]
    BY Zenon, <1>1, <2>1 DEF AcquireIdle, GoTo, Take
  <2>r. PICK r \in Requests : r = Request(Proxy, 0, "health") /\ r.from = Proxy /\ r.kind # "begin"
    <3>1. Request(Proxy, 0, "health") \in Requests
      BY Zenon, Numbers DEF Request, Requests
    <3>2. Request(Proxy, 0, "health").from = Proxy /\ Request(Proxy, 0, "health").kind # "begin"
      BY Zenon DEF Request
    <3> QED BY Zenon, <3>1, <3>2
  <2>5. CalmAt(b)' /\ SentAt(b)'
    <3>1. ~Unheld(b)' /\ UNCHANGED <<session, did, up, outbox>>
      BY Zenon, <1>1, <1>s, <2>4 DEF Unheld, AcquireIdle
    <3> QED BY Zenon, <1>s, <2>1, <2>2, <2>4, <2>r, <3>1, <1>w
  <2>6. tracker'[c] = "I" /\ PartedOf(c)'
    BY Zenon, <1>1, <1>s, <1>q, <2>4 DEF AcquireIdle, PartedOf
  <2> QED BY Zenon, <2>2, <2>3, <2>5, <2>6, LocalCalm
(* A backend is disconnected.                                              *)
<1>2. ASSUME NEW c \in Clients, stage[c] \in {"health", "reset"}, Close(conn[c]), Take(c, NoBackend),
             stage' = [stage EXCEPT ![c] = "acquire"] \/ stage' = [stage EXCEPT ![c] = "done"],
             Local(c, conn[c]), tracker'[c] = "I"
      PROVE  CalmInv'
  <2>b. PICK b \in Backends : b = conn[c]
    BY Zenon, <1>2, <1>s
  <2>1. /\ inbox'[b] = <<>> /\ outbox'[b] = <<>> /\ session'[b] = FreshSession
    BY Zenon, <2>b, <1>2, <1>s DEF Close
  <2>2. CalmAt(b)' /\ SentAt(b)'
    BY Zenon, <2>1, FreshCalm
  <2>3. PartedOf(c)'
    BY Zenon, <1>2, <1>s DEF PartedOf
  <2> QED BY Zenon, <2>b, <1>2, <2>2, <2>3, LocalCalm
<1>3. ASSUME NEW c \in Clients, stage[c] \in {"health", "reset"}, RecycleFails(c),
             UNCHANGED <<mode, begun, tracker, pinned, armed, partial, clientVars, idle>>
      PROVE  CalmInv'
  <2>b. PICK b \in Backends : b = conn[c]
    BY Zenon, <1>3, <1>s
  <2>1. \A d \in Clients \ {c} : conn[d] # b
    BY Zenon, <2>b, <1>s, OneOwner
  <2>2. Local(c, b)
    BY <2>b, <1>3, <1>s, <2>1 DEF RecycleFails, Local, Close, Take, GoTo
  <2> QED BY Zenon, <2>b, <1>3, <1>q, <2>2, <1>2 DEF RecycleFails, GoTo
<1>4. ASSUME NEW c \in Clients, RecycleInterrupted(c) PROVE CalmInv'
  <2>b. PICK b \in Backends : b = conn[c]
    BY Zenon, <1>4, <1>s DEF RecycleInterrupted
  <2>1. \A d \in Clients \ {c} : conn[d] # b
    BY Zenon, <2>b, <1>s, OneOwner
  <2>2. Local(c, b)
    BY <2>b, <1>4, <1>s, <2>1 DEF RecycleInterrupted, Over, Local, Close, Take, GoTo
  <2>3. tracker'[c] = "I"
    BY Zenon, <1>4, <1>s DEF RecycleInterrupted, Over
  <2> QED BY Zenon, <2>b, <1>4, <2>2, <2>3, <1>2 DEF RecycleInterrupted, Over, GoTo
<1>5. ASSUME NEW c \in Clients, RecycleReads(c), ~RecycleFails(c) PROVE CalmInv'
  <2>b. PICK b \in Backends : b = conn[c]
    BY Zenon, <1>5, <1>s DEF RecycleReads
  <2>1. stage[c] \in {"health", "reset"} /\ \A d \in Clients \ {c} : conn[d] # b
    BY Zenon, <2>b, <1>5, <1>s, OneOwner DEF RecycleReads
  <2>2. PICK m \in 1..Len(outbox[b]) :
           /\ outbox' = [outbox EXCEPT ![b] = SubSeq(@, m + 1, Len(@))]
           /\ IF stage[c] = "health"
                THEN Write(b, <<Request(Proxy, 0, "discard")>>) /\ GoTo(c, "reset")
                ELSE GoTo(c, "startup") /\ UNCHANGED inbox
           /\ UNCHANGED <<conn, captured, up, started, session>>
    BY Zenon, <2>b, <1>5 DEF RecycleReads
  <2>3. UNCHANGED <<mode, begun, tracker, pinned, armed, partial, clientVars, idle>>
    BY Zenon, <1>5 DEF RecycleReads
  <2>4. Local(c, b)
    BY <2>b, <1>s, <2>1, <2>2, <2>3 DEF Local, Write, GoTo
  <2>5. \A i \in DOMAIN outbox'[b] : outbox'[b][i].shows.txn = "I"
    <3>1. outbox[b] \in Seq(Responses) /\ m \in 0..Len(outbox[b])
      BY <1>s
    <3>t. PICK t : t = SubSeq(outbox[b], m + 1, Len(outbox[b]))
      BY Zenon
    <3>2. /\ t \in Seq(Responses) /\ Len(t) = Len(outbox[b]) - m
          /\ \A i \in 1..(Len(outbox[b]) - m) : t[i] = outbox[b][i + m]
      BY SMTT(30), <3>1, <3>t, Rest
    <3>3. \A i \in DOMAIN t : i + m \in DOMAIN outbox[b] /\ t[i] = outbox[b][i + m]
      BY <3>1, <3>2
    <3>4. outbox'[b] = t
      BY Zenon, <1>s, <2>2, <3>t
    <3>5. \A i \in DOMAIN outbox[b] : outbox[b][i].shows.txn = "I"
      BY Zenon, <1>q DEF CalmAt
    <3> QED BY Zenon, <3>3, <3>4, <3>5
  <2>6. CASE stage[c] = "health"
    <3>r. PICK r \in Requests : r = Request(Proxy, 0, "discard") /\ r.from = Proxy /\ r.kind = "discard"
      <4>1. Request(Proxy, 0, "discard") \in Requests
        BY Zenon, Numbers DEF Request, Requests, Statements
      <4>2. Request(Proxy, 0, "discard").from = Proxy /\ Request(Proxy, 0, "discard").kind = "discard"
        BY Zenon DEF Request
      <4> QED BY Zenon, <4>1, <4>2
    <3>1. Write(b, <<r>>) /\ stage' = [stage EXCEPT ![c] = "reset"] /\ ~Unheld(b)'
      BY Zenon, <2>b, <2>2, <2>6, <3>r DEF GoTo, Unheld
    <3>2. r.kind # "begin" /\ UNCHANGED <<session, did, up, conn>>
      BY Zenon, <2>2, <2>3, <3>r
    <3>3. \A d \in Clients : d # c => stage'[d] = stage[d] /\ conn'[d] = conn[d]
      BY Zenon, <1>s, <2>2, <3>1
    <3>4. CalmAt(b)' /\ SentAt(b)' /\ (b \in up => Parted(b, c)')
      BY Zenon, <2>1, <2>5, <2>6, <3>r, <3>1, <3>2, <3>3, <1>w
    <3>5. PartedOf(c)' /\ tracker'[c] = "I"
      BY ZenonT(30), <2>b, <1>q, <2>2, <2>3, <3>4 DEF PartedOf
    <3> QED BY Zenon, <2>1, <2>4, <3>4, <3>5, LocalCalm
  <2>7. CASE stage[c] = "reset"
    <3>1. stage' = [stage EXCEPT ![c] = "startup"] /\ UNCHANGED <<inbox, conn, up, session, did>>
      BY Zenon, <2>2, <2>3, <2>7 DEF GoTo
    <3>2. CalmAt(b)'
      BY Zenon, <1>q, <2>3, <2>5, <3>1 DEF CalmAt, Unheld
    <3>3. SentAt(b)'
      <4>1. ASSUME NEW i \in DOMAIN inbox[b] PROVE inbox[b][i].from # c
        BY Zenon, <2>7, Unsent
      <4> SUFFICES ASSUME NEW i \in DOMAIN inbox[b], NEW q, q = inbox[b][i],
                          q.from \in Clients, stage'[q.from] # "done"
                   PROVE  /\ stage'[q.from] = "loop" /\ conn'[q.from] = b
                          /\ q.kind = "set" => "set" \in did'[q.from]
        BY Zenon, <3>1 DEF SentAt
      <4>2. q.from # c
        BY Zenon, <4>1
      <4>3. stage'[q.from] = stage[q.from]
        BY Zenon, <1>s, <3>1, <4>2
      <4>4. SentAt(b) /\ conn' = conn /\ did' = did
        BY Zenon, <1>q, <3>1
      <4>5. stage[q.from] = "loop" /\ conn[q.from] = b /\ (q.kind = "set" => "set" \in did[q.from])
        BY Zenon, <4>3, <4>4 DEF SentAt
      <4> QED BY Zenon, <4>3, <4>4, <4>5
    <3>4. PartedOf(c)'
      <4>1. b \in up => Parted(b, c)
        BY Zenon, <2>b, <1>q, <2>7 DEF PartedOf
      <4>2. Parted(b, c) => Parted(b, c)'
        BY Zenon, <3>1 DEF Parted
      <4> QED BY Zenon, <2>b, <3>1, <4>1, <4>2 DEF PartedOf
    <3>5. tracker'[c] = "I"
      BY Zenon, <1>q, <2>3
    <3> QED BY Zenon, <2>1, <2>4, <3>2, <3>3, <3>4, <3>5, LocalCalm
  <2> QED BY Zenon, <2>1, <2>6, <2>7
<1>6. ASSUME NEW c \in Clients, AcquireNew(c) PROVE CalmInv'
  <2>1. PICK b \in Backends : (\A d \in Clients : conn[d] # b) /\ Take(c, b)
    BY Zenon, <1>6 DEF AcquireNew
  <2>2. stage[c] = "acquire" /\ idle = {} /\ conn[c] = NoBackend
    BY Zenon, <1>6, <1>s DEF AcquireNew
  <2>3. Local(c, b)
    BY <1>6, <1>s, <2>1, <2>2 DEF AcquireNew, Local, Take, GoTo
  <2>4. inbox[b] = <<>> /\ ~session[b].guc /\ CalmAt(b)
    BY Zenon, <1>q, <2>1, <2>2 DEF CalmAt, Unheld
  <2>5. conn'[c] = b /\ stage'[c] = "startup" /\ UNCHANGED <<inbox, outbox, session, tracker, idle>>
    BY Zenon, <1>6, <1>s, <2>1 DEF AcquireNew, Take, GoTo
  <2>6. CalmAt(b)' /\ SentAt(b)'
    BY <2>4, <2>5 DEF CalmAt, SentAt
  <2>7. Parted(b, c)'
    BY <2>4, <2>5 DEF Parted
  <2>8. PartedOf(c)' /\ tracker'[c] = "I"
    BY Zenon, <1>q, <2>5, <2>7 DEF PartedOf
  <2> QED BY Zenon, <2>2, <2>3, <2>6, <2>8, LocalCalm
(* A handler returns.  Its last statements may still be on their way.      *)
<1>7. ASSUME NEW c \in Clients, stage[c] # "done", Finish(c), UNCHANGED <<session, outbox>>,
             NEW b, b = conn[c], Local(c, b),
             \A i \in DOMAIN inbox'[b] :
               LET r == inbox'[b][i] IN
               \/ \E j \in DOMAIN inbox[b] : r = inbox[b][j]
               \/ r.from = c /\ r.kind # "begin"
      PROVE  CalmInv'
  <2>1. /\ conn' = [conn EXCEPT ![c] = NoBackend] /\ stage' = [stage EXCEPT ![c] = "done"]
        /\ tracker' = [tracker EXCEPT ![c] = "I"] /\ did' = [did EXCEPT ![c] = {}]
        /\ idle' = idle \cup ({conn[c]} \ {NoBackend})
    BY Zenon, <1>7 DEF Finish, Over, Take, GoTo
  <2>2. tracker'[c] = "I" /\ PartedOf(c)'
    BY Zenon, <1>s, <2>1 DEF PartedOf
  <2>3. ASSUME b \in Backends PROVE CalmAt(b)' /\ SentAt(b)'
    <3>1. CalmAt(b) /\ SentAt(b) /\ b \in idle'
      BY Zenon, <1>7, <2>3, <1>s, <1>q, <2>1
    <3>2. CalmAt(b)'
      BY Zenon, <1>7, <3>1 DEF CalmAt
    <3>3. SentAt(b)'
      <4> SUFFICES ASSUME NEW i \in DOMAIN inbox'[b], NEW q, q = inbox'[b][i],
                          q.from \in Clients, stage'[q.from] # "done"
                   PROVE  /\ stage'[q.from] = "loop" /\ conn'[q.from] = b
                          /\ q.kind = "set" => "set" \in did'[q.from]
        BY Zenon DEF SentAt
      <4>1. q.from # c
        BY Zenon, <1>s, <2>1
      <4>2. PICK j \in DOMAIN inbox[b] : q = inbox[b][j]
        BY Zenon, <1>7, <4>1
      <4>3. /\ stage'[q.from] = stage[q.from] /\ conn'[q.from] = conn[q.from] /\ did'[q.from] = did[q.from]
        BY Zenon, <1>s, <2>1, <4>1
      <4> QED BY ZenonT(30), <3>1, <4>2, <4>3 DEF SentAt
    <3> QED BY Zenon, <3>2, <3>3
  <2> QED BY Zenon, <1>7, <2>2, <2>3, LocalCalm
<1>8. ASSUME NEW c \in Clients, Returns(c) PROVE CalmInv'
  <2>b. PICK b : b = conn[c]
    BY Zenon
  <2>1. Finish(c) /\ UNCHANGED <<mode, captured, serverVars>>
    BY Zenon, <1>8, ReturnsFinish
  <2>2. stage[c] # "done"
    BY Zenon, <1>8 DEF Returns, AcquireFails, StartupInterrupted, ClientLeaves, BackendGone, QueryTimesOut
  <2>3. \A d \in Clients \ {c} : b # NoBackend => conn[d] # b
    BY Zenon, <2>b, <1>s, OneOwner
  <2>4. Local(c, b)
    BY <2>b, <1>s, <2>1, <2>3 DEF Local, Finish, Over, Take, GoTo
  <2> QED BY Zenon, <2>b, <2>1, <2>2, <2>4, <1>7
<1>9. ASSUME NEW c \in Clients, InitializeFails(c) PROVE CalmInv'
  <2>b. PICK b \in Backends : b = conn[c]
    BY Zenon, <1>9, <1>s DEF InitializeFails
  <2>1. \A d \in Clients \ {c} : conn[d] # b
    BY Zenon, <2>b, <1>s, OneOwner
  <2>2. Local(c, b)
    BY <2>b, <1>9, <1>s, <2>1 DEF InitializeFails, Local, Finish, Over, Take, GoTo
  <2>3. inbox'[b] = <<>>
    BY Zenon, <2>b, <1>9, <1>s DEF InitializeFails
  <2>4. DOMAIN inbox'[b] = {}
    BY <2>3
  <2> QED BY Zenon, <2>b, <1>9, <2>2, <2>4, <1>7 DEF InitializeFails
(* Statements of c are added to a stream.                                  *)
<1>r. ASSUME NEW c \in Clients, NEW k \in Kinds
      PROVE  \E r \in Requests : r = Request(c, Number(c), k) /\ r.from = c /\ r.kind = k /\ k # "begin"
  <2>1. Number(c) \in 0..Window-1
    BY Zenon, NumberType
  <2>2. Request(c, Number(c), k) \in Requests
    BY Zenon, <2>1, SessionAssumption DEF Request, Requests
  <2>3. Request(c, Number(c), k).from = c /\ Request(c, Number(c), k).kind = k
    BY Zenon DEF Request
  <2> QED BY Zenon, <2>2, <2>3
<1>10. ASSUME NEW c \in Clients, NEW k \in Kinds, QueryThenTerminate(c, k) PROVE CalmInv'
  <2>b. PICK b \in Backends : b = conn[c]
    BY Zenon, <1>10, <1>s DEF QueryThenTerminate
  <2>1. \A d \in Clients \ {c} : conn[d] # b
    BY Zenon, <2>b, <1>s, OneOwner
  <2>2. Local(c, b)
    BY Zenon, <2>b, <1>10, <1>s, <2>1 DEF QueryThenTerminate, Local, Finish, Over, Take, GoTo, Write
  <2>r. PICK r \in Requests : r = Request(c, Number(c), k) /\ r.from = c /\ r.kind = k /\ k # "begin"
    BY Zenon, <1>r
  <2>q. PICK q \in Requests : q = Request(c, 0, "terminate") /\ q.from = c /\ q.kind = "terminate"
    <3>1. Request(c, 0, "terminate") \in Requests
      BY Zenon, Numbers DEF Request, Requests
    <3>2. Request(c, 0, "terminate").from = c /\ Request(c, 0, "terminate").kind = "terminate"
      BY Zenon DEF Request
    <3> QED BY Zenon, <3>1, <3>2
  <2>3. inbox'[b] = (IF b \in up THEN inbox[b] \o <<r, q>> ELSE inbox[b])
    BY Zenon, <2>b, <2>r, <2>q, <1>10, <1>s DEF QueryThenTerminate, Write
  <2>4. inbox[b] \in Seq(Requests) /\ inbox[b] \o <<r>> \in Seq(Requests)
    BY Zenon, <1>s, Longer
  <2>5. inbox[b] \o <<r, q>> = (inbox[b] \o <<r>>) \o <<q>>
    <3>1. <<r, q>> = <<r>> \o <<q>> /\ <<r>> \in Seq(Requests) /\ <<q>> \in Seq(Requests)
      OBVIOUS
    <3>2. (inbox[b] \o <<r>>) \o <<q>> = inbox[b] \o (<<r>> \o <<q>>)
      <4>1. PICK x \in Seq(Requests), y \in Seq(Requests), z \in Seq(Requests) :
               x = inbox[b] /\ y = <<r>> /\ z = <<q>>
        BY Zenon, <2>4, <3>1
      <4>2. (x \o y) \o z = x \o (y \o z)
        OBVIOUS
      <4> QED BY <4>1, <4>2, Zenon
    <3> QED BY <3>1, <3>2, Zenon
  <2>6. ASSUME NEW i \in DOMAIN inbox'[b]
        PROVE  \/ \E j \in DOMAIN inbox[b] : inbox'[b][i] = inbox[b][j]
               \/ inbox'[b][i].from = c /\ inbox'[b][i].kind # "begin"
    <3>1. /\ DOMAIN (inbox[b] \o <<r>>) = DOMAIN inbox[b] \cup {Len(inbox[b]) + 1}
          /\ (inbox[b] \o <<r>>)[Len(inbox[b]) + 1] = r
          /\ \A j \in DOMAIN inbox[b] : (inbox[b] \o <<r>>)[j] = inbox[b][j]
      BY <2>4, Longer
    <3>s. PICK s : s = inbox[b] \o <<r>>
      BY Zenon
    <3>2. /\ DOMAIN (s \o <<q>>) = DOMAIN s \cup {Len(s) + 1}
          /\ (s \o <<q>>)[Len(s) + 1] = q
          /\ \A j \in DOMAIN s : (s \o <<q>>)[j] = s[j]
      BY <2>4, <3>s, Longer
    <3>3. \A j \in DOMAIN s : s[j] = r \/ (j \in DOMAIN inbox[b] /\ s[j] = inbox[b][j])
      BY Zenon, <3>1, <3>s
    <3>4. \/ inbox'[b][i] = q \/ inbox'[b][i] = r
          \/ \E j \in DOMAIN inbox[b] : inbox'[b][i] = inbox[b][j]
      BY ZenonT(30), <2>3, <2>5, <2>6, <3>s, <3>2, <3>3
    <3> QED BY Zenon, <2>r, <2>q, <3>4
  <2> QED BY Zenon, <2>b, <1>10, <2>2, <2>6, <1>7 DEF QueryThenTerminate
<1>11. ASSUME NEW c \in Clients, ReplayStartup(c) \/ InitializeBackend(c) \/ Greet(c)
       PROVE  CalmInv'
  <2>b. PICK b \in Backends : b = conn[c]
    BY Zenon, <1>11, <1>s DEF ReplayStartup, InitializeBackend, Greet
  <2>0. stage[c] \in {"startup", "greet"}
    BY Zenon, <1>11 DEF ReplayStartup, InitializeBackend, Greet
  <2>1. \A d \in Clients \ {c} : conn[d] # b
    BY Zenon, <2>b, <1>s, OneOwner
  <2>2. /\ UNCHANGED <<conn, tracker, pinned, armed, partial, clientVars, idle, up, session, inbox, outbox>>
        /\ stage' = [stage EXCEPT ![c] = "loop"] \/ stage' = [stage EXCEPT ![c] = "greet"]
    BY Zenon, <1>11 DEF ReplayStartup, InitializeBackend, Greet, GoTo
  <2>3. Local(c, b)
    BY Zenon, <2>b, <1>s, <2>1, <2>2 DEF Local
  <2>4. CalmAt(b)'
    BY Zenon, <1>q, <2>2 DEF CalmAt, Unheld
  <2>5. SentAt(b)'
    <3> SUFFICES ASSUME NEW i \in DOMAIN inbox[b], NEW q, q = inbox[b][i],
                        q.from \in Clients, stage'[q.from] # "done"
                 PROVE  /\ stage'[q.from] = "loop" /\ conn'[q.from] = b
                        /\ q.kind = "set" => "set" \in did'[q.from]
      BY ZenonT(30), <2>2 DEF SentAt
    <3>1. q.from # c
      BY Zenon, <2>0, Unsent
    <3>2. stage'[q.from] = stage[q.from]
      BY Zenon, <1>s, <2>2, <3>1
    <3>3. SentAt(b) /\ UNCHANGED <<conn, did>>
      BY Zenon, <1>q, <2>2
    <3> QED BY ZenonT(30), <3>2, <3>3 DEF SentAt
  <2>6. PartedOf(c)' /\ tracker'[c] = "I"
    <3>1. b \in up => Parted(b, c)
      BY Zenon, <2>b, <1>q, <2>0 DEF PartedOf
    <3>2. Parted(b, c) => Parted(b, c)'
      BY Zenon, <2>2 DEF Parted
    <3> QED BY Zenon, <2>b, <1>q, <2>2, <3>1, <3>2 DEF PartedOf
  <2> QED BY Zenon, <2>0, <2>3, <2>4, <2>5, <2>6, LocalCalm
<1>12. ASSUME NEW c \in Clients, NEW k \in Kinds, ForwardQuery(c, k) PROVE CalmInv'
  <2>b. PICK b \in Backends : b = conn[c]
    BY Zenon, <1>12, <1>s DEF ForwardQuery
  <2>1. stage[c] = "loop" /\ \A d \in Clients \ {c} : conn[d] # b
    BY Zenon, <2>b, <1>12, <1>s, OneOwner DEF ForwardQuery
  <2>2. Local(c, b)
    <3>1. pinned' \in {pinned, pinned \cup {c}, pinned \ {c}} /\ armed' \in {armed, armed \cup {c}}
      BY Zenon, <1>12 DEF ForwardQuery, PinnedAfter
    <3> QED BY ZenonT(30), <2>b, <1>12, <1>s, <2>1, <3>1 DEF ForwardQuery, Local, Ask, Write
  <2>r. PICK r \in Requests : r = Request(c, Number(c), k) /\ r.from = c /\ r.kind = k /\ k # "begin"
    BY Zenon, <1>r
  <2>3. inbox'[b] = (IF b \in up THEN inbox[b] \o <<r>> ELSE inbox[b])
    BY ZenonT(30), <2>b, <2>r, <1>12, <1>s DEF ForwardQuery, Write
  <2>4. /\ DOMAIN (inbox[b] \o <<r>>) = DOMAIN inbox[b] \cup {Len(inbox[b]) + 1}
        /\ (inbox[b] \o <<r>>)[Len(inbox[b]) + 1] = r
        /\ \A i \in DOMAIN inbox[b] : (inbox[b] \o <<r>>)[i] = inbox[b][i]
    <3>1. inbox[b] \in Seq(Requests)
      BY Zenon, <1>s
    <3> QED BY <2>r, <3>1, Longer
  <2>5. ASSUME NEW i \in DOMAIN inbox'[b]
        PROVE  inbox'[b][i] = r \/ (i \in DOMAIN inbox[b] /\ inbox'[b][i] = inbox[b][i])
    BY Zenon, <2>3, <2>4, <2>5
  <2>6. /\ UNCHANGED <<stage, conn, tracker, idle, up, session, outbox>>
        /\ did' = [did EXCEPT ![c] = @ \cup ({k} \cap {"begin", "set"})]
    BY Zenon, <1>12 DEF ForwardQuery, Ask
  <2>7. \A d \in Clients : did[d] \subseteq did'[d]
    BY Zenon, <1>s, <2>6
  <2>8. CalmAt(b)'
    BY ZenonT(30), <2>b, <1>q, <2>r, <2>5, <2>6 DEF CalmAt, Unheld
  <2>9. SentAt(b)'
    <3> SUFFICES ASSUME NEW i \in DOMAIN inbox'[b], NEW q, q = inbox'[b][i],
                        q.from \in Clients, stage'[q.from] # "done"
                 PROVE  /\ stage'[q.from] = "loop" /\ conn'[q.from] = b
                        /\ q.kind = "set" => "set" \in did'[q.from]
      BY Zenon DEF SentAt
    <3>1. CASE q = r
      BY Zenon, <2>b, <1>s, <2>1, <2>r, <2>6, <3>1
    <3>2. CASE i \in DOMAIN inbox[b] /\ q = inbox[b][i]
      <4>1. SentAt(b) /\ UNCHANGED <<stage, conn>>
        BY Zenon, <1>q, <2>6
      <4>2. stage[q.from] = "loop" /\ conn[q.from] = b /\ (q.kind = "set" => "set" \in did[q.from])
        BY Zenon, <3>2, <4>1 DEF SentAt
      <4> QED BY Zenon, <2>7, <4>1, <4>2
    <3> QED BY Zenon, <2>5, <3>1, <3>2
  <2>10. PartedOf(c)' /\ tracker'[c] = "I"
    <3> SUFFICES ASSUME b \in up PROVE Parted(b, c)'
      BY Zenon, <2>b, <1>q, <2>6 DEF PartedOf
    <3>1. Parted(b, c)
      BY Zenon, <2>b, <1>q, <2>1 DEF PartedOf
    <3>2. inbox'[b] = inbox[b] \o <<r>> /\ session'[b] = session[b]
      BY Zenon, <2>3, <2>6
    <3>3. ASSUME NEW j \in DOMAIN inbox[b],
                 inbox[b][j].from = Proxy, inbox[b][j].kind = "discard",
                 \A i \in DOMAIN inbox[b] : inbox[b][i].from = c <=> i > j
          PROVE  Parted(b, c)'
      <4>1. Len(inbox[b]) + 1 > j
        BY <1>s
      <4>2. \A i \in DOMAIN inbox'[b] : inbox'[b][i].from = c <=> i > j
        BY ZenonT(30), <2>r, <2>4, <3>2, <3>3, <4>1
      <4>3. j \in DOMAIN inbox'[b] /\ inbox'[b][j].from = Proxy /\ inbox'[b][j].kind = "discard"
        BY Zenon, <2>4, <3>2, <3>3
      <4> QED BY Zenon, <4>2, <4>3 DEF Parted
    <3>4. ASSUME \A i \in DOMAIN inbox[b] : inbox[b][i].from = c, session[b].guc => "set" \in did[c]
          PROVE  Parted(b, c)'
      <4>1. \A i \in DOMAIN inbox'[b] : inbox'[b][i].from = c
        BY Zenon, <2>r, <2>5, <3>4
      <4> QED BY ZenonT(30), <2>7, <3>2, <3>4, <4>1 DEF Parted
    <3> QED BY Zenon, <3>1, <3>3, <3>4 DEF Parted
  <2> QED BY Zenon, <2>1, <2>2, <2>8, <2>9, <2>10, LocalCalm
<1>13. ASSUME NEW c \in Clients, NEW k \in Kinds, RejectQuery(c, k) PROVE CalmInv'
  BY Zenon, <1>13, CalmFrame DEF RejectQuery, handlerVars, serverVars
<1>21. ASSUME NEW c \in Clients, ResponseBegins(c) PROVE CalmInv'
  BY Zenon, <1>21, CalmFrame DEF ResponseBegins, clientVars, serverVars
(* The client gets m answers; no transaction ends, so it keeps its backend.*)
<1>14. ASSUME NEW c \in Clients, NEW b \in Backends, b = conn[c], stage[c] = "loop",
              NEW m \in 1..Len(outbox[b]), outbox' = [outbox EXCEPT ![b] = SubSeq(@, m + 1, Len(@))],
              tracker' \in {tracker, [tracker EXCEPT ![c] = outbox[b][m].shows.txn]},
              UNCHANGED <<stage, conn, did, idle, up, session, inbox>>
       PROVE  CalmInv'
  <2>1. \A e \in Backends : CalmAt(e)'
    <3>1. outbox[b] \in Seq(Responses) /\ m \in 0..Len(outbox[b])
      BY <1>s
    <3>t. PICK t : t = SubSeq(outbox[b], m + 1, Len(outbox[b]))
      BY Zenon
    <3>2. /\ t \in Seq(Responses) /\ Len(t) = Len(outbox[b]) - m
          /\ \A i \in 1..(Len(outbox[b]) - m) : t[i] = outbox[b][i + m]
      BY Zenon, <3>1, <3>t, Rest
    <3>3. \A i \in DOMAIN t : i + m \in DOMAIN outbox[b] /\ t[i] = outbox[b][i + m]
      BY <3>1, <3>2
    <3>4. outbox' = [outbox EXCEPT ![b] = t]
      BY Zenon, <1>14, <3>t
    <3>5. ASSUME NEW e \in Backends, NEW i \in DOMAIN outbox'[e] PROVE outbox'[e][i].shows.txn = "I"
      <4>1. CalmAt(e)
        BY Zenon, <1>q
      <4>2. CASE e = b
        <5>1. outbox'[e] = t
          BY Zenon, <1>s, <3>4, <4>2
        <5>2. t[i] = outbox[e][i + m] /\ i + m \in DOMAIN outbox[e]
          BY Zenon, <3>3, <3>5, <4>2, <5>1
        <5> QED BY Zenon, <4>1, <5>1, <5>2 DEF CalmAt
      <4>3. CASE e # b
        <5>1. outbox'[e] = outbox[e]
          BY Zenon, <1>s, <3>4, <4>3
        <5> QED BY Zenon, <3>5, <4>1, <5>1 DEF CalmAt
      <4> QED BY Zenon, <4>2, <4>3
    <3> QED BY ZenonT(30), <1>q, <1>14, <3>5 DEF CalmAt, Unheld
  <2>2. ASSUME NEW e \in Backends PROVE SentAt(e)'
    <3>1. SentAt(e) /\ inbox'[e] = inbox[e] /\ UNCHANGED <<stage, conn, did>>
      BY Zenon, <1>q, <1>14
    <3> QED BY Zenon, <3>1, SentFrame
  <2>3. \A d \in Clients : PartedOf(d)'
    <3>1. ASSUME NEW e, NEW d, Parted(e, d) PROVE Parted(e, d)'
      BY Zenon, <1>14, <3>1 DEF Parted
    <3> QED BY Zenon, <1>q, <1>14, <3>1 DEF PartedOf
  <2>4. \A d \in Clients : tracker'[d] = "I"
    <3>1. m \in DOMAIN outbox[b]
      <4>1. outbox[b] \in Seq(Responses)
        BY Zenon, <1>s
      <4> QED BY <4>1
    <3>2. outbox[b][m].shows.txn = "I"
      BY Zenon, <1>q, <3>1 DEF CalmAt
    <3> QED BY ZenonT(30), <1>s, <1>q, <1>14, <3>2
  <2> QED BY Zenon, <2>1, <2>2, <2>3, <2>4 DEF CalmInv
<1>15. ASSUME NEW c \in Clients, NEW m \in 1..Len(outbox[conn[c]]), BackendResponds(c, m)
       PROVE  CalmInv'
  <2>b. PICK b \in Backends : b = conn[c]
    BY Zenon, <1>15, <1>s DEF BackendResponds
  <2>1. tracker[c] = "I"
    BY Zenon, <1>q
  <2>2. UNCHANGED <<idle, conn, stage>>
    BY Zenon, <1>15, <2>1 DEF BackendResponds, ShouldRelease
  <2> QED BY Zenon, <2>b, <1>15, <2>2, <1>14 DEF BackendResponds, Track
<1>16. ASSUME NEW c \in Clients, ResponseEndsUnseen(c) PROVE CalmInv'
  <2>b. PICK b \in Backends : b = conn[c]
    BY Zenon, <1>16, <1>s DEF ResponseEndsUnseen
  <2>1. outbox[b] \in Seq(Responses) /\ outbox[b] # <<>> /\ stage[c] = "loop"
    BY Zenon, <2>b, <1>16, <1>s DEF ResponseEndsUnseen
  <2>2. 1 \in 1..Len(outbox[b]) /\ Tail(outbox[b]) = SubSeq(outbox[b], 1 + 1, Len(outbox[b]))
    BY Zenon, <2>1, TailRest
  <2>3. outbox' = [outbox EXCEPT ![b] = SubSeq(@, 1 + 1, Len(@))]
    BY Zenon, <2>b, <1>16, <2>2 DEF ResponseEndsUnseen
  <2> QED BY Zenon, <2>b, <1>16, <2>1, <2>2, <2>3, <1>14 DEF ResponseEndsUnseen
<1>17. ASSUME NEW b \in Backends, up' = up \ {b}, inbox' = [inbox EXCEPT ![b] = <<>>],
              UNCHANGED <<mode, handlerVars, clientVars, idle, captured, started, session, outbox>>
       PROVE  CalmInv'
  <2>1. \A e \in Backends : inbox'[e] = inbox[e] \/ inbox'[e] = <<>>
    BY Zenon, <1>s, <1>17
  <2>2. ASSUME NEW e \in Backends PROVE CalmAt(e)' /\ SentAt(e)'
    <3>1. CalmAt(e) /\ SentAt(e) /\ UNCHANGED <<stage, conn, did, session, outbox, idle>>
      BY Zenon, <1>q, <1>17
    <3> QED BY Zenon, <2>1, <3>1, QuietFrame, SentFrame
  <2>3. ASSUME NEW d \in Clients PROVE PartedOf(d)'
    <3> SUFFICES ASSUME stage[d] \in {"reset", "startup", "greet", "loop"}, conn[d] \in up', NEW e, e = conn[d]
                 PROVE  Parted(e, d)'
      BY Zenon, <1>17 DEF PartedOf
    <3>1. e \in Backends /\ e # b /\ e \in up
      BY Zenon, <1>17 DEF TypeOK
    <3>2. inbox'[e] = inbox[e] /\ Parted(e, d)
      BY Zenon, <1>s, <1>q, <1>17, <3>1 DEF PartedOf
    <3>3. session'[e] = session[e] /\ UNCHANGED did
      BY Zenon, <1>17
    <3> QED BY Zenon, <3>2, <3>3, PartedFrame
  <2> QED BY Zenon, <1>q, <1>17, <2>2, <2>3 DEF CalmInv
<1>18. ASSUME NEW b \in Backends, Crash(b) PROVE CalmInv'
  BY Zenon, <1>17, <1>18 DEF Crash
<1>19. ASSUME NEW b \in Backends, Serve(b) PROVE CalmInv'
  <2>1. inbox[b] # <<>> /\ inbox[b] \in Seq(Requests) /\ b \in up
    BY Zenon, <1>19, <1>s DEF Serve
  <2>r. PICK r : r = Head(inbox[b])
    BY Zenon
  <2>2. r \in Requests /\ r = inbox[b][1] /\ 1 \in DOMAIN inbox[b]
    <3>1. Head(inbox[b]) \in Requests /\ Head(inbox[b]) = inbox[b][1]
      BY Zenon, <2>1, FirstAndRest
    <3>2. 1 \in 1..Len(inbox[b])
      BY Zenon, <2>1, TailRest
    <3> QED BY SMTT(60), <2>1, <2>r, <3>1, <3>2
  <2>3. CASE r.kind = "terminate" \/ b \notin started
    BY Zenon, <1>19, <2>r, <2>3, <1>17 DEF Serve
  <2>4. CASE ~(r.kind = "terminate" \/ b \notin started)
    <3>s. PICK s : s = After(session[b], r.kind)
      BY Zenon
    <3>t. PICK t : t = Tail(inbox[b])
      BY Zenon
    <3>a. PICK a : a = [from |-> r.from, n |-> r.n, shows |-> s]
      BY Zenon
    <3>1. /\ session' = [session EXCEPT ![b] = s] /\ inbox' = [inbox EXCEPT ![b] = t]
          /\ outbox' = [outbox EXCEPT ![b] = Append(@, a)]
          /\ UNCHANGED <<mode, handlerVars, clientVars, idle, captured, started, up>>
      <4>1. /\ session' = [session EXCEPT ![b] = s] /\ inbox' = [inbox EXCEPT ![b] = Tail(@)]
            /\ outbox' = [outbox EXCEPT ![b] = Append(@, [from |-> r.from, n |-> r.n, shows |-> session'[b]])]
            /\ UNCHANGED <<mode, handlerVars, clientVars, idle, captured, started, up>>
        BY Zenon, <1>19, <2>r, <2>4, <3>s DEF Serve
      <4>2. session'[b] = s
        BY Zenon, <1>s, <4>1
      <4> QED BY Zenon, <3>a, <3>t, <4>1, <4>2
    <3>2. CalmAt(b) /\ SentAt(b) /\ session[b] \in Sessions /\ r.kind \in Statements \cup {"health"}
      BY Zenon, <1>s, <1>q, <2>2, <2>4 DEF Requests
    <3>3. /\ s.txn = "I" /\ (s.guc => session[b].guc \/ r.kind = "set")
          /\ r.kind = "discard" => ~s.guc
      <4>1. session[b].txn = "I" /\ r.kind # "begin"
        BY ZenonT(30), <2>2, <3>2 DEF CalmAt
      <4> QED BY Zenon, <3>s, <3>2, <4>1, AfterCalm
    <3>4. /\ t \in Seq(Requests)
          /\ \A i \in DOMAIN t : i \in Nat /\ i # 0 /\ i + 1 \in DOMAIN inbox[b] /\ t[i] = inbox[b][i + 1]
      <4>1. t \in Seq(Requests) /\ Len(t) = Len(inbox[b]) - 1 /\ \A i \in 1..Len(t) : t[i] = inbox[b][i + 1]
        BY ZenonT(30), <2>1, <3>t, FirstAndRest
      <4>2. Len(inbox[b]) \in Nat /\ DOMAIN t = 1..Len(t) /\ DOMAIN inbox[b] = 1..Len(inbox[b])
        BY <2>1, <4>1
      <4> QED BY SMTT(60), <4>1, <4>2
    <3>5. ASSUME NEW e \in Backends, e # b PROVE CalmAt(e)' /\ SentAt(e)'
      <4>1. inbox'[e] = inbox[e] /\ outbox'[e] = outbox[e] /\ session'[e] = session[e]
        BY Zenon, <1>s, <3>1, <3>5
      <4>2. CalmAt(e)'
        <5>1. CalmAt(e) /\ UNCHANGED <<conn, idle>>
          BY Zenon, <1>q, <3>1
        <5> QED BY Zenon, <4>1, <5>1, QuietFrame
      <4>3. SentAt(e)'
        <5>1. SentAt(e) /\ UNCHANGED <<stage, conn, did>>
          BY Zenon, <1>q, <3>1
        <5> QED BY Zenon, <4>1, <5>1, SentFrame
      <4> QED BY Zenon, <4>2, <4>3
    <3>6. inbox'[b] = t /\ session'[b] = s /\ outbox'[b] = Append(outbox[b], a)
      BY Zenon, <1>s, <3>1
    <3>7. CalmAt(b)'
      <4>1. ~(Unheld(b) /\ b \notin idle)
        BY Zenon, <2>1, <3>2 DEF CalmAt
      <4>2. ASSUME NEW i \in DOMAIN outbox'[b] PROVE outbox'[b][i].shows.txn = "I"
        <5>1. a.shows = s
          BY Zenon, <3>a
        <5>2. outbox'[b][i] = a \/ (i \in DOMAIN outbox[b] /\ outbox'[b][i] = outbox[b][i])
          <6>1. outbox[b] \in Seq(Responses) /\ outbox'[b] = Append(outbox[b], a) /\ i \in DOMAIN outbox'[b]
            BY Zenon, <1>s, <3>6, <4>2
          <6> QED BY <6>1
        <5> QED BY Zenon, <3>2, <3>3, <5>1, <5>2 DEF CalmAt
      <4>3. ASSUME NEW i \in DOMAIN t PROVE t[i].kind # "begin"
        BY Zenon, <3>2, <3>4, <4>3 DEF CalmAt
      <4> QED BY Zenon, <3>1, <3>3, <3>6, <4>1, <4>2, <4>3 DEF CalmAt, Unheld
    <3>8. SentAt(b)'
      <4> SUFFICES ASSUME NEW i \in DOMAIN t, NEW q, q = t[i],
                          q.from \in Clients, stage[q.from] # "done"
                   PROVE  /\ stage[q.from] = "loop" /\ conn[q.from] = b
                          /\ q.kind = "set" => "set" \in did[q.from]
        BY ZenonT(30), <3>1, <3>6 DEF SentAt
      <4>1. i + 1 \in DOMAIN inbox[b] /\ q = inbox[b][i + 1]
        BY Zenon, <3>4
      <4> QED BY Zenon, <3>2, <4>1 DEF SentAt
    <3>9. ASSUME NEW d \in Clients, PartedOf(d), conn[d] # b PROVE PartedOf(d)'
      <4> SUFFICES ASSUME stage[d] \in {"reset", "startup", "greet", "loop"}, conn[d] \in up, NEW e, e = conn[d]
                   PROVE  Parted(e, d)'
        BY Zenon, <3>1 DEF PartedOf
      <4>1. e \in Backends /\ e # b
        BY Zenon, <3>9 DEF TypeOK
      <4>2. inbox'[e] = inbox[e] /\ session'[e] = session[e] /\ Parted(e, d)
        BY Zenon, <1>s, <3>1, <3>9, <4>1 DEF PartedOf
      <4>3. UNCHANGED did
        BY Zenon, <3>1
      <4> QED BY Zenon, <4>2, <4>3, PartedFrame
    <3>10. ASSUME NEW d \in Clients, PartedOf(d), conn[d] = b PROVE PartedOf(d)'
      <4> SUFFICES ASSUME stage[d] \in {"reset", "startup", "greet", "loop"} PROVE Parted(b, d)'
        BY Zenon, <3>1, <3>10 DEF PartedOf
      <4>1. Parted(b, d)
        BY Zenon, <2>1, <3>10 DEF PartedOf
      <4>2. ASSUME NEW j \in DOMAIN inbox[b],
                   inbox[b][j].from = Proxy, inbox[b][j].kind = "discard",
                   \A i \in DOMAIN inbox[b] : inbox[b][i].from = d <=> i > j
            PROVE  Parted(b, d)'
        <5>j. j \in Nat /\ j # 0
          BY <2>1
        <5>1. CASE j = 1
          <6>1. r.kind = "discard"
            BY Zenon, <2>2, <4>2, <5>1
          <6>2. \A i \in DOMAIN t : t[i].from = d
            <7>1. \A i \in DOMAIN t : i + 1 > j
              BY <3>4, <5>1
            <7> QED BY ZenonT(30), <3>4, <4>2, <7>1
          <6> QED BY Zenon, <3>3, <3>6, <6>1, <6>2 DEF Parted
        <5>2. CASE j # 1
          <6>1. j - 1 \in DOMAIN t /\ t[j - 1] = inbox[b][j]
            <7>1. DOMAIN t = 1..Len(t) /\ Len(t) = Len(inbox[b]) - 1 /\ Len(inbox[b]) \in Nat
              BY <2>1, <3>t, <3>4, FirstAndRest
            <7>2. j - 1 \in DOMAIN t /\ (j - 1) + 1 = j
              BY <2>1, <5>j, <5>2, <7>1
            <7> QED BY Zenon, <3>4, <7>2
          <6>2. \A i \in DOMAIN t : i > j - 1 <=> i + 1 > j
            BY <3>4, <5>j
          <6>3. \A i \in DOMAIN t : t[i].from = d <=> i > j - 1
            BY <3>4, <4>2, <6>2
          <6> QED BY ZenonT(30), <3>6, <4>2, <6>1, <6>3 DEF Parted
        <5> QED BY Zenon, <5>1, <5>2
      <4>3. ASSUME \A i \in DOMAIN inbox[b] : inbox[b][i].from = d, session[b].guc => "set" \in did[d]
            PROVE  Parted(b, d)'
        <5>1. r.from = d /\ stage[d] # "done"
          BY Zenon, <2>2, <4>3
        <5>2. r.kind = "set" => "set" \in did[d]
          BY Zenon, <2>2, <3>2, <5>1 DEF SentAt
        <5>3. \A i \in DOMAIN t : t[i].from = d
          BY Zenon, <3>4, <4>3
        <5> QED BY ZenonT(30), <3>1, <3>3, <3>6, <4>3, <5>2, <5>3 DEF Parted
      <4> QED BY Zenon, <4>1, <4>2, <4>3 DEF Parted
    <3> QED BY Zenon, <1>q, <3>1, <3>5, <3>7, <3>8, <3>9, <3>10 DEF CalmInv
  <2> QED BY Zenon, <2>3, <2>4
<1>20. ASSUME NEW c \in Clients, RecycleReads(c) \/ RecycleTimesOut(c) PROVE CalmInv'
  BY Zenon, <1>3, <1>5, <1>20 DEF RecycleReads, RecycleTimesOut
<1> QED
  BY <1>0, <1>1, <1>4, <1>6, <1>8, <1>9, <1>10, <1>11, <1>12, <1>13, <1>15, <1>16, <1>18, <1>19, <1>20,
     <1>21
  DEF Next, Recycling, Startup, Loop, Returns

(* With sessions cut off at any point, statements sent ahead of their      *)
(* answers and responses in pieces, no client that sends no BEGIN ever     *)
(* runs a statement under a setting another client left: reset_connection  *)
(* always stands between them.                                             *)
THEOREM ServesCleanCalm ==
  ASSUME "begin" \notin Kinds
  PROVE  Spec => []ServedClean
<1> DEFINE Inv == TypeOK /\ Exclusive /\ CalmInv
<1>1. Init => Inv
  <2> SUFFICES ASSUME Init PROVE CalmInv
    BY Zenon, TypeInit, ExclusiveInit
  <2>1. \A b \in Backends : CalmAt(b) /\ SentAt(b)
    <3> SUFFICES ASSUME NEW b \in Backends PROVE CalmAt(b) /\ SentAt(b)
      BY Zenon
    <3>1. inbox[b] = <<>> /\ outbox[b] = <<>> /\ session[b] = FreshSession
      BY Zenon DEF Init
    <3>2. DOMAIN inbox[b] = {} /\ DOMAIN outbox[b] = {} /\ session[b].txn = "I" /\ ~session[b].guc
      BY <3>1 DEF FreshSession
    <3> QED BY Zenon, <3>1, <3>2 DEF CalmAt, SentAt
  <2>2. \A c \in Clients : tracker[c] = "I" /\ PartedOf(c)
    BY Zenon DEF Init, PartedOf
  <2> QED BY Zenon, <2>1, <2>2 DEF CalmInv
<1>2. Inv /\ [Next]_vars => Inv'
  BY Zenon, TypeStep, ExclusiveStep, CalmStep
<1>3. Inv => ServedClean
  <2> SUFFICES ASSUME Inv, NEW b \in Backends, NEW c \in Clients, b \in up,
                      inbox[b] # <<>>, Head(inbox[b]).from = c, stage[c] # "done"
               PROVE  /\ session[b].txn # "I" => "begin" \in did[c]
                      /\ session[b].guc => "set" \in did[c]
    BY Zenon DEF ServedClean
  <2>1. inbox[b] \in Seq(Requests)
    BY Zenon DEF TypeOK
  <2>2. Head(inbox[b]) = inbox[b][1] /\ 1 \in DOMAIN inbox[b]
    BY <2>1, NoLength
  <2>3. stage[c] = "loop" /\ conn[c] = b /\ session[b].txn = "I"
    <3>1. CalmAt(b) /\ SentAt(b)
      BY Zenon DEF CalmInv
    <3>2. c = inbox[b][1].from
      BY Zenon, <2>2
    <3>3. stage[c] = "loop" /\ conn[c] = b
      BY Zenon, <2>2, <3>1, <3>2 DEF SentAt
    <3> QED BY Zenon, <3>1, <3>3 DEF CalmAt
  <2>4. Parted(b, c)
    BY Zenon, <2>3 DEF CalmInv, PartedOf
  <2>5. \A j \in DOMAIN inbox[b] : ~(1 > j)
    BY <2>1
  <2> QED BY Zenon, <2>2, <2>3, <2>4, <2>5 DEF Parted
<1> QED BY <1>1, <1>2, <1>3, PTL DEF Spec

-----------------------------------------------------------------------------
(* The clients wait for their answers, and no session ends with a          *)
(* statement outstanding: neither by the client, nor by KILL, nor by the   *)
(* query timeout.                                                          *)
Waits == Depth = 1 /\ ~Interrupts /\ ~QueryTimeout

(* What is under way on a backend, by the stage of its handler.            *)
Empty(b) == inbox[b] = <<>> /\ outbox[b] = <<>>

UnderWay(b) == Len(inbox[b]) + Len(outbox[b])

PipeOf(c) ==
    /\ c \notin armed
    /\ stage[c] # "loop" => asked[c] = <<>>
    /\ stage[c] \in {"startup", "greet"} => Empty(conn[c])
    /\ stage[c] \in {"health", "reset"} => UnderWay(conn[c]) <= 1
    /\ stage[c] = "loop" => Len(asked[c]) <= 1 /\ UnderWay(conn[c]) <= Len(asked[c])

PipeAt(b) ==
    /\ b \notin up => inbox[b] = <<>>
    /\ Unheld(b) => Empty(b)

(* c has itself made what the session s shows.                             *)
Own(s, c) ==
    /\ s.txn # "I" => "begin" \in did[c]
    /\ s.guc \/ s.saved => "set" \in did[c]

(* What recycle leaves for the next client is a fresh session; what is     *)
(* under way on a backend is its handler's.                                *)
OwnOf(c) ==
    LET b == conn[c] IN
    /\ stage[c] \in {"startup", "greet"} => session[b] = FreshSession
    /\ stage[c] \in {"health", "reset"} =>
         /\ inbox[b] # <<>> =>
              inbox[b][1].from = Proxy /\ (stage[c] = "reset" => inbox[b][1].kind = "discard")
         /\ outbox[b] # <<>> =>
              /\ outbox[b][1].shows = session[b]
              /\ stage[c] = "reset" /\ session[b].txn = "I" => session[b] = FreshSession
    /\ stage[c] = "loop" =>
         /\ Own(session[b], c)
         /\ inbox[b] # <<>> =>
              /\ inbox[b][1].from = c
              /\ inbox[b][1].kind \in {"begin", "set"} => inbox[b][1].kind \in did[c]

OwnAt(b) == Unheld(b) /\ b \notin idle => session[b] = FreshSession

QuietInv ==
    /\ \A c \in Clients : PipeOf(c) /\ OwnOf(c)
    /\ \A b \in Backends : PipeAt(b) /\ OwnAt(b)

(* What a direct session would be in is where the backend is, or what a    *)
(* fresh one would be.                                                     *)
MirrorOf(c) ==
    LET b == conn[c]  mine == answer[c].shows IN
    /\ tracker[c] = mine.txn /\ answer[c].from = c
    /\ mine.txn = "I" => ~mine.saved
    /\ mine.guc \/ mine.saved => c \in pinned
    /\ asked[c] # <<>> /\ asked[c][1] = "set" => c \in pinned
    /\ stage[c] # "loop" => mine = FreshSession
    /\ stage[c] = "loop" =>
         /\ asked[c] = <<>> => session[b] = mine
         /\ inbox[b] # <<>> =>
              /\ inbox[b][1] = Request(c, (answer[c].n + 1) % Window, asked[c][1])
              /\ session[b] = mine
         /\ outbox[b] # <<>> =>
              /\ outbox[b][1] = [from |-> c, n |-> (answer[c].n + 1) % Window,
                                 shows |-> After(mine, asked[c][1])]
              /\ session[b] = outbox[b][1].shows

MirrorInv == \A c \in Clients : MirrorOf(c)

-----------------------------------------------------------------------------
(* What holds of the other handlers and backends still does.               *)
LEMMA LocalQuiet ==
  ASSUME TypeOK, QuietInv, NEW c \in Clients, NEW b, Local(c, b),
         PipeOf(c)' /\ OwnOf(c)', b \in Backends => PipeAt(b)' /\ OwnAt(b)'
  PROVE  QuietInv'
<1>1. ASSUME NEW d \in Clients \ {c} PROVE PipeOf(d)' /\ OwnOf(d)'
  <2>1. CASE conn[d] = NoBackend
    <3>1. stage[d] \in {"acquire", "done"}
      BY Zenon, <2>1 DEF TypeOK
    <3>2. /\ d \in Clients /\ stage'[d] = stage[d] /\ asked'[d] = asked[d]
          /\ (d \in armed' <=> d \in armed)
      BY Zenon, <1>1 DEF Local
    <3>3. d \notin armed /\ asked[d] = <<>>
      BY Zenon, <3>1, <3>2 DEF QuietInv, PipeOf
    <3>4. stage'[d] \notin {"startup", "greet", "health", "reset", "loop"}
      BY Zenon, <3>1, <3>2
    <3> QED BY Zenon, <3>2, <3>3, <3>4 DEF PipeOf, OwnOf
  <2>2. CASE conn[d] # NoBackend
    <3>1. conn[d] \in Backends \ {b}
      <4>1. d \in Clients /\ d # c
        BY Zenon, <1>1
      <4>2. conn[d] \in Backends
        BY Zenon, <2>2, <4>1 DEF TypeOK
      <4>3. conn[d] # b
        BY Zenon, <2>2, <4>1 DEF Local
      <4> QED BY Zenon, <4>2, <4>3
    <3>2. /\ inbox'[conn[d]] = inbox[conn[d]] /\ outbox'[conn[d]] = outbox[conn[d]]
          /\ session'[conn[d]] = session[conn[d]] /\ conn'[d] = conn[d]
          /\ stage'[d] = stage[d] /\ asked'[d] = asked[d] /\ did'[d] = did[d]
          /\ (d \in armed' <=> d \in armed)
      BY Zenon, <3>1, <1>1 DEF Local
    <3>3. PipeOf(d) /\ OwnOf(d)
      BY Zenon DEF QuietInv
    <3>4. PipeOf(d)'
      BY ZenonT(30), <3>2, <3>3 DEF PipeOf, Empty, UnderWay
    <3>5. OwnOf(d)'
      BY Zenon, <3>2, <3>3 DEF OwnOf, Own
    <3> QED BY Zenon, <3>4, <3>5
  <2> QED BY ZenonT(30), <2>1, <2>2
<1>2. ASSUME NEW e \in Backends \ {b} PROVE PipeAt(e)' /\ OwnAt(e)'
  <2>1. Unheld(e)' => Unheld(e)
    BY Zenon, SessionAssumption DEF Local, Unheld
  <2> QED BY Zenon, <1>2, <2>1 DEF Local, QuietInv, PipeAt, OwnAt, Empty
<1> QED BY Zenon, <1>1, <1>2 DEF QuietInv

(* Streams with little under way.                                          *)
LEMMA Short ==
  ASSUME TypeOK, NEW b \in Backends
  PROVE  /\ UnderWay(b) <= 0 => Empty(b)
         /\ Empty(b) => UnderWay(b) = 0
         /\ UnderWay(b) <= 1 /\ outbox[b] # <<>> => inbox[b] = <<>> /\ Len(outbox[b]) = 1
         /\ UnderWay(b) <= 1 /\ inbox[b] # <<>> => outbox[b] = <<>> /\ Len(inbox[b]) = 1
<1>1. inbox[b] \in Seq(Requests) /\ outbox[b] \in Seq(Responses)
  BY Zenon DEF TypeOK
<1>2. Len(inbox[b]) \in Nat /\ Len(outbox[b]) \in Nat
  BY <1>1
<1>3. (Len(inbox[b]) = 0 <=> inbox[b] = <<>>) /\ (Len(outbox[b]) = 0 <=> outbox[b] = <<>>)
  BY Zenon, <1>1, NoLength
<1>4. ASSUME NEW i \in Nat, NEW o \in Nat
      PROVE  (i + o <= 0 => i = 0 /\ o = 0) /\ (i + o <= 1 => (o # 0 => i = 0 /\ o = 1) /\ (i # 0 => o = 0 /\ i = 1))
  BY <1>4
<1>5. /\ UnderWay(b) <= 0 => Len(inbox[b]) = 0 /\ Len(outbox[b]) = 0
      /\ UnderWay(b) <= 1 /\ Len(outbox[b]) # 0 => Len(inbox[b]) = 0 /\ Len(outbox[b]) = 1
      /\ UnderWay(b) <= 1 /\ Len(inbox[b]) # 0 => Len(outbox[b]) = 0 /\ Len(inbox[b]) = 1
  BY Zenon, <1>2, <1>4 DEF UnderWay
<1>6. Len(inbox[b]) = 0 /\ Len(outbox[b]) = 0 => UnderWay(b) = 0
  BY DEF UnderWay
<1> QED BY Zenon, <1>3, <1>5, <1>6 DEF Empty

(* DISCARD ALL leaves a fresh session or reports a transaction.            *)
LEMMA AfterDiscard ==
  ASSUME NEW s \in Sessions, After(s, "discard").txn = "I"
  PROVE  After(s, "discard") = FreshSession
BY Zenon DEF After, Sessions, Statuses, Failed, FreshSession

(* A statement of c changes the session only as c has asked.               *)
LEMMA AfterOwn ==
  ASSUME NEW c \in Clients, NEW s \in Sessions, NEW k \in Statements \cup {"health"},
         Own(s, c), k \in {"begin", "set"} => k \in did[c]
  PROVE  Own(After(s, k), c)
BY Zenon DEF Own, After, Sessions, Statements, Statuses, Failed, FreshSession

(* One read of the backend: with one statement asked there is one answer.  *)
LEMMA OneAnswer ==
  ASSUME TypeOK, QuietInv, NEW c \in Clients, stage[c] = "loop", outbox[conn[c]] # <<>>
  PROVE  /\ inbox[conn[c]] = <<>> /\ Len(outbox[conn[c]]) = 1 /\ Len(asked[c]) = 1
         /\ SubSeq(outbox[conn[c]], 2, Len(outbox[conn[c]])) = <<>>
         /\ Tail(outbox[conn[c]]) = <<>>
         /\ SubSeq(asked[c], 2, Len(asked[c])) = <<>>
<1>b. PICK b \in Backends : b = conn[c]
  BY Zenon DEF TypeOK
<1>1. UnderWay(b) <= Len(asked[c]) /\ Len(asked[c]) <= 1 /\ Len(asked[c]) \in Nat
  BY <1>b DEF TypeOK, QuietInv, PipeOf
<1>2. inbox[b] \in Seq(Requests) /\ outbox[b] \in Seq(Responses) /\ outbox[b] # <<>>
  BY Zenon, <1>b DEF TypeOK
<1>3. Len(inbox[b]) \in Nat /\ Len(outbox[b]) \in Nat /\ Len(outbox[b]) # 0
  BY Zenon, <1>2, NoLength
<1>4. ASSUME NEW i \in Nat, NEW o \in Nat, NEW a \in Nat, o # 0, i + o <= a, a <= 1
      PROVE  a = 1 /\ i + o <= 1
  BY <1>4
<1>5. Len(asked[c]) = 1 /\ UnderWay(b) <= 1
  BY Zenon, <1>1, <1>3, <1>4 DEF UnderWay
<1>6. inbox[b] = <<>> /\ Len(outbox[b]) = 1
  BY Zenon, <1>2, <1>5, Short
<1>7. SubSeq(outbox[b], 2, 1) = <<>> /\ SubSeq(asked[c], 2, 1) = <<>>
  OBVIOUS
<1>8. Tail(outbox[b]) = <<>>
  <2>1. Tail(outbox[b]) \in Seq(Responses) /\ Len(Tail(outbox[b])) = 0
    BY <1>2, <1>6, FirstAndRest
  <2> QED BY Zenon, <2>1, NoLength
<1> QED BY Zenon, <1>b, <1>5, <1>6, <1>7, <1>8

(* A statement on its way is the only thing under way.                     *)
LEMMA OneStatement ==
  ASSUME TypeOK, Exclusive, QuietInv, NEW b \in Backends, inbox[b] # <<>>
  PROVE  \E c \in Clients :
           /\ conn[c] = b /\ (\A d \in Clients \ {c} : conn[d] # b)
           /\ stage[c] \in {"health", "reset", "loop"}
           /\ outbox[b] = <<>> /\ Len(inbox[b]) = 1 /\ Tail(inbox[b]) = <<>>
           /\ Head(inbox[b]) = inbox[b][1] /\ inbox[b][1] \in Requests
           /\ stage[c] = "loop" => Len(asked[c]) = 1
<1>c. PICK c \in Clients : conn[c] = b
  BY Zenon DEF QuietInv, PipeAt, Empty, Unheld
<1>1. inbox[b] \in Seq(Requests) /\ outbox[b] \in Seq(Responses) /\ asked[c] \in Seq(Kinds)
  BY Zenon DEF TypeOK
<1>2. stage[c] \in {"health", "reset", "loop"}
  BY ZenonT(30), <1>c, SessionAssumption DEF TypeOK, QuietInv, PipeOf, Empty, Stages
<1>3. Len(inbox[b]) \in Nat /\ Len(outbox[b]) \in Nat /\ Len(asked[c]) \in Nat /\ Len(inbox[b]) # 0
  BY Zenon, <1>1, NoLength
<1>4. stage[c] = "loop" => Len(asked[c]) = 1 /\ UnderWay(b) <= 1
  <2>1. ASSUME NEW i \in Nat, NEW o \in Nat, NEW a \in Nat, i # 0, i + o <= a, a <= 1
        PROVE  a = 1 /\ i + o <= 1
    BY <2>1
  <2> QED BY Zenon, <1>c, <1>3, <2>1 DEF QuietInv, PipeOf, UnderWay
<1>5. UnderWay(b) <= 1
  BY Zenon, <1>c, <1>2, <1>4 DEF QuietInv, PipeOf
<1>6. outbox[b] = <<>> /\ Len(inbox[b]) = 1
  BY Zenon, <1>5, Short
<1>7. Tail(inbox[b]) = <<>> /\ Head(inbox[b]) = inbox[b][1] /\ inbox[b][1] \in Requests
  <2>1. Tail(inbox[b]) \in Seq(Requests) /\ Len(Tail(inbox[b])) = 0 /\ Head(inbox[b]) \in Requests
    BY <1>1, <1>6, FirstAndRest
  <2>2. Head(inbox[b]) = inbox[b][1]
    BY <1>1
  <2>3. Tail(inbox[b]) = <<>>
    BY Zenon, <2>1, NoLength
  <2> QED BY Zenon, <2>1, <2>2, <2>3
<1>8. \A d \in Clients \ {c} : conn[d] # b
  BY Zenon, <1>c, OneOwner, SessionAssumption
<1> QED BY Zenon, <1>c, <1>2, <1>4, <1>6, <1>7, <1>8

(* What QuietInv depends on.                                               *)
LEMMA StillQuiet ==
  ASSUME QuietInv, UNCHANGED <<stage, conn, armed, asked, did, up, session, inbox, outbox, idle>>
  PROVE  QuietInv'
<1>1. ASSUME NEW c \in Clients PROVE PipeOf(c)'
  BY Zenon DEF QuietInv, PipeOf, Empty, UnderWay
<1>2. ASSUME NEW c \in Clients PROVE OwnOf(c)'
  BY Zenon DEF QuietInv, OwnOf, Own
<1>3. ASSUME NEW b \in Backends PROVE PipeAt(b)' /\ OwnAt(b)'
  BY Zenon DEF QuietInv, PipeAt, OwnAt, Empty, Unheld
<1> QED BY Zenon, <1>1, <1>2, <1>3 DEF QuietInv

(* While every session waits for its answers, what is under way on a       *)
(* backend is its handler's, and recycle leaves nothing behind.            *)
LEMMA QuietStep ==
  Waits /\ TypeOK /\ Exclusive /\ QuietInv /\ [Next]_vars => QuietInv'
<1> SUFFICES ASSUME Waits, TypeOK, Exclusive, QuietInv, [Next]_vars PROVE QuietInv'
  BY Zenon
<1> USE DEF handlerVars, clientVars, serverVars
<1>s. /\ stage \in [Clients -> Stages] /\ conn \in [Clients -> Backends \cup {NoBackend}]
      /\ asked \in [Clients -> Seq(Kinds)] /\ did \in [Clients -> SUBSET Kinds]
      /\ answer \in [Clients -> Responses] /\ tracker \in [Clients -> Statuses]
      /\ session \in [Backends -> Sessions]
      /\ inbox \in [Backends -> Seq(Requests)] /\ outbox \in [Backends -> Seq(Responses)]
      /\ NoBackend \notin Backends /\ idle \subseteq Backends
      /\ \A c \in Clients : conn[c] # NoBackend <=> stage[c] \notin {"acquire", "done"}
  BY Zenon, SessionAssumption DEF TypeOK
<1>t. TypeOK'
  BY Zenon, TypeStep
<1>q. /\ \A c \in Clients : PipeOf(c) /\ OwnOf(c)
      /\ \A b \in Backends : PipeAt(b) /\ OwnAt(b)
  BY Zenon DEF QuietInv
<1>0. CASE UNCHANGED vars
  BY Zenon, <1>0, StillQuiet DEF vars
<1>1. ASSUME NEW c \in Clients, AcquireIdle(c) PROVE QuietInv'
  <2>1. PICK b \in idle : idle' = idle \ {b} /\ Take(c, b)
                          /\ Write(b, <<Request(Proxy, 0, "health")>>)
    BY Zenon, <1>1 DEF AcquireIdle
  <2>2. b \in Backends /\ conn[c] = NoBackend /\ stage[c] = "acquire" /\ Unheld(b)
    BY <1>1, <1>s DEF AcquireIdle, Exclusive, Unheld
  <2>3. Local(c, b)
    BY <1>1, <1>s, <2>1, <2>2 DEF AcquireIdle, Local, Take, GoTo, Write, Unheld
  <2>4. Empty(b) /\ asked[c] = <<>> /\ c \notin armed
    BY Zenon, <1>q, <2>2 DEF PipeAt, PipeOf
  <2>5. /\ inbox'[b] = (IF b \in up THEN <<Request(Proxy, 0, "health")>> ELSE <<>>)
        /\ outbox'[b] = <<>>
        /\ conn'[c] = b /\ stage'[c] = "health" /\ UNCHANGED <<asked, armed, up>>
    BY <1>1, <1>s, <2>1, <2>2, <2>4 DEF AcquireIdle, Take, GoTo, Write, Empty
  <2>6. PipeOf(c)'
    <3>1. Len(inbox'[b]) + Len(outbox'[b]) <= 1
      BY <2>5
    <3> QED BY Zenon, <2>4, <2>5, <3>1 DEF PipeOf, UnderWay
  <2>7. OwnOf(c)'
    BY <2>5 DEF OwnOf, Request
  <2>8. PipeAt(b)' /\ OwnAt(b)'
    BY Zenon, <2>5 DEF PipeAt, OwnAt, Unheld
  <2> QED BY Zenon, <2>3, <2>6, <2>7, <2>8, LocalQuiet
<1>2. ASSUME NEW c \in Clients, stage[c] \in {"health", "reset"}, RecycleFails(c),
             UNCHANGED <<mode, begun, tracker, pinned, armed, partial, clientVars, idle>>
      PROVE  QuietInv'
  <2>b. PICK b : b = conn[c]
    BY Zenon
  <2>1. b \in Backends /\ (\A d \in Clients \ {c} : conn[d] # b) /\ b \notin idle
    BY ZenonT(30), <2>b, <1>2, <1>s, OneOwner DEF Exclusive
  <2>2. /\ inbox' = [inbox EXCEPT ![b] = <<>>] /\ outbox' = [outbox EXCEPT ![b] = <<>>]
        /\ session' = [session EXCEPT ![b] = FreshSession] /\ up' = up \cup {b}
        /\ conn' = [conn EXCEPT ![c] = NoBackend] /\ stage' = [stage EXCEPT ![c] = "acquire"]
    BY Zenon, <2>b, <1>2 DEF RecycleFails, Close, Take, GoTo
  <2>3. Local(c, b)
    BY Zenon, <2>b, <1>2, <1>s, <2>1, <2>2 DEF Local
  <2>4. asked[c] = <<>> /\ c \notin armed
    BY Zenon, <2>b, <1>2, <1>q DEF PipeOf
  <2>5. PipeOf(c)' /\ OwnOf(c)'
    BY Zenon, <2>b, <1>2, <1>s, <2>2, <2>4 DEF PipeOf, OwnOf
  <2>6. PipeAt(b)' /\ OwnAt(b)'
    BY Zenon, <2>b, <1>s, <2>1, <2>2 DEF PipeAt, OwnAt, Empty
  <2> QED BY Zenon, <2>b, <2>3, <2>5, <2>6, LocalQuiet
<1>3. ASSUME NEW c \in Clients, RecycleReads(c), ~RecycleFails(c) PROVE QuietInv'
  <2>b. PICK b : b = conn[c]
    BY Zenon
  <2>0. stage[c] \in {"health", "reset"}
    BY Zenon, <2>b, <1>3 DEF RecycleReads
  <2>1. b \in Backends /\ (\A d \in Clients \ {c} : conn[d] # b)
    BY Zenon, <2>b, <2>0, <1>s, OneOwner
  <2>2. PICK m \in 1..Len(outbox[b]) :
           /\ outbox[b][m].shows.txn = "I"
           /\ outbox' = [outbox EXCEPT ![b] = SubSeq(@, m + 1, Len(@))]
           /\ IF stage[c] = "health"
                THEN Write(b, <<Request(Proxy, 0, "discard")>>) /\ GoTo(c, "reset")
                ELSE GoTo(c, "startup") /\ UNCHANGED inbox
           /\ UNCHANGED <<conn, captured, up, started, session>>
    BY Zenon, <2>b, <1>3 DEF RecycleReads
  <2>3. outbox[b] \in Seq(Responses) /\ outbox[b] # <<>> /\ UnderWay(b) <= 1
    BY <2>b, <2>0, <2>1, <2>2, <1>s, <1>q DEF PipeOf
  <2>4. inbox[b] = <<>> /\ Len(outbox[b]) = 1
    BY Zenon, <2>1, <2>3, Short
  <2>m. m = 1
    BY <2>2, <2>4
  <2>5. SubSeq(outbox[b], m + 1, Len(outbox[b])) = <<>>
    BY <2>m, <2>4
  <2>6. outbox'[b] = <<>>
    BY Zenon, <2>b, <1>s, <2>1, <2>2, <2>5
  <2>7. UNCHANGED <<mode, begun, tracker, pinned, armed, partial, clientVars, idle>>
    BY Zenon, <2>b, <1>3 DEF RecycleReads
  <2>8. Local(c, b)
    BY SMTT(30), <2>b, <1>s, <2>1, <2>2, <2>7 DEF Local, Write, GoTo
  <2>9. asked[c] = <<>> /\ c \notin armed
    BY Zenon, <2>b, <2>0, <1>q DEF PipeOf
  <2>10. CASE stage[c] = "health"
    <3>1. /\ inbox'[b] = (IF b \in up THEN <<Request(Proxy, 0, "discard")>> ELSE <<>>)
          /\ stage'[c] = "reset" /\ conn'[c] = b
      BY <2>b, <1>s, <2>1, <2>2, <2>4, <2>10 DEF Write, GoTo
    <3>2. PipeOf(c)'
      <4>1. Len(inbox'[b]) + Len(outbox'[b]) <= 1
        BY SMTT(30), <2>6, <3>1
      <4> QED BY Zenon, <2>7, <2>9, <3>1, <4>1 DEF PipeOf, UnderWay
    <3>3. OwnOf(c)'
      BY <2>b, <2>6, <3>1 DEF OwnOf, Request
    <3>4. PipeAt(b)' /\ OwnAt(b)'
      BY ZenonT(30), <2>b, <2>2, <3>1 DEF PipeAt, OwnAt, Unheld
    <3> QED BY Zenon, <2>b, <2>8, <3>2, <3>3, <3>4, LocalQuiet
  <2>11. CASE stage[c] = "reset"
    <3>1. inbox'[b] = <<>> /\ stage'[c] = "startup" /\ conn'[c] = b
      BY SMTT(30), <2>b, <1>s, <2>2, <2>4, <2>11 DEF GoTo
    <3>2. session[b] = FreshSession
      <4>1. OwnOf(c)
        BY Zenon, <1>q
      <4> QED BY Zenon, <2>b, <4>1, <2>2, <2>3, <2>m, <2>11 DEF OwnOf
    <3>3. PipeOf(c)'
      BY Zenon, <2>b, <2>6, <2>7, <2>9, <3>1 DEF PipeOf, Empty
    <3>4. OwnOf(c)'
      BY Zenon, <2>b, <2>2, <3>1, <3>2 DEF OwnOf
    <3>5. PipeAt(b)' /\ OwnAt(b)'
      BY Zenon, <2>b, <2>2, <3>1 DEF PipeAt, OwnAt, Unheld
    <3> QED BY Zenon, <2>b, <2>8, <3>3, <3>4, <3>5, LocalQuiet
  <2> QED BY Zenon, <2>b, <2>0, <2>10, <2>11
<1>4. ASSUME NEW c \in Clients, AcquireNew(c) PROVE QuietInv'
  <2>1. PICK b \in Backends : (\A d \in Clients : conn[d] # b) /\ Take(c, b)
    BY Zenon, <1>4 DEF AcquireNew
  <2>2. stage[c] = "acquire" /\ idle = {} /\ conn[c] = NoBackend
    BY Zenon, <1>4, <1>s DEF AcquireNew
  <2>3. Local(c, b)
    BY Zenon, <1>4, <1>s, <2>1, <2>2 DEF AcquireNew, Local, Take, GoTo
  <2>4. Empty(b) /\ session[b] = FreshSession /\ asked[c] = <<>> /\ c \notin armed
    BY Zenon, <1>q, <2>1, <2>2 DEF PipeAt, OwnAt, PipeOf, Unheld
  <2>5. conn'[c] = b /\ stage'[c] = "startup" /\ UNCHANGED <<inbox, outbox, session, armed, asked>>
    BY Zenon, <1>4, <1>s, <2>1 DEF AcquireNew, Take, GoTo
  <2>6. PipeOf(c)' /\ OwnOf(c)'
    BY Zenon, <2>4, <2>5 DEF PipeOf, OwnOf, Empty
  <2>7. PipeAt(b)' /\ OwnAt(b)'
    BY Zenon, <2>4, <2>5 DEF PipeAt, OwnAt, Unheld, Empty
  <2> QED BY Zenon, <2>3, <2>6, <2>7, LocalQuiet
<1>5. ASSUME NEW c \in Clients, Returns(c) PROVE QuietInv'
  <2>b. PICK b : b = conn[c]
    BY Zenon
  <2>1. /\ conn' = [conn EXCEPT ![c] = NoBackend] /\ stage' = [stage EXCEPT ![c] = "done"]
        /\ asked' = [asked EXCEPT ![c] = <<>>] /\ armed' = armed \ {c} /\ pinned' = pinned \ {c}
        /\ tracker' = [tracker EXCEPT ![c] = "I"]
        /\ answer' = [answer EXCEPT ![c] = NoAnswer(c)] /\ did' = [did EXCEPT ![c] = {}]
        /\ idle' = idle \cup ({b} \ {NoBackend}) /\ UNCHANGED <<up, session, inbox, outbox>>
    BY Zenon, <2>b, <1>5, ReturnsFinish DEF Finish, Over, Take, GoTo
  <2>2. b \in Backends \cup {NoBackend} /\ \A d \in Clients \ {c} : b # NoBackend => conn[d] # b
    BY Zenon, <2>b, <1>s, OneOwner
  <2>3. Local(c, b)
    BY Zenon, <2>b, <1>s, <2>1, <2>2 DEF Local
  <2>4. PipeOf(c)' /\ OwnOf(c)'
    BY Zenon, <2>b, <1>s, <2>1 DEF PipeOf, OwnOf
  <2>5. ASSUME b \in Backends PROVE PipeAt(b)' /\ OwnAt(b)'
    <3>1. stage[c] = "loop" /\ (asked[c] = <<>> \/ (b \notin up /\ outbox[b] = <<>>))
      BY Zenon, <2>b, <1>5, <1>s, <1>q, <2>5
      DEF Returns, AcquireFails, StartupInterrupted, ClientLeaves, BackendGone, QueryTimesOut,
          Waits, PipeOf
    <3>2. Empty(b)
      <4>1. CASE asked[c] = <<>>
        <5>1. UnderWay(b) <= 0
          BY Zenon, <2>b, <1>q, <3>1, <4>1 DEF PipeOf
        <5> QED BY Zenon, <2>5, <5>1, Short
      <4>2. CASE b \notin up /\ outbox[b] = <<>>
        BY Zenon, <2>b, <4>2, <1>q, <2>5 DEF PipeAt, Empty
      <4> QED BY Zenon, <2>b, <3>1, <4>1, <4>2
    <3> QED BY Zenon, <2>b, <1>s, <2>1, <2>5, <3>2 DEF PipeAt, OwnAt, Empty
  <2> QED BY Zenon, <2>b, <2>3, <2>4, <2>5, LocalQuiet
<1>6. ASSUME NEW c \in Clients, ReplayStartup(c) \/ InitializeBackend(c) \/ Greet(c)
      PROVE  QuietInv'
  <2>b. PICK b : b = conn[c]
    BY Zenon
  <2>0. stage[c] \in {"startup", "greet"}
    BY Zenon, <2>b, <1>6 DEF ReplayStartup, InitializeBackend, Greet
  <2>1. b \in Backends /\ \A d \in Clients \ {c} : conn[d] # b
    BY Zenon, <2>b, <2>0, <1>s, OneOwner
  <2>2. /\ UNCHANGED <<conn, tracker, pinned, armed, partial, clientVars, idle, up, session, inbox, outbox>>
        /\ stage' = [stage EXCEPT ![c] = "loop"] \/ stage' = [stage EXCEPT ![c] = "greet"]
    BY Zenon, <2>b, <1>6 DEF ReplayStartup, InitializeBackend, Greet, GoTo
  <2>3. Local(c, b)
    BY Zenon, <2>b, <1>s, <2>1, <2>2 DEF Local
  <2>4. PipeOf(c) /\ OwnOf(c) /\ PipeAt(b) /\ OwnAt(b)
    BY Zenon, <2>b, <1>q, <2>1
  <2>5. stage'[c] \in {"loop", "greet"} /\ conn'[c] = b
    BY Zenon, <2>b, <1>s, <2>2
  <2>6. PipeOf(c)'
    <3>1. Empty(b) /\ asked[c] = <<>> /\ c \notin armed
      BY Zenon, <2>b, <2>0, <2>4 DEF PipeOf
    <3>2. Len(asked'[c]) = 0 /\ Len(inbox'[b]) + Len(outbox'[b]) = 0
      BY <2>2, <3>1 DEF Empty
    <3>3. Len(asked'[c]) <= 1 /\ UnderWay(b)' <= Len(asked'[c]) /\ Empty(b)'
      <4>1. inbox' = inbox /\ outbox' = outbox
        BY Zenon, <2>2
      <4>2. UnderWay(b)' = 0 /\ Empty(b)'
        BY Zenon, <3>1, <3>2, <4>1 DEF UnderWay, Empty
      <4>3. 0 <= 1 /\ 0 <= 0
        OBVIOUS
      <4> QED BY Zenon, <3>2, <4>2, <4>3
    <3>4. c \notin armed' /\ asked'[c] = <<>>
      BY Zenon, <2>2, <3>1 DEF clientVars
    <3> QED BY Zenon, <2>5, <3>3, <3>4 DEF PipeOf
  <2>7. OwnOf(c)'
    <3>1. /\ session[b] = FreshSession /\ inbox[b] = <<>>
          /\ session' = session /\ inbox' = inbox
      BY Zenon, <2>b, <2>0, <2>2, <2>4 DEF OwnOf, PipeOf, Empty
    <3>2. Own(FreshSession, c)'
      BY Zenon DEF Own, FreshSession
    <3>3. Own(session[b], c)'
      BY Zenon, <3>1, <3>2 DEF Own
    <3>4. stage'[c] \notin {"health", "reset"}
      BY Zenon, <2>5
    <3> QED BY Zenon, <2>5, <3>1, <3>3, <3>4 DEF OwnOf
  <2>8. PipeAt(b)' /\ OwnAt(b)'
    BY Zenon, <2>b, <2>2, <2>4 DEF PipeAt, OwnAt, Unheld, Empty
  <2> QED BY Zenon, <2>b, <2>3, <2>6, <2>7, <2>8, LocalQuiet
<1>7. ASSUME NEW c \in Clients, InitializeFails(c) PROVE QuietInv'
  <2>b. PICK b : b = conn[c]
    BY Zenon
  <2>0. stage[c] = "startup"
    BY Zenon, <2>b, <1>7 DEF InitializeFails
  <2>1. b \in Backends /\ \A d \in Clients \ {c} : conn[d] # b
    BY Zenon, <2>b, <2>0, <1>s, OneOwner
  <2>2. /\ conn' = [conn EXCEPT ![c] = NoBackend] /\ stage' = [stage EXCEPT ![c] = "done"]
        /\ asked' = [asked EXCEPT ![c] = <<>>] /\ armed' = armed \ {c} /\ pinned' = pinned \ {c}
        /\ tracker' = [tracker EXCEPT ![c] = "I"]
        /\ answer' = [answer EXCEPT ![c] = NoAnswer(c)] /\ did' = [did EXCEPT ![c] = {}]
        /\ idle' = idle \cup ({b} \ {NoBackend}) /\ UNCHANGED <<session, outbox>>
        /\ up' = up \ {b} /\ inbox' = [inbox EXCEPT ![b] = <<>>]
    BY Zenon, <2>b, <1>7 DEF InitializeFails, Finish, Over, Take, GoTo
  <2>3. Local(c, b)
    BY Zenon, <2>b, <1>s, <2>1, <2>2 DEF Local
  <2>4. PipeOf(c)' /\ OwnOf(c)'
    BY Zenon, <2>b, <1>s, <2>2 DEF PipeOf, OwnOf
  <2>5. Empty(b)
    BY Zenon, <2>b, <1>q, <2>0 DEF PipeOf
  <2>6. PipeAt(b)' /\ OwnAt(b)'
    BY Zenon, <2>b, <1>s, <2>1, <2>2, <2>5 DEF PipeAt, OwnAt, Empty
  <2> QED BY Zenon, <2>b, <2>3, <2>4, <2>6, LocalQuiet
<1>8. ASSUME NEW c \in Clients, NEW k \in Kinds, ForwardQuery(c, k) PROVE QuietInv'
  <2>b. PICK b : b = conn[c]
    BY Zenon
  <2> DEFINE r == Request(c, Number(c), k)
  <2>0. stage[c] = "loop" /\ asked[c] = <<>>
    <3>1. asked[c] \in Seq(Kinds) /\ Len(asked[c]) < 1
      BY Zenon, <2>b, <1>8, <1>s DEF ForwardQuery, Ask, Waits
    <3>2. Len(asked[c]) = 0
      BY <2>b, <3>1
    <3> QED BY Zenon, <2>b, <1>8, <3>1, <3>2, NoLength DEF ForwardQuery
  <2>1. b \in Backends /\ \A d \in Clients \ {c} : conn[d] # b
    BY Zenon, <2>b, <2>0, <1>s, OneOwner
  <2>2. Empty(b)
    <3>1. UnderWay(b) <= 0
      BY Zenon, <2>b, <1>q, <2>0 DEF PipeOf
    <3> QED BY Zenon, <2>1, <3>1, Short
  <2>3. /\ asked' = [asked EXCEPT ![c] = <<k>>]
        /\ did' = [did EXCEPT ![c] = @ \cup ({k} \cap {"begin", "set"})]
        /\ UNCHANGED <<answer, stage, conn, tracker, idle, up, session, outbox, armed>>
        /\ inbox' = [inbox EXCEPT ![b] = IF b \in up THEN <<r>> ELSE <<>>]
        /\ pinned' \in {pinned, pinned \cup {c}, pinned \ {c}}
    <3>1. asked' = [asked EXCEPT ![c] = <<k>>]
      BY <2>b, <1>8, <1>s, <2>0 DEF ForwardQuery, Ask
    <3>2. inbox' = [inbox EXCEPT ![b] = IF b \in up THEN <<r>> ELSE <<>>]
      BY <2>b, <1>8, <1>s, <2>1, <2>2 DEF ForwardQuery, Write, Empty
    <3>3. pinned' \in {pinned, pinned \cup {c}, pinned \ {c}}
      BY Zenon, <2>b, <1>8 DEF ForwardQuery, PinnedAfter
    <3> QED BY Zenon, <2>b, <1>8, <3>1, <3>2, <3>3 DEF ForwardQuery, Ask, Waits
  <2>4. Local(c, b)
    BY Zenon, <2>b, <1>s, <2>1, <2>3 DEF Local
  <2>5. PipeOf(c) /\ OwnOf(c)
    BY Zenon, <2>b, <1>q
  <2>6. /\ inbox'[b] = (IF b \in up THEN <<r>> ELSE <<>>) /\ outbox'[b] = <<>>
        /\ asked'[c] = <<k>> /\ stage'[c] = "loop" /\ conn'[c] = b
        /\ did'[c] = did[c] \cup ({k} \cap {"begin", "set"})
    BY Zenon, <2>b, <1>s, <2>0, <2>1, <2>2, <2>3 DEF Empty
  <2>7. PipeOf(c)'
    <3>1. Len(asked'[c]) = 1 /\ Len(inbox'[b]) + Len(outbox'[b]) <= 1 /\ 1 <= 1
      BY <2>6
    <3>2. c \notin armed'
      BY Zenon, <2>3, <2>5 DEF PipeOf
    <3>3. UnderWay(b)' <= Len(asked'[c]) /\ Len(asked'[c]) <= 1
      BY <3>1, Zenon DEF UnderWay
    <3>4. stage'[c] = "loop" /\ conn'[c] = b
      BY Zenon, <2>6
    <3> QED BY Zenon, <3>2, <3>3, <3>4 DEF PipeOf, UnderWay
  <2>8. OwnOf(c)'
    <3>1. Own(session[b], c) /\ session'[b] = session[b]
      BY Zenon, <2>b, <2>0, <2>3, <2>5 DEF OwnOf
    <3>2. Own(session[b], c)'
      BY Zenon, <2>3, <2>6, <3>1 DEF Own
    <3>3. inbox'[b] # <<>> => inbox'[b][1] = r
      BY <2>6
    <3>4. r.from = c /\ r.kind = k
      BY Zenon DEF Request
    <3> HIDE DEF r
    <3> QED BY Zenon, <2>6, <3>1, <3>2, <3>3, <3>4 DEF OwnOf, Own
  <2>9. PipeAt(b)' /\ OwnAt(b)'
    BY Zenon, <2>b, <2>3, <2>6 DEF PipeAt, OwnAt, Unheld
  <2> QED BY Zenon, <2>b, <2>4, <2>7, <2>8, <2>9, LocalQuiet
<1>9. ASSUME NEW c \in Clients, NEW k \in Kinds, RejectQuery(c, k) PROVE QuietInv'
  BY Zenon, <1>9, StillQuiet DEF RejectQuery
(* The client gets its answer, and keeps its backend or gives it up.       *)
<1>11. ASSUME NEW c \in Clients, NEW b \in Backends, b = conn[c], stage[c] = "loop", outbox[b] # <<>>,
              asked' = [asked EXCEPT ![c] = <<>>], outbox' = [outbox EXCEPT ![b] = <<>>],
              NEW s, answer' = [answer EXCEPT ![c] = s],
              NEW t, tracker' = [tracker EXCEPT ![c] = t],
              UNCHANGED <<pinned, did, up, session, inbox>>, armed' \in {armed, armed \ {c}},
              \/ UNCHANGED <<idle, conn, stage>>
              \/ idle' = idle \cup {b} /\ Take(c, NoBackend) /\ GoTo(c, "acquire")
       PROVE  QuietInv'
  <2>1. \A d \in Clients \ {c} : conn[d] # b
    BY Zenon, <1>11, <1>s, OneOwner
  <2>2. Local(c, b)
    BY Zenon, <1>11, <1>s, <2>1 DEF Local, Take, GoTo
  <2>3. inbox'[b] = <<>> /\ outbox'[b] = <<>> /\ asked'[c] = <<>> /\ c \notin armed'
    BY Zenon, OneAnswer, <1>11, <1>s, <1>q DEF PipeOf
  <2>4. \/ stage'[c] = "loop" /\ conn'[c] = b
        \/ stage'[c] = "acquire" /\ conn'[c] = NoBackend /\ b \in idle'
    BY Zenon, <1>11, <1>s DEF Take, GoTo
  <2>5. PipeOf(c)'
    <3>1. UnderWay(b)' <= Len(asked'[c]) /\ Len(asked'[c]) <= 1
      BY <2>3 DEF UnderWay
    <3> QED BY Zenon, <2>3, <2>4, <3>1 DEF PipeOf, UnderWay
  <2>6. OwnOf(c)'
    <3>1. OwnOf(c)
      BY Zenon, <1>q
    <3> QED BY Zenon, <1>11, <2>3, <2>4, <3>1 DEF OwnOf, Own
  <2>7. PipeAt(b)' /\ OwnAt(b)'
    BY Zenon, <1>11, <2>3, <2>4 DEF PipeAt, OwnAt, Unheld, Empty
  <2> QED BY Zenon, <2>2, <2>5, <2>6, <2>7, LocalQuiet
<1>12. ASSUME NEW c \in Clients, NEW m \in 1..Len(outbox[conn[c]]), BackendResponds(c, m)
       PROVE  QuietInv'
  <2>b. PICK b \in Backends : b = conn[c]
    BY Zenon, <1>12, <1>s DEF BackendResponds
  <2>1. stage[c] = "loop" /\ outbox[b] # <<>>
    BY <2>b, <1>12, <1>s DEF BackendResponds
  <2>2. m = 1
    <3>1. Len(outbox[conn[c]]) = 1
      BY Zenon, <2>b, <2>1, OneAnswer
    <3> QED BY <3>1
  <2>3. asked' = [asked EXCEPT ![c] = <<>>] /\ outbox' = [outbox EXCEPT ![b] = <<>>]
    <3>1. m + 1 = 2
      BY <2>2
    <3>2. /\ asked' = [asked EXCEPT ![c] = SubSeq(@, 2, Len(@))]
          /\ outbox' = [outbox EXCEPT ![b] = SubSeq(@, 2, Len(@))]
      BY Zenon, <2>b, <1>12, <3>1 DEF BackendResponds
    <3> QED BY Zenon, <2>b, <2>1, OneAnswer, <1>s, <3>2
  <2>4. /\ answer' = [answer EXCEPT ![c] = outbox[b][m]]
        /\ tracker' = [tracker EXCEPT ![c] = outbox[b][m].shows.txn]
        /\ UNCHANGED <<pinned, did, up, session, inbox>> /\ armed' = armed \ {c}
        /\ \/ UNCHANGED <<idle, conn, stage>>
           \/ idle' = idle \cup {b} /\ Take(c, NoBackend) /\ GoTo(c, "acquire")
    BY Zenon, <2>b, <1>12 DEF BackendResponds, Track
  <2> QED BY Zenon, <2>b, <2>1, <2>3, <2>4, <1>11
<1>13. ASSUME NEW c \in Clients, ResponseEndsUnseen(c) PROVE QuietInv'
  <2>b. PICK b \in Backends : b = conn[c]
    BY Zenon, <1>13, <1>s DEF ResponseEndsUnseen
  <2>1. stage[c] = "loop" /\ outbox[b] # <<>>
    BY Zenon, <2>b, <1>13 DEF ResponseEndsUnseen
  <2>2. asked' = [asked EXCEPT ![c] = <<>>] /\ outbox' = [outbox EXCEPT ![b] = <<>>]
    BY Zenon, <2>b, <2>1, OneAnswer, <1>13, <1>s DEF ResponseEndsUnseen
  <2>3. /\ answer' = [answer EXCEPT ![c] = Head(outbox[b])]
        /\ tracker' = [tracker EXCEPT ![c] = tracker[c]]
        /\ UNCHANGED <<pinned, did, up, session, inbox>> /\ armed' \in {armed, armed \ {c}}
        /\ UNCHANGED <<idle, conn, stage>>
    BY Zenon, <2>b, <1>13, <1>s DEF ResponseEndsUnseen
  <2> QED BY Zenon, <2>b, <2>1, <2>2, <2>3, <1>11
<1>17. ASSUME NEW c \in Clients, ResponseBegins(c) PROVE QuietInv'
  <2>1. armed' = armed
    <3>1. c \notin armed
      BY Zenon, <1>q DEF PipeOf
    <3> QED BY Zenon, <1>17, <3>1 DEF ResponseBegins
  <2> QED BY Zenon, <1>17, <2>1, StillQuiet DEF ResponseBegins
<1>14. ASSUME NEW b \in Backends, Serve(b) PROVE QuietInv'
  <2>1. inbox[b] # <<>> /\ inbox[b] \in Seq(Requests) /\ b \in up
    BY Zenon, <1>14, <1>s DEF Serve
  <2>c. PICK c \in Clients :
           /\ conn[c] = b /\ (\A d \in Clients \ {c} : conn[d] # b)
           /\ stage[c] \in {"health", "reset", "loop"}
           /\ outbox[b] = <<>> /\ Len(inbox[b]) = 1 /\ Tail(inbox[b]) = <<>>
           /\ Head(inbox[b]) = inbox[b][1] /\ inbox[b][1] \in Requests
           /\ stage[c] = "loop" => Len(asked[c]) = 1
    BY Zenon, <2>1, OneStatement
  <2>2. stage[c] \in {"health", "reset", "loop"}
    BY Zenon, <2>c
  <2>3. outbox[b] = <<>> /\ Len(inbox[b]) = 1
    BY Zenon, <2>c
  <2>r. PICK r : r = Head(inbox[b])
    BY Zenon
  <2>4. r = inbox[b][1] /\ r \in Requests /\ Tail(inbox[b]) = <<>>
    BY Zenon, <2>c, <2>r
  <2>5. \A d \in Clients \ {c} : conn[d] # b
    BY Zenon, <2>c
  <2>6. UNCHANGED <<mode, handlerVars, clientVars, idle, captured, started>>
    BY Zenon, <1>14 DEF Serve
  <2>7. PipeOf(c) /\ OwnOf(c)
    BY Zenon, <1>q
  <2>8. CASE r.kind = "terminate" \/ b \notin started
    <3>1. up' = up \ {b} /\ inbox' = [inbox EXCEPT ![b] = <<>>] /\ UNCHANGED <<session, outbox>>
      BY Zenon, <1>14, <2>r, <2>8 DEF Serve
    <3>2. Local(c, b)
      BY Zenon, <1>s, <2>c, <2>5, <2>6, <3>1 DEF Local
    <3>3. inbox'[b] = <<>> /\ outbox'[b] = <<>> /\ UnderWay(b)' = 0
      BY <1>s, <2>3, <3>1 DEF UnderWay
    <3>4. PipeOf(c)'
      <4>1. stage[c] = "loop" => Len(asked[c]) \in Nat /\ Len(asked[c]) <= 1
        BY <1>s, <2>7 DEF PipeOf
      <4>2. stage[c] = "loop" => UnderWay(b)' <= Len(asked[c])
        BY <3>3, <4>1
      <4>3. UnderWay(b)' <= 1
        BY <3>3
      <4> QED BY Zenon, <2>c, <2>2, <2>6, <2>7, <4>1, <4>2, <4>3 DEF PipeOf, UnderWay
    <3>5. OwnOf(c)'
      BY Zenon, <2>c, <2>2, <2>6, <2>7, <3>1, <3>3 DEF OwnOf, Own
    <3>6. PipeAt(b)' /\ OwnAt(b)'
      BY Zenon, <2>c, <2>6, <3>3 DEF PipeAt, OwnAt, Unheld
    <3> QED BY Zenon, <3>2, <3>4, <3>5, <3>6, LocalQuiet
  <2>9. CASE ~(r.kind = "terminate" \/ b \notin started)
    <3>s. PICK s : s = After(session[b], r.kind)
      BY Zenon
    <3>1. /\ session' = [session EXCEPT ![b] = s] /\ inbox' = [inbox EXCEPT ![b] = <<>>]
          /\ outbox' = [outbox EXCEPT ![b] = <<[from |-> r.from, n |-> r.n, shows |-> s]>>]
          /\ UNCHANGED up
      <4>1. /\ session' = [session EXCEPT ![b] = s] /\ inbox' = [inbox EXCEPT ![b] = Tail(@)]
            /\ outbox' = [outbox EXCEPT ![b] = Append(@, [from |-> r.from, n |-> r.n, shows |-> session'[b]])]
            /\ UNCHANGED up
        BY Zenon, <1>14, <2>r, <2>9, <3>s DEF Serve
      <4>2. session'[b] = s
        BY Zenon, <1>s, <4>1
      <4>3. Append(<<>>, [from |-> r.from, n |-> r.n, shows |-> s])
              = <<[from |-> r.from, n |-> r.n, shows |-> s]>>
        OBVIOUS
      <4> QED BY Zenon, <1>s, <2>3, <2>4, <4>1, <4>2, <4>3
    <3>2. Local(c, b)
      BY Zenon, <1>s, <2>c, <2>5, <2>6, <3>1 DEF Local
    <3>3. /\ inbox'[b] = <<>> /\ outbox'[b] = <<[from |-> r.from, n |-> r.n, shows |-> s]>>
          /\ session'[b] = s
      BY Zenon, <1>s, <3>1
    <3>4. PipeOf(c)'
      <4>1. Len(inbox'[b]) + Len(outbox'[b]) = 1
        BY <3>3
      <4>2. stage[c] = "loop" => Len(asked[c]) = 1
        BY Zenon, <2>c
      <4>3. 1 <= 1
        OBVIOUS
      <4>4. UnderWay(b)' <= 1
        BY <4>1, <4>3, Zenon DEF UnderWay
      <4>5. stage[c] = "loop" => UnderWay(b)' <= Len(asked[c]) /\ Len(asked[c]) <= 1
        BY <4>2, <4>3, <4>4, Zenon
      <4> QED BY Zenon, <2>c, <2>2, <2>6, <2>7, <4>4, <4>5 DEF PipeOf, UnderWay
    <3>5. OwnOf(c)'
      <4>1. r.kind \in Statements \cup {"health"} /\ session[b] \in Sessions
        BY Zenon, <1>s, <2>4, <2>9 DEF Requests
      <4>2. outbox'[b][1].shows = s
        BY <3>3
      <4>3. CASE stage[c] = "loop"
        <5>1. Own(session[b], c) /\ (r.kind \in {"begin", "set"} => r.kind \in did[c])
          BY Zenon, <2>1, <2>c, <2>4, <2>7, <4>3 DEF OwnOf
        <5>2. Own(s, c)
          BY Zenon, <3>s, <4>1, <5>1, AfterOwn
        <5>3. Own(session[b], c)'
          BY Zenon, <2>6, <3>3, <5>2 DEF Own
        <5> QED BY Zenon, <2>c, <2>6, <3>3, <4>3, <5>3 DEF OwnOf, Own
      <4>4. CASE stage[c] = "health"
        BY Zenon, <2>c, <2>6, <3>3, <4>2, <4>4 DEF OwnOf
      <4>5. CASE stage[c] = "reset"
        <5>1. r.kind = "discard"
          BY ZenonT(30), <2>1, <2>c, <2>4, <2>7, <4>5 DEF OwnOf
        <5>2. s.txn = "I" => s = FreshSession
          BY Zenon, <3>s, <4>1, <5>1, AfterDiscard
        <5> QED BY ZenonT(30), <2>c, <2>6, <3>3, <4>2, <4>5, <5>2 DEF OwnOf
      <4> QED BY Zenon, <2>2, <4>3, <4>4, <4>5
    <3>6. PipeAt(b)' /\ OwnAt(b)'
      BY Zenon, <2>c, <2>6, <3>3 DEF PipeAt, OwnAt, Unheld
    <3> QED BY Zenon, <3>2, <3>4, <3>5, <3>6, LocalQuiet
  <2> QED BY Zenon, <2>8, <2>9
<1>15. ASSUME NEW b \in Backends, Crash(b) PROVE QuietInv'
  <2>1. /\ up' = up \ {b} /\ inbox' = [inbox EXCEPT ![b] = <<>>]
        /\ UNCHANGED <<mode, handlerVars, clientVars, idle, captured, started, session, outbox>>
    BY Zenon, <1>15 DEF Crash
  <2>2. CASE inbox[b] = <<>>
    <3>1. inbox' = inbox
      BY Zenon, <1>s, <2>1, <2>2
    <3>2. \A e \in Backends : PipeAt(e)' /\ OwnAt(e)'
      BY Zenon, <1>q, <2>1, <2>2, <3>1 DEF PipeAt, OwnAt, Unheld, Empty
    <3>3. \A c \in Clients : PipeOf(c)' /\ OwnOf(c)'
      <4>1. ASSUME NEW c \in Clients PROVE PipeOf(c)'
        BY Zenon, <1>q, <2>1, <3>1 DEF PipeOf, Empty, UnderWay
      <4>2. ASSUME NEW c \in Clients PROVE OwnOf(c)'
        BY ZenonT(30), <1>q, <2>1, <3>1 DEF OwnOf, Own
      <4> QED BY Zenon, <4>1, <4>2
    <3> QED BY Zenon, <3>2, <3>3 DEF QuietInv
  <2>3. CASE inbox[b] # <<>>
    <3>c. PICK c \in Clients : conn[c] = b
      BY Zenon, <1>q, <2>3 DEF PipeAt, Empty, Unheld
    <3>1. \A d \in Clients \ {c} : conn[d] # b
      BY Zenon, <1>s, <3>c, OneOwner
    <3>2. Local(c, b)
      BY Zenon, <1>s, <2>1, <3>c, <3>1 DEF Local
    <3>3. PipeOf(c) /\ OwnOf(c) /\ stage[c] \in {"health", "reset", "loop"}
      BY Zenon, <1>s, <1>q, <2>3, <3>c DEF PipeOf, Empty, Stages
    <3>4. inbox'[b] = <<>> /\ outbox'[b] = outbox[b]
      BY Zenon, <1>s, <2>1
    <3>5. UnderWay(b)' <= UnderWay(b) /\ UnderWay(b)' \in Nat /\ UnderWay(b) \in Nat
      <4>1. Len(inbox[b]) \in Nat /\ Len(outbox[b]) \in Nat
        BY <1>s
      <4>2. Len(inbox'[b]) = 0 /\ Len(outbox'[b]) = Len(outbox[b])
        BY Zenon, <3>4
      <4>3. UnderWay(b)' = 0 + Len(outbox[b]) /\ UnderWay(b) = Len(inbox[b]) + Len(outbox[b])
        BY Zenon, <4>2 DEF UnderWay
      <4>4. ASSUME NEW i \in Nat, NEW o \in Nat
            PROVE  0 + o <= i + o /\ 0 + o \in Nat /\ i + o \in Nat
        BY <4>4
      <4> QED BY Zenon, <4>1, <4>3, <4>4
    <3>6. PipeOf(c)'
      <4>1. ASSUME NEW u \in Nat, NEW v \in Nat, NEW a \in Nat, u <= v, v <= a PROVE u <= a
        BY <4>1
      <4>2. Len(asked[c]) \in Nat
        BY <1>s
      <4>3. stage[c] = "loop" => UnderWay(b)' <= Len(asked[c])
        BY Zenon, <3>c, <3>3, <3>5, <4>1, <4>2 DEF PipeOf
      <4>4. stage[c] \in {"health", "reset"} => UnderWay(b)' <= 1
        BY <3>c, <3>3, <3>5 DEF PipeOf
      <4> QED BY Zenon, <2>1, <3>c, <3>3, <4>3, <4>4 DEF PipeOf, UnderWay
    <3>7. OwnOf(c)'
      BY Zenon, <2>1, <3>c, <3>3, <3>4 DEF OwnOf, Own
    <3>8. PipeAt(b)' /\ OwnAt(b)'
      BY Zenon, <2>1, <3>c, <3>4 DEF PipeAt, OwnAt, Unheld
    <3> QED BY Zenon, <3>2, <3>6, <3>7, <3>8, LocalQuiet
  <2> QED BY Zenon, <2>2, <2>3
<1>16. ASSUME NEW c \in Clients, RecycleReads(c) \/ RecycleTimesOut(c) PROVE QuietInv'
  BY Zenon, <1>2, <1>3, <1>16 DEF RecycleReads, RecycleTimesOut
<1> QED
  BY ZenonT(30), <1>0, <1>1, <1>4, <1>5, <1>6, <1>7, <1>8, <1>9, <1>12, <1>13, <1>14, <1>15, <1>16,
     <1>17
  DEF Next, Recycling, Startup, Loop, Returns, QueryThenTerminate, RecycleInterrupted, Waits

(* The first state has no session and nothing under way.                   *)
LEMMA QuietInit == Init => QuietInv
<1> SUFFICES ASSUME Init PROVE QuietInv
  BY Zenon
<1>1. \A c \in Clients : PipeOf(c) /\ OwnOf(c)
  BY Zenon DEF Init, PipeOf, OwnOf
<1>2. \A b \in Backends : PipeAt(b) /\ OwnAt(b)
  BY Zenon DEF Init, PipeAt, OwnAt, Empty
<1> QED BY Zenon, <1>1, <1>2 DEF QuietInv

(* If the clients wait for their answers and no session is interrupted or  *)
(* timed out, every statement runs in a session that its own client has    *)
(* made, transactions included.                                            *)
THEOREM ServesCleanWaiting ==
  ASSUME Waits
  PROVE  Spec => []ServedClean
<1> DEFINE Inv == TypeOK /\ Exclusive /\ QuietInv
<1>1. Init => Inv
  BY Zenon, TypeInit, ExclusiveInit, QuietInit
<1>2. Inv /\ [Next]_vars => Inv'
  BY Zenon, TypeStep, ExclusiveStep, QuietStep
<1>3. Inv => ServedClean
  <2> SUFFICES ASSUME Inv, NEW b \in Backends, NEW c \in Clients,
                      inbox[b] # <<>>, Head(inbox[b]).from = c
               PROVE  /\ session[b].txn # "I" => "begin" \in did[c]
                      /\ session[b].guc => "set" \in did[c]
    BY Zenon DEF ServedClean
  <2>1. PICK d \in Clients : conn[d] = b
    BY Zenon DEF QuietInv, PipeAt, Empty, Unheld
  <2>2. Head(inbox[b]) = inbox[b][1]
    BY DEF TypeOK
  <2>3. PipeOf(d) /\ OwnOf(d) /\ stage[d] \in Stages /\ conn[d] # NoBackend
    BY Zenon, <2>1, SessionAssumption DEF QuietInv, TypeOK
  <2>4. stage[d] \in {"health", "reset", "loop"}
    BY Zenon, <2>1, <2>3 DEF PipeOf, Empty, TypeOK, Stages
  <2>5. stage[d] = "loop" /\ d = c
    BY Zenon, <2>1, <2>2, <2>3, <2>4, SessionAssumption DEF OwnOf
  <2> QED BY Zenon, <2>1, <2>3, <2>5 DEF OwnOf, Own
<1> QED BY <1>1, <1>2, <1>3, PTL DEF Spec

-----------------------------------------------------------------------------
(* The direct session runs the same server.                                *)
LEMMA SameServer ==
  /\ Direct!FreshSession = FreshSession
  /\ \A s, k : Direct!After(s, k) = After(s, k)
BY Zenon DEF Direct!FreshSession, FreshSession, Direct!After, After, Direct!Failed, Failed

(* One statement of a direct session.                                      *)
LEMMA RunOne ==
  ASSUME NEW s, NEW k
  PROVE  Direct!Run(s, <<k>>) = After(s, k)
<1> DEFINE Eq(g) == g = [i \in 0..Len(<<k>>) |-> IF i = 0 THEN s ELSE Direct!After(g[i - 1], <<k>>[i])]
<1>1. Eq([i \in 0..1 |-> IF i = 0 THEN s ELSE Direct!After(s, k)])
  <2>1. Len(<<k>>) = 1 /\ <<k>>[1] = k
    BY Zenon
  <2>2. \A i \in 0..1 : i # 0 => i = 1 /\ i - 1 = 0 /\ i - 1 \in 0..1
    OBVIOUS
  <2> QED BY Zenon, <2>1, <2>2
<1>2. Eq(CHOOSE g : Eq(g))
  <2> HIDE DEF Eq
  <2> QED BY Zenon, <1>1
<1>3. \A g : Eq(g) => g[Len(<<k>>)] = Direct!After(s, k)
  <2> SUFFICES ASSUME NEW g, Eq(g) PROVE g[Len(<<k>>)] = Direct!After(s, k)
    BY Zenon
  <2>1. Len(<<k>>) = 1 /\ <<k>>[1] = k
    BY Zenon
  <2>2. g[0] = s
    BY <2>1
  <2>3. g[1] = Direct!After(g[1 - 1], <<k>>[1])
    BY <2>1
  <2> QED BY <2>1, <2>2, <2>3
<1>4. Direct!Run(s, <<k>>) = Direct!After(s, k)
  BY Zenon, <1>2, <1>3 DEF Direct!Run
<1> QED BY Zenon, <1>4, SameServer
(* What a client's mirror depends on is its own.                           *)
Elsewhere(c) ==
    \A d \in Clients \ {c} :
      /\ stage'[d] = stage[d] /\ conn'[d] = conn[d] /\ asked'[d] = asked[d]
      /\ answer'[d] = answer[d] /\ tracker'[d] = tracker[d]
      /\ d \in pinned' <=> d \in pinned
      /\ stage[d] = "loop" =>
           /\ inbox'[conn[d]] = inbox[conn[d]] /\ outbox'[conn[d]] = outbox[conn[d]]
           /\ session'[conn[d]] = session[conn[d]]

(* So the other clients' mirrors stay.                                     *)
LEMMA LocalMirror ==
  ASSUME MirrorInv, NEW c \in Clients, Elsewhere(c), MirrorOf(c)'
  PROVE  MirrorInv'
<1>1. ASSUME NEW d \in Clients \ {c} PROVE MirrorOf(d)'
  <2>1. MirrorOf(d)
    BY Zenon DEF MirrorInv
  <2>2. /\ stage'[d] = stage[d] /\ conn'[d] = conn[d] /\ asked'[d] = asked[d]
        /\ answer'[d] = answer[d] /\ tracker'[d] = tracker[d] /\ (d \in pinned' <=> d \in pinned)
    BY Zenon, <1>1 DEF Elsewhere
  <2>3. CASE stage[d] = "loop"
    <3>1. /\ inbox'[conn[d]] = inbox[conn[d]] /\ outbox'[conn[d]] = outbox[conn[d]]
          /\ session'[conn[d]] = session[conn[d]]
      BY Zenon, <1>1, <2>3 DEF Elsewhere
    <3> QED BY ZenonT(30), <2>1, <2>2, <2>3, <3>1 DEF MirrorOf
  <2>4. CASE stage[d] # "loop"
    BY Zenon, <2>1, <2>2, <2>4 DEF MirrorOf
  <2> QED BY Zenon, <2>3, <2>4
<1> QED BY Zenon, <1>1 DEF MirrorInv

(* A statement leaves the saved setting only inside a transaction, and     *)
(* only SET leaves a setting that was not there.                           *)
LEMMA AfterKeeps ==
  ASSUME NEW s \in Sessions, NEW k \in Statements, s.txn = "I" => ~s.saved
  PROVE  /\ After(s, k).txn = "I" => ~After(s, k).saved
         /\ After(s, k).guc \/ After(s, k).saved => s.guc \/ s.saved \/ k = "set"
BY DEF After, Sessions, Statements, Statuses, Failed, FreshSession

(* A session with no transaction and no setting is a fresh one.            *)
LEMMA Blank ==
  ASSUME NEW s \in Sessions, s.txn = "I", ~s.guc, ~s.saved
  PROVE  s = FreshSession
BY Zenon DEF Sessions, FreshSession

(* While each client waits for its answers, every step of the proxy is one *)
(* of the client's own session, or none.                                   *)
LEMMA MirrorStep ==
  Waits /\ ~Splits /\ "discard" \notin Kinds /\ TypeOK /\ Exclusive /\ QuietInv /\ MirrorInv /\ [Next]_vars
    => MirrorInv' /\ [Direct!Next]_(Direct!dvars)
<1> DEFINE Step == Direct!Next \/ UNCHANGED Direct!dvars
<1> SUFFICES ASSUME Waits, ~Splits, "discard" \notin Kinds,
                    TypeOK, Exclusive, QuietInv, MirrorInv, [Next]_vars
             PROVE  MirrorInv' /\ Step
  BY Zenon
<1> USE DEF handlerVars, clientVars, serverVars
<1>s. /\ stage \in [Clients -> Stages] /\ conn \in [Clients -> Backends \cup {NoBackend}]
      /\ asked \in [Clients -> Seq(Kinds)] /\ did \in [Clients -> SUBSET Kinds]
      /\ answer \in [Clients -> Responses] /\ tracker \in [Clients -> Statuses]
      /\ session \in [Backends -> Sessions]
      /\ inbox \in [Backends -> Seq(Requests)] /\ outbox \in [Backends -> Seq(Responses)]
      /\ NoBackend \notin Backends /\ idle \subseteq Backends
      /\ \A c \in Clients : conn[c] # NoBackend <=> stage[c] \notin {"acquire", "done"}
  BY Zenon, SessionAssumption DEF TypeOK
<1>q. /\ \A c \in Clients : PipeOf(c) /\ OwnOf(c) /\ MirrorOf(c)
      /\ \A b \in Backends : PipeAt(b) /\ OwnAt(b)
  BY Zenon DEF QuietInv, MirrorInv
(* The mirror of a client without a backend, and the steps it does not see.*)
<1>a. ASSUME NEW c \in Clients, stage'[c] # "loop", answer'[c] = NoAnswer(c), tracker'[c] = "I",
             asked'[c] = <<>>
      PROVE  MirrorOf(c)'
  <2>1. answer'[c].shows = FreshSession /\ answer'[c].from = c
    BY <1>a DEF NoAnswer
  <2>2. FreshSession.txn = "I" /\ ~FreshSession.guc /\ ~FreshSession.saved
    BY Zenon DEF FreshSession
  <2> QED BY Zenon, <1>a, <2>1, <2>2 DEF MirrorOf
<1>b. ASSUME UNCHANGED <<asked, answer>>, \A c \in Clients : stage'[c] = "done" <=> stage[c] = "done"
      PROVE  Step
  BY Zenon, <1>b DEF Direct!dvars
<1>c. ASSUME NEW c \in Clients, stage'[c] # "loop", UNCHANGED <<clientVars, tracker>>, stage[c] # "loop"
      PROVE  MirrorOf(c)'
  <2>1. MirrorOf(c) /\ PipeOf(c)
    BY Zenon, <1>q
  <2>2. asked' = asked /\ answer' = answer /\ tracker' = tracker /\ asked[c] = <<>>
    BY ZenonT(30), <1>c, <2>1 DEF clientVars, PipeOf
  <2>3. answer[c].shows = FreshSession /\ FreshSession.txn = "I" /\ ~FreshSession.guc /\ ~FreshSession.saved
    BY Zenon, <1>c, <2>1 DEF MirrorOf, FreshSession
  <2> QED BY Zenon, <1>c, <2>1, <2>2, <2>3 DEF MirrorOf
<1>0. CASE UNCHANGED vars
  <2>1. MirrorInv'
    BY ZenonT(30), <1>0 DEF vars, MirrorInv, MirrorOf
  <2> QED BY Zenon, <1>0, <2>1, <1>b DEF vars
<1>1. ASSUME NEW c \in Clients, AcquireIdle(c) PROVE MirrorInv' /\ Step
  <2>1. PICK b \in idle : idle' = idle \ {b} /\ Take(c, b)
                          /\ Write(b, <<Request(Proxy, 0, "health")>>)
    BY Zenon, <1>1 DEF AcquireIdle
  <2>2. \A d \in Clients : conn[d] # b
    BY Zenon, <2>1 DEF Exclusive
  <2>3. Elsewhere(c)
    BY <1>1, <1>s, <2>1, <2>2 DEF AcquireIdle, Elsewhere, Take, GoTo, Write
  <2>4. MirrorOf(c)'
    BY Zenon, <1>1, <1>s, <1>c DEF AcquireIdle, GoTo
  <2>5. Step
    BY Zenon, <1>1, <1>s, <1>b DEF AcquireIdle, GoTo
  <2> QED BY Zenon, <2>3, <2>4, <2>5, LocalMirror
<1>2. ASSUME NEW c \in Clients, AcquireNew(c) PROVE MirrorInv' /\ Step
  <2>1. Elsewhere(c)
    BY Zenon, <1>2, <1>s DEF AcquireNew, Elsewhere, Take, GoTo
  <2>2. MirrorOf(c)'
    BY Zenon, <1>2, <1>s, <1>c DEF AcquireNew, GoTo
  <2>3. Step
    BY Zenon, <1>2, <1>s, <1>b DEF AcquireNew, GoTo
  <2> QED BY Zenon, <2>1, <2>2, <2>3, LocalMirror
<1>3. ASSUME NEW c \in Clients, RecycleReads(c) \/ RecycleTimesOut(c) PROVE MirrorInv' /\ Step
  <2>b. PICK b \in Backends : b = conn[c]
    BY Zenon, <1>3, <1>s DEF RecycleReads, RecycleTimesOut
  <2>1. \A d \in Clients \ {c} : conn[d] # b
    BY Zenon, <2>b, <1>s, OneOwner
  <2>2. /\ stage[c] \in {"health", "reset"}
        /\ UNCHANGED <<mode, begun, tracker, pinned, armed, partial, clientVars, idle>>
    BY Zenon, <1>3 DEF RecycleReads, RecycleTimesOut
  <2>3. /\ conn' = [conn EXCEPT ![c] = NoBackend] \/ conn' = conn
        /\ \E s \in {"acquire", "reset", "startup"} : GoTo(c, s)
        /\ \A e \in Backends \ {b} :
             inbox'[e] = inbox[e] /\ outbox'[e] = outbox[e] /\ session'[e] = session[e]
    <3>1. CASE RecycleFails(c)
      BY Zenon, <2>b, <3>1, <1>s DEF RecycleFails, Close, Take
    <3>2. CASE ~RecycleFails(c)
      BY Zenon, <2>b, <1>3, <3>2, <1>s DEF RecycleReads, RecycleTimesOut, Write
    <3> QED BY ZenonT(30), <3>1, <3>2
  <2>4. Elsewhere(c)
    <3> SUFFICES ASSUME NEW d \in Clients, d # c
                 PROVE  /\ stage'[d] = stage[d] /\ conn'[d] = conn[d] /\ asked'[d] = asked[d]
                        /\ answer'[d] = answer[d] /\ tracker'[d] = tracker[d]
                        /\ d \in pinned' <=> d \in pinned
                        /\ stage[d] = "loop" =>
                             /\ inbox'[conn[d]] = inbox[conn[d]] /\ outbox'[conn[d]] = outbox[conn[d]]
                             /\ session'[conn[d]] = session[conn[d]]
      BY Zenon DEF Elsewhere
    <3>1. stage'[d] = stage[d] /\ conn'[d] = conn[d]
      BY Zenon, <1>s, <2>3 DEF GoTo
    <3>2. stage[d] = "loop" => conn[d] \in Backends \ {b}
      BY Zenon, <1>s, <2>1
    <3>3. asked' = asked /\ answer' = answer /\ tracker' = tracker /\ pinned' = pinned
      BY Zenon, <2>2 DEF clientVars
    <3> QED BY Zenon, <2>3, <3>1, <3>2, <3>3
  <2>5. MirrorOf(c)'
    BY Zenon, <1>s, <2>2, <2>3, <1>c DEF GoTo
  <2>6. Step
    BY Zenon, <1>s, <2>2, <2>3, <1>b DEF GoTo
  <2> QED BY Zenon, <2>4, <2>5, <2>6, LocalMirror
<1>4. ASSUME NEW c \in Clients, Returns(c) \/ InitializeFails(c) PROVE MirrorInv' /\ Step
  <2>1. /\ conn' = [conn EXCEPT ![c] = NoBackend] /\ stage' = [stage EXCEPT ![c] = "done"]
        /\ asked' = [asked EXCEPT ![c] = <<>>] /\ pinned' = pinned \ {c}
        /\ tracker' = [tracker EXCEPT ![c] = "I"] /\ answer' = [answer EXCEPT ![c] = NoAnswer(c)]
        /\ UNCHANGED <<session, outbox>>
        /\ UNCHANGED inbox \/ (stage[c] = "startup" /\ inbox' = [inbox EXCEPT ![conn[c]] = <<>>])
    BY Zenon, <1>4, ReturnsFinish DEF InitializeFails, Finish, Over, Take, GoTo
  <2>2. Elsewhere(c)
    <3>1. \A d \in Clients \ {c} : stage[c] = "startup" => conn[d] # conn[c]
      BY Zenon, <1>s, OneOwner
    <3> QED BY ZenonT(30), <1>s, <2>1, <3>1 DEF Elsewhere
  <2>3. MirrorOf(c)'
    BY Zenon, <1>s, <2>1, <1>a
  <2>4. Direct!End(c)
    <3>1. {d \in Clients : stage'[d] = "done"} = {d \in Clients : stage[d] = "done"} \cup {c}
      BY <1>s, <2>1
    <3> QED BY Zenon, <2>1, <3>1, SameServer DEF Direct!End, Direct!NoAnswer, NoAnswer
  <2> QED BY Zenon, <2>2, <2>3, <2>4, LocalMirror DEF Direct!Next
<1>5. ASSUME NEW c \in Clients, ReplayStartup(c) \/ InitializeBackend(c) \/ Greet(c)
      PROVE  MirrorInv' /\ Step
  <2>1. stage[c] \in {"startup", "greet"}
    BY Zenon, <1>5 DEF ReplayStartup, InitializeBackend, Greet
  <2>2. /\ UNCHANGED <<conn, tracker, pinned, clientVars, session, inbox, outbox>>
        /\ stage' = [stage EXCEPT ![c] = "loop"] \/ stage' = [stage EXCEPT ![c] = "greet"]
    BY Zenon, <1>5 DEF ReplayStartup, InitializeBackend, Greet, GoTo
  <2>3. Elsewhere(c)
    BY Zenon, <1>s, <2>2 DEF Elsewhere
  <2>4. MirrorOf(c)'
    <3>1. MirrorOf(c) /\ PipeOf(c) /\ OwnOf(c)
      BY Zenon, <1>q
    <3>2. /\ answer[c].shows = FreshSession /\ session[conn[c]] = FreshSession
          /\ asked[c] = <<>> /\ inbox[conn[c]] = <<>> /\ outbox[conn[c]] = <<>>
      BY Zenon, <2>1, <3>1 DEF MirrorOf, PipeOf, OwnOf, Empty
    <3> QED BY Zenon, <2>2, <3>1, <3>2 DEF MirrorOf
  <2>5. Step
    BY Zenon, <1>s, <2>1, <2>2, <1>b
  <2> QED BY Zenon, <2>3, <2>4, <2>5, LocalMirror
(* A statement is sent or refused only when none is outstanding.           *)
<1>6. ASSUME NEW c \in Clients, stage[c] = "loop", Len(asked[c]) < Depth
      PROVE  /\ asked[c] = <<>> /\ Number(c) = (answer[c].n + 1) % Window
             /\ inbox[conn[c]] = <<>> /\ outbox[conn[c]] = <<>>
  <2>b. PICK b \in Backends : b = conn[c]
    BY Zenon, <1>6, <1>s
  <2>1. asked[c] \in Seq(Kinds) /\ Len(asked[c]) < 1 /\ Len(asked[c]) \in Nat
    BY <1>6, <1>s DEF Waits
  <2>2. Len(asked[c]) = 0
    BY <2>1
  <2>3. asked[c] = <<>>
    BY Zenon, <2>1, <2>2, NoLength
  <2>4. UnderWay(b) <= 0
    BY ZenonT(30), <2>b, <1>6, <1>q, <2>2 DEF PipeOf
  <2>5. Empty(b)
    BY Zenon, <2>4, Short
  <2>6. answer[c].n \in Int
    BY <1>s DEF Responses
  <2>7. answer[c].n + Len(asked[c]) + 1 = answer[c].n + 1
    BY <2>2, <2>6
  <2> QED BY Zenon, <2>b, <2>3, <2>5, <2>7 DEF Empty, Number
<1>7. ASSUME NEW c \in Clients, NEW k \in Kinds, ForwardQuery(c, k) PROVE MirrorInv' /\ Step
  <2>b. PICK b \in Backends : b = conn[c]
    BY Zenon, <1>7, <1>s DEF ForwardQuery
  <2>1. \A d \in Clients \ {c} : conn[d] # b
    BY Zenon, <2>b, <1>s, OneOwner
  <2>2. /\ stage[c] = "loop" /\ asked[c] = <<>> /\ Number(c) = (answer[c].n + 1) % Window
        /\ inbox[b] = <<>> /\ outbox[b] = <<>>
    BY Zenon, <2>b, <1>6, <1>7 DEF ForwardQuery, Ask
  <2>r. PICK r : r = Request(c, (answer[c].n + 1) % Window, k)
    BY Zenon
  <2>3. /\ asked' = [asked EXCEPT ![c] = Append(@, k)] /\ asked'[c] = <<k>>
        /\ UNCHANGED <<answer, stage, conn, tracker, session, outbox>>
        /\ inbox' = [inbox EXCEPT ![b] = IF b \in up THEN <<r>> ELSE <<>>]
        /\ pinned' = IF k = "set" THEN pinned \cup {c} ELSE pinned
    <3>1. Write(b, <<r>>)
      BY Zenon, <2>b, <1>7, <2>2, <2>r DEF ForwardQuery
    <3>2. inbox' = [inbox EXCEPT ![b] = IF b \in up THEN <<r>> ELSE <<>>]
      BY <3>1, <1>s, <2>2 DEF Write
    <3>3. pinned' = IF k = "set" THEN pinned \cup {c} ELSE pinned
      BY Zenon, <1>7 DEF ForwardQuery, PinnedAfter
    <3>4. asked' = [asked EXCEPT ![c] = Append(@, k)] /\ asked'[c] = <<k>>
      <4>1. asked' = [asked EXCEPT ![c] = Append(@, k)]
        BY Zenon, <1>7 DEF ForwardQuery, Ask
      <4>2. asked'[c] = Append(<<>>, k)
        BY Zenon, <1>s, <2>2, <4>1
      <4> QED BY <4>1, <4>2
    <3> QED BY Zenon, <1>7, <3>2, <3>3, <3>4 DEF ForwardQuery, Ask
  <2>4. Elsewhere(c)
    BY Zenon, <2>b, <1>s, <2>1, <2>3 DEF Elsewhere
  <2>5. MirrorOf(c)'
    <3>1. MirrorOf(c)
      BY Zenon, <1>q
    <3>2. /\ inbox'[b] = (IF b \in up THEN <<r>> ELSE <<>>) /\ outbox'[b] = <<>>
          /\ session'[b] = answer[c].shows /\ conn'[c] = b /\ stage'[c] = "loop"
      BY Zenon, <2>b, <1>s, <2>2, <2>3, <3>1 DEF MirrorOf
    <3>3. asked'[c][1] = k /\ asked'[c] # <<>> /\ (k = "set" => c \in pinned')
      BY <2>3
    <3>4. inbox'[b] # <<>> => inbox'[b][1] = Request(c, (answer[c].n + 1) % Window, asked'[c][1])
      <4>1. <<r>>[1] = r
        BY Zenon
      <4> QED BY Zenon, <2>r, <3>2, <3>3, <4>1
    <3>5. c \in pinned => c \in pinned'
      BY Zenon, <2>3
    <3> QED BY Zenon, <2>3, <3>1, <3>2, <3>3, <3>4, <3>5 DEF MirrorOf, Request
  <2>6. Direct!Ask(c, k)
    <3>1. {d \in Clients : stage'[d] = "done"} = {d \in Clients : stage[d] = "done"}
      BY Zenon, <2>3
    <3> QED BY Zenon, <2>2, <2>3, <3>1 DEF Direct!Ask
  <2>7. k \in Direct!Statements
    BY Zenon, SessionAssumption DEF Direct!Statements, Statements
  <2> QED BY Zenon, <2>4, <2>5, <2>6, <2>7, LocalMirror DEF Direct!Next
<1>8. ASSUME NEW c \in Clients, NEW k \in Kinds, RejectQuery(c, k) PROVE MirrorInv' /\ Step
  <2>b. PICK b \in Backends : b = conn[c]
    BY Zenon, <1>8, <1>s DEF RejectQuery
  <2>1. /\ stage[c] = "loop" /\ asked[c] = <<>> /\ Number(c) = (answer[c].n + 1) % Window
        /\ inbox[b] = <<>> /\ outbox[b] = <<>>
    BY Zenon, <2>b, <1>6, <1>8 DEF RejectQuery
  <2>2. MirrorOf(c) /\ answer[c] \in Responses
    BY Zenon, <1>s, <1>q
  <2>3. [answer[c] EXCEPT !.n = Number(c), !.shows.txn = tracker[c]]
          = [answer[c] EXCEPT !.n = Number(c)]
    <3>1. tracker[c] = answer[c].shows.txn
      BY Zenon, <2>2 DEF MirrorOf
    <3> QED BY ZenonT(30), <2>2, <3>1 DEF Responses, Sessions
  <2>4. answer' = [answer EXCEPT ![c] = [answer[c] EXCEPT !.n = Number(c), !.shows.txn = tracker[c]]]
    <3>1. answer \in [Clients -> Responses]
      BY Zenon DEF TypeOK
    <3>2. answer' = [answer EXCEPT ![c].n = Number(c), ![c].shows.txn = tracker[c]]
      BY Zenon, <1>8 DEF RejectQuery
    <3> QED BY ZenonT(30), <3>1, <3>2
  <2>5. /\ answer' = [answer EXCEPT ![c] = [answer[c] EXCEPT !.n = Number(c)]]
        /\ UNCHANGED <<stage, conn, asked, tracker, pinned, session, inbox, outbox>>
    BY Zenon, <1>8, <2>3, <2>4 DEF RejectQuery
  <2>6. Elsewhere(c)
    BY Zenon, <1>s, <2>5 DEF Elsewhere
  <2>7. answer'[c].shows = answer[c].shows /\ answer'[c].from = answer[c].from
    BY Zenon, <1>s, <2>2, <2>5 DEF Responses
  <2>8. MirrorOf(c)'
    BY Zenon, <2>b, <2>1, <2>2, <2>5, <2>7 DEF MirrorOf
  <2>9. Direct!Refuse(c)
    <3>1. answer' = [answer EXCEPT ![c].n = (@ + 1) % Window]
      BY Zenon, <1>s, <2>1, <2>5
    <3> QED BY Zenon, <2>1, <2>5, <3>1 DEF Direct!Refuse
  <2> QED BY Zenon, <2>6, <2>8, <2>9, LocalMirror DEF Direct!Next
<1>9. ASSUME NEW c \in Clients, NEW m \in 1..Len(outbox[conn[c]]), BackendResponds(c, m)
      PROVE  MirrorInv' /\ Step
  <2>b. PICK b \in Backends : b = conn[c]
    BY Zenon, <1>9, <1>s DEF BackendResponds
  <2>1. stage[c] = "loop" /\ outbox[b] # <<>>
    <3>1. stage[c] = "loop"
      BY Zenon, <1>9 DEF BackendResponds
    <3>2. m \in 1..Len(outbox[b])
      BY Zenon, <2>b, <1>9
    <3> QED BY <3>1, <3>2
  <2>2. /\ inbox[b] = <<>> /\ Len(outbox[b]) = 1 /\ Len(asked[c]) = 1
        /\ SubSeq(outbox[b], 2, Len(outbox[b])) = <<>> /\ SubSeq(asked[c], 2, Len(asked[c])) = <<>>
    BY Zenon, <2>b, <2>1, OneAnswer
  <2>m. m = 1 /\ m + 1 = 2
    BY <2>b, <2>2
  <2>a. PICK a : a = outbox[b][1]
    BY Zenon
  <2>k. PICK k : k = asked[c][1]
    BY Zenon
  <2>3. k \in Kinds /\ k \in Statements /\ asked[c] = <<k>> /\ SubSeq(asked[c], 1, 1) = <<k>>
    <3>1. asked[c] \in Seq(Kinds)
      BY Zenon, <1>s
    <3>2. k \in Kinds
      BY SMTT(60), <2>k, <2>2, <3>1
    <3>3. asked[c] = <<k>>
      BY <2>k, <2>2, <3>1
    <3>4. SubSeq(<<k>>, 1, 1) = <<k>>
      <4>1. <<k>> \in Seq({k}) /\ Len(<<k>>) = 1 /\ \A i \in 1..1 : <<k>>[i] \in {k}
        OBVIOUS
      <4>2. 1 \in Int /\ 1 - 1 + 1 = 1
        OBVIOUS
      <4>3. /\ SubSeq(<<k>>, 1, 1) \in Seq({k}) /\ Len(SubSeq(<<k>>, 1, 1)) = 1
            /\ SubSeq(<<k>>, 1, 1)[1] = k
        OBVIOUS
      <4>4. PICK t : t = SubSeq(<<k>>, 1, 1)
        BY Zenon
      <4>5. t \in Seq({k}) /\ Len(t) = 1 /\ t[1] = k
        BY Zenon, <4>3, <4>4
      <4>6. t = <<k>>
        BY <4>5
      <4> QED BY Zenon, <4>4, <4>6
    <3> QED BY Zenon, <3>2, <3>3, <3>4, SessionAssumption
  <2>4. /\ asked' = [asked EXCEPT ![c] = SubSeq(@, 2, Len(@))]
        /\ outbox' = [outbox EXCEPT ![b] = <<>>]
        /\ answer' = [answer EXCEPT ![c] = a] /\ tracker' = [tracker EXCEPT ![c] = a.shows.txn]
        /\ UNCHANGED <<pinned, session, inbox>>
        /\ \/ UNCHANGED <<conn, stage>>
           \/ /\ a.shows.txn = "I" /\ c \notin pinned
              /\ Take(c, NoBackend) /\ GoTo(c, "acquire")
    <3>1. outbox' = [outbox EXCEPT ![b] = SubSeq(@, 2, Len(@))]
      BY Zenon, <2>b, <1>9, <2>m DEF BackendResponds
    <3> QED BY Zenon, <2>b, <2>a, <1>9, <1>s, <2>2, <2>m, <3>1 DEF BackendResponds, Track, ShouldRelease
  <2>5. \A d \in Clients \ {c} : conn[d] # b
    BY Zenon, <2>b, <1>s, OneOwner
  <2>6. Elsewhere(c)
    BY ZenonT(30), <1>s, <2>4, <2>5 DEF Elsewhere, Take, GoTo
  <2>7. MirrorOf(c) /\ answer[c].shows \in Sessions
    BY Zenon, <1>s, <1>q DEF Responses
  <2>8. /\ a = [from |-> c, n |-> (answer[c].n + 1) % Window, shows |-> After(answer[c].shows, k)]
        /\ session[b] = a.shows
    BY Zenon, <2>a, <2>b, <2>k, <2>1, <2>7 DEF MirrorOf
  <2>9. a.from = c /\ a.shows = After(answer[c].shows, k) /\ a.shows \in Sessions
    BY Zenon, <2>3, <2>7, <2>8, AfterType
  <2>10. /\ a.shows.txn = "I" => ~a.shows.saved
         /\ a.shows.guc \/ a.shows.saved => c \in pinned
    <3>m. PICK mine \in Sessions : mine = answer[c].shows
      BY Zenon, <2>7
    <3>1. /\ mine.txn = "I" => ~mine.saved
          /\ mine.guc \/ mine.saved => c \in pinned
          /\ k = "set" => c \in pinned
      <4>1. asked[c] # <<>> /\ asked[c][1] = k
        BY <2>3
      <4> QED BY ZenonT(30), <2>7, <3>m, <4>1 DEF MirrorOf
    <3>2. /\ After(mine, k).txn = "I" => ~After(mine, k).saved
          /\ After(mine, k).guc \/ After(mine, k).saved => mine.guc \/ mine.saved \/ k = "set"
      BY Zenon, <2>3, <3>1, AfterKeeps
    <3> QED BY Zenon, <2>9, <3>m, <3>1, <3>2
  <2>11. MirrorOf(c)'
    <3>1. /\ asked'[c] = <<>> /\ answer'[c] = a /\ tracker'[c] = a.shows.txn
          /\ session'[b] = a.shows /\ inbox'[b] = <<>> /\ outbox'[b] = <<>>
      BY ZenonT(30), <1>s, <2>2, <2>4, <2>8
    <3>2. CASE UNCHANGED <<conn, stage>>
      BY ZenonT(30), <2>b, <2>1, <2>4, <2>9, <2>10, <3>1, <3>2 DEF MirrorOf
    <3>3. CASE a.shows.txn = "I" /\ c \notin pinned /\ GoTo(c, "acquire")
      <4>1. a.shows = FreshSession
        BY Zenon, <2>9, <2>10, <3>3, Blank
      <4>2. stage'[c] = "acquire"
        BY Zenon, <1>s, <3>3 DEF GoTo
      <4> QED BY Zenon, <2>4, <2>9, <2>10, <3>1, <4>1, <4>2 DEF MirrorOf
    <3> QED BY Zenon, <2>4, <3>2, <3>3
  <2>12. Direct!Answer(c, 1)
    <3>1. {d \in Clients : stage'[d] = "done"} = {d \in Clients : stage[d] = "done"}
      BY Zenon, <1>s, <2>1, <2>4 DEF GoTo
    <3>2. asked' = [asked EXCEPT ![c] = SubSeq(@, 1 + 1, Len(@))]
      <4>1. 1 + 1 = 2
        OBVIOUS
      <4> QED BY Zenon, <2>4, <4>1
    <3>3. Direct!Run(answer[c].shows, SubSeq(asked[c], 1, 1)) = After(answer[c].shows, k)
      BY Zenon, <2>3, RunOne
    <3>4. answer' = [answer EXCEPT ![c] =
                      [from |-> c, n |-> (@.n + 1) % Window,
                       shows |-> Direct!Run(@.shows, SubSeq(asked[c], 1, 1))]]
      BY Zenon, <1>s, <2>4, <2>8, <3>3
    <3> QED BY Zenon, <2>1, <3>1, <3>2, <3>4 DEF Direct!Answer
  <2>13. 1 \in 1..Len(asked[c])
    BY SMTT(60), <2>2
  <2> QED BY Zenon, <2>6, <2>11, <2>12, <2>13, LocalMirror DEF Direct!Next
<1>10. ASSUME NEW b \in Backends, Serve(b) PROVE MirrorInv' /\ Step
  <2>1. inbox[b] # <<>>
    BY Zenon, <1>10 DEF Serve
  <2>c. PICK c \in Clients :
           /\ conn[c] = b /\ (\A d \in Clients \ {c} : conn[d] # b)
           /\ stage[c] \in {"health", "reset", "loop"}
           /\ outbox[b] = <<>> /\ Len(inbox[b]) = 1 /\ Tail(inbox[b]) = <<>>
           /\ Head(inbox[b]) = inbox[b][1] /\ inbox[b][1] \in Requests
           /\ stage[c] = "loop" => Len(asked[c]) = 1
    BY Zenon, <2>1, OneStatement
  <2>r. PICK r : r = Head(inbox[b])
    BY Zenon
  <2>s. PICK s : s = After(session[b], r.kind)
    BY Zenon
  <2>2. /\ UNCHANGED <<mode, handlerVars, clientVars, idle, captured, started>>
        /\ inbox' = [inbox EXCEPT ![b] = <<>>]
        /\ \/ UNCHANGED <<session, outbox>>
           \/ /\ session' = [session EXCEPT ![b] = s]
              /\ outbox' = [outbox EXCEPT ![b] = <<[from |-> r.from, n |-> r.n, shows |-> s]>>]
    <3>1. CASE r.kind = "terminate" \/ b \notin started
      BY Zenon, <1>10, <2>r, <3>1 DEF Serve
    <3>2. CASE ~(r.kind = "terminate" \/ b \notin started)
      <4>1. /\ session' = [session EXCEPT ![b] = s] /\ inbox' = [inbox EXCEPT ![b] = Tail(@)]
            /\ outbox' = [outbox EXCEPT ![b] = Append(@, [from |-> r.from, n |-> r.n, shows |-> session'[b]])]
        BY Zenon, <1>10, <2>r, <2>s, <3>2 DEF Serve
      <4>2. session'[b] = s
        BY Zenon, <1>s, <4>1
      <4>3. Append(<<>>, [from |-> r.from, n |-> r.n, shows |-> s])
              = <<[from |-> r.from, n |-> r.n, shows |-> s]>>
        OBVIOUS
      <4> QED BY ZenonT(30), <1>10, <1>s, <2>c, <4>1, <4>2, <4>3 DEF Serve
    <3> QED BY Zenon, <3>1, <3>2
  <2>3. Elsewhere(c)
    BY ZenonT(30), <1>s, <2>c, <2>2 DEF Elsewhere
  <2>4. MirrorOf(c)'
    <3>1. MirrorOf(c)
      BY Zenon, <1>q
    <3>2. inbox'[b] = <<>> /\ (asked[c] = <<>> => stage[c] # "loop")
      <4>1. inbox'[b] = <<>>
        BY Zenon, <1>s, <2>2
      <4>2. asked[c] = <<>> => Len(asked[c]) = 0
        OBVIOUS
      <4> QED BY SMTT(60), <2>c, <4>1, <4>2
    <3>3. CASE UNCHANGED <<session, outbox>>
      BY Zenon, <2>c, <2>2, <3>1, <3>2, <3>3 DEF MirrorOf
    <3>4. CASE /\ session' = [session EXCEPT ![b] = s]
               /\ outbox' = [outbox EXCEPT ![b] = <<[from |-> r.from, n |-> r.n, shows |-> s]>>]
      <4>1. session'[b] = s /\ outbox'[b][1] = [from |-> r.from, n |-> r.n, shows |-> s]
        BY Zenon, <1>s, <3>4
      <4>2. stage[c] = "loop" =>
              /\ r = Request(c, (answer[c].n + 1) % Window, asked[c][1])
              /\ session[b] = answer[c].shows
        BY Zenon, <2>1, <2>c, <2>r, <3>1 DEF MirrorOf
      <4>3. stage[c] = "loop" =>
              /\ outbox'[b][1] = [from |-> c, n |-> (answer[c].n + 1) % Window,
                                  shows |-> After(answer[c].shows, asked[c][1])]
              /\ s = outbox'[b][1].shows
        <5> SUFFICES ASSUME stage[c] = "loop"
                     PROVE  /\ outbox'[b][1] = [from |-> c, n |-> (answer[c].n + 1) % Window,
                                                shows |-> After(answer[c].shows, asked[c][1])]
                            /\ s = outbox'[b][1].shows
          BY Zenon
        <5>1. r.from = c /\ r.n = (answer[c].n + 1) % Window /\ r.kind = asked[c][1]
          BY <4>2 DEF Request
        <5>2. s = After(answer[c].shows, asked[c][1])
          BY Zenon, <2>s, <4>2, <5>1
        <5>3. outbox'[b][1].shows = s
          BY <4>1
        <5> QED BY Zenon, <4>1, <5>1, <5>2, <5>3
      <4> QED BY Zenon, <2>c, <2>2, <3>1, <3>2, <4>1, <4>3 DEF MirrorOf
    <3> QED BY Zenon, <2>2, <3>3, <3>4
  <2>5. Step
    BY Zenon, <2>2, <1>b
  <2> QED BY Zenon, <2>3, <2>4, <2>5, LocalMirror
<1>11. ASSUME NEW b \in Backends, Crash(b) PROVE MirrorInv' /\ Step
  <2>1. inbox' = [inbox EXCEPT ![b] = <<>>]
        /\ UNCHANGED <<mode, handlerVars, clientVars, idle, captured, started, session, outbox>>
    BY Zenon, <1>11 DEF Crash
  <2>2. ASSUME NEW c \in Clients PROVE MirrorOf(c)'
    <3>1. MirrorOf(c)
      BY Zenon, <1>q
    <3>2. stage[c] = "loop" => inbox'[conn[c]] \in {inbox[conn[c]], <<>>}
      BY Zenon, <1>s, <2>1
    <3> QED BY ZenonT(30), <2>1, <3>1, <3>2 DEF MirrorOf
  <2>3. Step
    BY Zenon, <2>1, <1>b
  <2> QED BY Zenon, <2>2, <2>3 DEF MirrorInv
<1> QED
  BY ZenonT(30), <1>0, <1>1, <1>2, <1>3, <1>4, <1>5, <1>7, <1>8, <1>9, <1>10, <1>11
  DEF Next, Recycling, Startup, Loop, Returns, QueryThenTerminate, RecycleInterrupted, ResponseBegins,
      ResponseEndsUnseen, Waits

(* The refinement: if the clients wait for their answers, no session is    *)
(* interrupted or timed out, every response is read whole and nobody sends *)
(* DISCARD ALL, the pooled proxy implements a direct connection per        *)
(* client, in every pooling mode, whatever the servers do.                 *)
THEOREM IsTransparent ==
  ASSUME Waits, ~Splits, "discard" \notin Kinds
  PROVE  Spec => Transparent
<1> DEFINE Inv == TypeOK /\ Exclusive /\ QuietInv /\ MirrorInv
<1>1. Init => Inv /\ Direct!Init
  <2> SUFFICES ASSUME Init PROVE MirrorInv /\ Direct!Init
    BY Zenon, TypeInit, ExclusiveInit, QuietInit
  <2>1. MirrorInv
    BY Zenon DEF Init, MirrorInv, MirrorOf, NoAnswer, FreshSession
  <2>2. Direct!Init
    BY Zenon, SameServer DEF Init, Direct!Init, NoAnswer, Direct!NoAnswer
  <2> QED BY Zenon, <2>1, <2>2
<1>2. Inv /\ [Next]_vars => Inv' /\ [Direct!Next]_(Direct!dvars)
  BY Zenon, TypeStep, ExclusiveStep, QuietStep, MirrorStep
<1> QED BY <1>1, <1>2, PTL DEF Spec, Transparent, Direct!Spec
=============================================================================
