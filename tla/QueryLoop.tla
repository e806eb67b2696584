------------------------------ MODULE QueryLoop ------------------------------
(***************************************************************************)
(* What the forwarding loops of proxy/connection.rs make of the messages   *)
(* of one client and one backend: reassembly of messages that reads cut    *)
(* apart (protocol/extractor.rs), refusal by the pooling mode, the         *)
(* statement cache and the pending executions (proxy/cache.rs), and the    *)
(* event published for each query.  "direct" is the loop over an owned     *)
(* backend, the other modes are those of the pooled loop.                  *)
(*                                                                         *)
(* A text is the sequence of its statements.  A read from the client may   *)
(* end inside a message, of which the proxy then has the head; a read from *)
(* the backend ends at a message.  The client waits for the answer to a    *)
(* message group before it sends the next.                                 *)
(***************************************************************************)
EXTENDS StatementCache, QueryEvents, Integers

CONSTANTS
    Names,      \* names for prepared statements
    Portals,    \* names for portals
    Unnamed,    \* the empty name, of the unnamed statement and portal
    Texts,      \* query texts
    Refused,    \* the texts that Transaction mode refuses
    ParamOids,  \* per text, the types its Parse declares
    Raws,       \* bound: per statement name, what the client binds to it
    Modes       \* per mode to consider, the policies to consider

ASSUME LoopAssumption ==
    /\ Texts \subseteq Seq(UNION {ToSet(t) : t \in Texts}) /\ <<>> \notin Texts
    /\ Refused \subseteq Texts /\ <<Unknown>> \notin Texts
    /\ Unnamed \notin Names /\ DOMAIN Raws = Names \cup {Unnamed}
    /\ DOMAIN Modes \subseteq {"Transaction", "Session", "direct"}
    /\ \A m \in DOMAIN Modes : Modes[m] \subseteq Policies
    /\ \A t \in Texts : ToSet(t) \subseteq DOMAIN Ast

VARIABLES
    mode,
    policy,     \* AnonymizationSettings
    toProxy,    \* messages of the client that are not yet read in full
    cut,        \* the head of the first of them is in frontend_buffer
    cache,      \* PreparedStatementCache: statements and LRU order
    pending,    \* PreparedStatementCache: portal -> PendingExecution
    open,       \* the loop runs
    toBackend,  \* messages the server has received in full
    framing,    \* "whole", "head" if it has the head of another, "lost" if
                \* the rest of that head will not come
    prepared,   \* server: name -> text
    portals,    \* server: portal -> text
    skipping,   \* server: ignores messages until Sync
    answers,    \* tags of the server's messages that the proxy has not read
    due,        \* ReadyForQuery the client waits for
    asked,      \* ghost: the group under way
    failed,     \* ghost: the server reported an error for it
    ran,        \* ghost: the text the server has executed for it
    reports,    \* ghost: the events published for it
    torn        \* ghost: a read was refused that did not hold its whole group

proxyVars == <<cache, pending, open>>
serverVars == <<prepared, portals, skipping>>
ghosts == <<asked, failed, ran, reports>>
vars == <<mode, policy, toProxy, cut, proxyVars, toBackend, framing, serverVars,
          answers, due, ghosts, torn>>

Query(t) == [type |-> "Query", text |-> t]
Parse(n, t) == [type |-> "Parse", name |-> n, text |-> t]
Bind(p, n, raw) == [type |-> "Bind", portal |-> p, name |-> n, raw |-> raw]
Execute(p) == [type |-> "Execute", portal |-> p]
CloseS(n) == [type |-> "CloseS", name |-> n]
CloseP(p) == [type |-> "CloseP", portal |-> p]
Sync == [type |-> "Sync"]
Terminate == [type |-> "Terminate"]

Statements == Names \cup {Unnamed}
AllPortals == Portals \cup {Unnamed}
Reported == Texts \cup {<<Unknown>>}
Tags == {"1", "2", "3", "C", "E", "Z"}

Messages ==
    {Query(t) : t \in Texts} \cup {Parse(n, t) : n \in Statements, t \in Texts}
    \cup {Bind(p, n, raw) : p \in AllPortals, n \in Statements, raw \in Range(Raws)}
    \cup {Execute(p) : p \in AllPortals} \cup {CloseP(p) : p \in AllPortals}
    \cup {CloseS(n) : n \in Statements} \cup {Sync, Terminate}

Maps(f, S, T) == DOMAIN f \subseteq S /\ Range(f) \subseteq T

TypeOK ==
    /\ mode \in DOMAIN Modes /\ policy \in Modes[mode]
    /\ cut \in BOOLEAN /\ open \in BOOLEAN
    /\ toProxy \in Seq(Messages) /\ toBackend \in Seq(Messages)
    /\ Maps(cache.texts, Statements, Texts) /\ cache.lru \in Seq(Statements)
    /\ DOMAIN pending \subseteq AllPortals
    /\ \A p \in DOMAIN pending : pending[p].query \in Reported
    /\ framing \in {"whole", "head", "lost"}
    /\ Maps(prepared, Statements, Texts) /\ Maps(portals, AllPortals, Texts)
    /\ skipping \in BOOLEAN /\ answers \in Seq(Tags)
    /\ due \in Int
    /\ asked \in Seq(Messages) /\ failed \in BOOLEAN
    /\ ran \in Texts \cup {<<>>}
    /\ \A i \in DOMAIN reports : reports[i].ok \in BOOLEAN
    /\ torn \in BOOLEAN

Init ==
    /\ mode \in DOMAIN Modes /\ policy \in Modes[mode]
    /\ toProxy = <<>> /\ cut = FALSE /\ toBackend = <<>> /\ framing = "whole"
    /\ cache = EmptyCache /\ pending = <<>> /\ open = TRUE
    /\ prepared = <<>> /\ portals = <<>> /\ skipping = FALSE
    /\ answers = <<>> /\ due = 0
    /\ asked = <<>> /\ failed = FALSE /\ ran = <<>> /\ reports = <<>>
    /\ torn = FALSE

-----------------------------------------------------------------------------
(* What a client may send next.  It knows which names it has prepared, and *)
(* closes them before it prepares them again.  The session is not followed *)
(* beyond a group that was refused in part: nothing is claimed of it then. *)
Groups ==
    LET one == {t \in Texts : Len(t) = 1}
    IN  {<<Query(t)>> : t \in Texts}
        \cup {<<Parse(n, t), Sync>> : n \in Names \ DOMAIN prepared, t \in one}
        \cup {<<Bind(p, n, Raws[n]), Execute(p), Sync>> :
                p \in AllPortals, n \in DOMAIN prepared}
        \cup {<<Parse(Unnamed, t), Bind(p, Unnamed, Raws[Unnamed]), Execute(p), Sync>> :
                p \in AllPortals, t \in one}
        \cup {<<Parse(Unnamed, t), Parse(n, u), Sync>> :
                n \in Names \ DOMAIN prepared, t \in one, u \in one}
        \cup {<<CloseS(n), Parse(n, t), Sync>> : n \in DOMAIN prepared \ {Unnamed}, t \in one}
        \cup {<<CloseS(n), Sync>> : n \in Names}
        \cup {<<CloseP(p), Sync>> : p \in Portals}
        \cup {<<Terminate>>}

ClientSends ==
    /\ open /\ due = 0 /\ toProxy = <<>> /\ asked # <<Terminate>> /\ ~torn
    /\ \E g \in Groups :
         /\ toProxy' = g /\ asked' = g
         /\ due' = IF g = <<Terminate>> THEN 0 ELSE 1
    /\ failed' = FALSE /\ ran' = <<>> /\ reports' = <<>>
    /\ UNCHANGED <<mode, policy, cut, proxyVars, toBackend, framing, serverVars, answers, torn>>

-----------------------------------------------------------------------------
(* The loop over the messages of one read: `s` is what it works on, with   *)
(* the verdict on the bytes.                                               *)
Pending(text, params, incomplete) ==
    [query |-> text, params |-> params, params_incomplete |-> incomplete]

Keep(s, portal, execution) == [s EXCEPT !.pending = (portal :> execution) @@ @]

Refuses(text) == mode = "Transaction" /\ text \in Refused

OnParse(s, m) ==
    IF Refuses(m.text) THEN [s EXCEPT !.verdict = "refuse"]
    ELSE Keep([s EXCEPT !.cache = InsertStatement(@, m.name, m.text)],
              Unnamed, Pending(m.text, <<>>, TRUE))

OnBind(s, m) ==
    IF m.name \in DOMAIN s.cache.texts
      THEN LET text == s.cache.texts[m.name]
               params == DecodeParams(m.raw.params, m.raw.codes, ParamOids[text])
           IN  Keep([s EXCEPT !.cache = Touch(@, m.name)], m.portal, Pending(text, params, FALSE))
      ELSE Keep(s, m.portal, Pending(<<Unknown>>, UnknownParams(m.raw.params), TRUE))

OnQuery(s, m) ==
    IF Refuses(m.text) THEN [s EXCEPT !.verdict = "refuse"]
    ELSE Keep(s, Unnamed, Pending(m.text, <<>>, FALSE))

(* Only the pooled loop intercepts Terminate, and only as first message.   *)
OnTerminate(s, i) ==
    IF mode # "direct" /\ i = 1 THEN [s EXCEPT !.verdict = "terminate"] ELSE s

Drop(f, x) == Restrict(f, DOMAIN f \ {x})

Process(msgs) ==
    LET turn(s, i) ==
          LET m == msgs[i]
          IN  CASE s.verdict # "forward"  -> s
                [] m.type = "Parse"       -> OnParse(s, m)
                [] m.type = "Bind"        -> OnBind(s, m)
                [] m.type = "Query"       -> OnQuery(s, m)
                [] m.type = "CloseS"      -> [s EXCEPT !.cache = RemoveStatement(@, m.name)]
                [] m.type = "CloseP"      -> [s EXCEPT !.pending = Drop(@, m.portal)]
                [] m.type = "Terminate"   -> OnTerminate(s, i)
                [] OTHER                  -> s
    IN  FoldLeftDomain(turn, [cache |-> cache, pending |-> pending,
                              verdict |-> "forward"], msgs)

(* A read returns n messages, the first of them perhaps begun by the read  *)
(* before, and perhaps the head of one more, which extract_messages keeps. *)
Reads(n, head) ==
    /\ n > 0 \/ head
    /\ head => n < Len(toProxy) /\ ~(n = 0 /\ cut)
    /\ toProxy' = SubSeq(toProxy, n + 1, Len(toProxy))
    /\ cut' = head
    /\ UNCHANGED <<mode, policy, serverVars, answers, ghosts>>

(* What becomes of the read: s is what Process makes of its messages.      *)
Forward(n, head, s) ==
    /\ s.verdict = "forward"
    /\ toBackend' = toBackend \o SubSeq(toProxy, 1, n)
    /\ framing' = CASE framing = "lost" -> "lost"
                    [] head -> "head"
                    [] OTHER -> "whole"
    /\ UNCHANGED <<due, open, torn>>

(* Bytes that are not forwarded: a head before or after them stays alone.  *)
Withhold(head) ==
    /\ framing' = IF framing = "head" \/ head THEN "lost" ELSE framing
    /\ UNCHANGED toBackend

Tears(n) == torn' = (torn \/ cut \/ n < Len(asked))

(* Faulty forms of Refuse, which OneReady and AnswersEnd must notice.      *)
RefuseForwarding(n, head, s) ==
    /\ s.verdict = "refuse"
    /\ due' = due - 1
    /\ toBackend' = toBackend \o SubSeq(toProxy, 1, n)
    /\ Tears(n)
    /\ UNCHANGED <<open, framing>>

RefuseMutely(n, head, s) ==
    /\ s.verdict = "refuse"
    /\ Withhold(head)
    /\ Tears(n)
    /\ UNCHANGED <<open, due>>

(* The proxy answers with ErrorResponse and ReadyForQuery itself.          *)
Refuse(n, head, s) ==
    /\ s.verdict = "refuse"
    /\ due' = due - 1
    /\ Withhold(head)
    /\ Tears(n)
    /\ UNCHANGED open

InterceptTerminate(n, head, s) ==
    /\ s.verdict = "terminate"
    /\ open' = FALSE
    /\ Withhold(head)
    /\ UNCHANGED <<due, torn>>

-----------------------------------------------------------------------------
(* The server.  Any Parse, Bind, Execute or statement may fail.            *)
Serves(type, tags) ==
    /\ toBackend # <<>> /\ framing # "lost" /\ Head(toBackend).type = type
    /\ toBackend' = Tail(toBackend)
    /\ answers' = answers \o tags
    /\ UNCHANGED <<mode, policy, toProxy, cut, cache, pending, framing, due, asked, reports, torn>>

Fails(type) ==
    /\ ~skipping /\ Serves(type, <<"E">>)
    /\ skipping' = TRUE /\ failed' = TRUE
    /\ UNCHANGED <<open, portals>>

ServeQuery ==
    /\ ~skipping /\ toBackend # <<>> /\ Head(toBackend).type = "Query"
    /\ LET text == Head(toBackend).text
       IN  /\ \E done \in 0..Len(text) :
                /\ failed' = (done < Len(text))
                /\ Serves("Query", [i \in 1..done |-> "C"] \o
                                   IF done < Len(text) THEN <<"E", "Z">> ELSE <<"Z">>)
           /\ ran' = text
    /\ prepared' = Drop(prepared, Unnamed) /\ portals' = <<>>
    /\ UNCHANGED <<open, skipping>>

ServeParse ==
    LET m == Head(toBackend)
    IN  \/ /\ ~skipping /\ Serves("Parse", <<"1">>)
           /\ prepared' = (m.name :> m.text) @@ prepared
           /\ UNCHANGED <<open, portals, skipping, failed, ran>>
        \/ Fails("Parse") /\ prepared' = Drop(prepared, m.name) /\ UNCHANGED ran

ServeBind ==
    LET m == Head(toBackend)
    IN  \/ /\ ~skipping /\ Serves("Bind", <<"2">>) /\ m.name \in DOMAIN prepared
           /\ portals' = (m.portal :> prepared[m.name]) @@ portals
           /\ UNCHANGED <<open, prepared, skipping, failed, ran>>
        \/ Fails("Bind") /\ UNCHANGED <<prepared, ran>>

ServeExecute ==
    LET p == Head(toBackend).portal
    IN  \/ /\ ~skipping /\ Serves("Execute", <<"C">>) /\ p \in DOMAIN portals
           /\ ran' = portals[p]
           /\ UNCHANGED <<open, serverVars, failed>>
        \/ /\ Fails("Execute") /\ UNCHANGED prepared
           /\ ran' = IF p \in DOMAIN portals THEN portals[p] ELSE ran

ServeClose ==
    LET m == Head(toBackend)
    IN  \/ /\ ~skipping /\ Serves("CloseS", <<"3">>)
           /\ prepared' = Drop(prepared, m.name)
           /\ UNCHANGED <<open, portals, skipping, failed, ran>>
        \/ /\ ~skipping /\ Serves("CloseP", <<"3">>)
           /\ portals' = Drop(portals, m.portal)
           /\ UNCHANGED <<open, prepared, skipping, failed, ran>>

ServeSkipped ==
    /\ skipping
    /\ \E type \in {"Query", "Parse", "Bind", "Execute", "CloseS", "CloseP"} : Serves(type, <<>>)
    /\ UNCHANGED <<open, serverVars, failed, ran>>

ServeSync ==
    /\ Serves("Sync", <<"Z">>)
    /\ skipping' = FALSE /\ portals' = <<>>
    /\ UNCHANGED <<open, prepared, failed, ran>>

(* The server closes the connection, and the loop ends at its EOF.         *)
ServeTerminate ==
    /\ Serves("Terminate", <<>>)
    /\ open' = FALSE
    /\ UNCHANGED <<serverVars, failed, ran>>

Server ==
    \/ ServeQuery \/ ServeParse \/ ServeBind \/ ServeExecute \/ ServeClose
    \/ ServeSkipped \/ ServeSync \/ ServeTerminate

-----------------------------------------------------------------------------
(* extract_error: find_error_fields skips over a message only if its       *)
(* length exceeds 4, so a message without payload ends its search.         *)
HasError(data) ==
    \E i \in DOMAIN data :
      data[i] = "E" /\ \A j \in 1..(i - 1) : data[j] \notin {"1", "2", "3"}

IsQueryComplete(data) == \E i \in DOMAIN data : data[i] \in {"C", "Z"}

(* The events for a completed execution: in the pooled loop one for each   *)
(* statement, if it succeeded.                                             *)
Events(e, ok) ==
    LET Of(text) == BuildEvent(policy, text, e.params, e.params_incomplete, ok)
    IN  IF ok /\ mode # "direct"
          THEN FlattenSeq([i \in DOMAIN e.query |-> Of(<<e.query[i]>>)])
          ELSE Of(e.query)

(* A faulty Complete, which ReportsFailure must notice.                    *)
CompleteFirst(data) ==
    IF (HasError(data) \/ IsQueryComplete(data)) /\ Unnamed \in DOMAIN pending
      THEN /\ reports' = reports \o Events(pending[Unnamed], IsQueryComplete(data))
           /\ pending' = Drop(pending, Unnamed)
      ELSE UNCHANGED <<pending, reports>>

Complete(data) ==
    IF (HasError(data) \/ IsQueryComplete(data)) /\ Unnamed \in DOMAIN pending
      THEN /\ reports' = reports \o Events(pending[Unnamed], ~HasError(data))
           /\ pending' = Drop(pending, Unnamed)
      ELSE UNCHANGED <<pending, reports>>

BackendReads(k) ==
    /\ open
    /\ answers' = SubSeq(answers, k + 1, Len(answers))
    /\ LET data == SubSeq(answers, 1, k)
       IN  /\ Complete(data)
           /\ due' = due - Cardinality({i \in DOMAIN data : data[i] = "Z"})
    /\ UNCHANGED <<mode, policy, toProxy, cut, cache, open, toBackend, framing, serverVars,
                   asked, failed, ran, torn>>

ClientArm ==
    /\ open /\ toProxy # <<>>
    /\ \E n \in 0..Len(toProxy), head \in BOOLEAN :
         /\ Reads(n, head)
         /\ \E s \in {Process(SubSeq(toProxy, 1, n))} :
              /\ cache' = s.cache /\ pending' = s.pending
              /\ \/ Forward(n, head, s) \/ Refuse(n, head, s)
                 \/ InterceptTerminate(n, head, s)

BackendArm == \E k \in 1..Len(answers) : BackendReads(k)

Next == ClientSends \/ ClientArm \/ Server \/ BackendArm

Spec == Init /\ [][Next]_vars

(* The loop polls both sockets; here the server answers.                   *)
LiveSpec == Spec /\ WF_vars(ClientArm) /\ WF_vars(BackendArm) /\ WF_vars(Server)

-----------------------------------------------------------------------------
(* The statement cache keeps map and LRU order in step within its bound,   *)
(* through replaced, evicted, looked up and closed statements.             *)
CacheAgrees == Agrees(cache)

(* What the events may tell of a text: all of it if nothing is hidden,     *)
(* else the shapes of its statements, where one that does not parse is     *)
(* redacted or left out, and may take the batch around it with it.         *)
Tellable(text) ==
    LET lost == IF policy.parse_failure = "Redact" THEN <<Redacted>> ELSE <<>>
        Bad(s) == Ast[s] = Unparsable
        each == FlattenSeq([i \in DOMAIN text |->
                              IF Bad(text[i]) THEN lost ELSE <<Ast[text[i]].shape>>])
    IN  IF ~policy.enabled THEN {text}
        ELSE {each} \cup IF \E s \in ToSet(text) : Bad(s) THEN {lost} ELSE {}

Told ==
    LET said == FlattenSeq([i \in DOMAIN reports |-> reports[i].query])
    IN  [i \in DOMAIN said |->
           IF policy.enabled /\ said[i] # Redacted THEN said[i].shape ELSE said[i]]

Unseen == asked[1].type = "Bind" /\ asked[1].portal # Unnamed

Bound == SelectSeq(asked, LAMBDA m : m.type = "Bind")

(* The text the proxy knows an execution by.                               *)
Known == IF Bound # <<>> /\ Bound[1].name \notin DOMAIN cache.texts THEN <<Unknown>> ELSE ran

(* When the client has the answer to an execution, exactly one pending     *)
(* execution has been reported for it, under the text that the server      *)
(* executed, or as unknown if the cache has lost the statement, with the   *)
(* parameters of its own Bind, or marked incomplete without any.  An       *)
(* anonymised event has a fingerprint for every placeholder that took a    *)
(* literal's place, and no literal or parameter value.  Nothing is claimed *)
(* of a named statement's execution through a named portal, which the code *)
(* does not report, nor after a torn refusal.                              *)
ReportsTheText ==
    due = 0 /\ answers = <<>> /\ ran # <<>> /\ ~Unseen /\ ~torn =>
      /\ Told \in Tellable(Known)
      /\ \A e \in ToSet(reports) :
           /\ Bound # <<>> /\ ~(e.params_incomplete /\ e.params = <<>>) =>
                /\ Len(e.params) = Len(Bound[1].raw.params)
                /\ \A i \in DOMAIN e.params :
                     LET raw == Bound[1].raw.params[i] IN
                     /\ e.params[i].kind = "Null" <=> raw = Nothing
                     /\ ~policy.enabled /\ raw # Nothing => e.params[i].of = raw.of
                     /\ policy.enabled => e.params[i].of = Nothing
           /\ policy.enabled /\ e.query # <<Redacted>> =>
                LET values == FlattenSeq([i \in DOMAIN e.query |-> e.query[i].values])
                    holes == SelectSeq(values, LAMBDA v : v.of = "?")
                IN  /\ Len(holes) = Len(e.fingerprints)
                    /\ ~ResidualLiteral(values)

(* An event that reports a failure is about a group that failed, and the   *)
(* failure of a simple query with one statement is reported, unless a torn *)
(* refusal has put the answers out of step.                                *)
ReportsFailure ==
    torn \/
    /\ \A i \in DOMAIN reports : ~reports[i].ok => failed
    /\ due = 0 /\ failed /\ asked[1].type = "Query" /\ Len(asked[1].text) = 1 =>
         \A i \in DOMAIN reports : ~reports[i].ok

(* The client gets no ReadyForQuery beyond the one its group asked for,    *)
(* whether proxy or server sends it, if every read that was refused held   *)
(* its whole group, the messages before the refused one included.  Of a    *)
(* group torn apart the code forwards a part, and the client may be        *)
(* answered twice.                                                         *)
OneReady == ~torn => due >= 0

(* Every group is answered: neither the cutting of messages by reads nor a *)
(* refusal makes the client wait for ever.  After a torn refusal it may:   *)
(* the server waits for the rest of a message, or skips what it gets until *)
(* the Sync that was not forwarded.                                        *)
AnswersEnd == []<>(due = 0 \/ torn)

=============================================================================
