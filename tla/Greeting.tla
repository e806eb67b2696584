------------------------------ MODULE Greeting ------------------------------
(***************************************************************************)
(* What a client may hear while it connects, whatever the proxy does       *)
(* behind it: the answer to an SSLRequest, a request for its password,     *)
(* AuthenticationOk once, the server's parameters, ReadyForQuery once; or  *)
(* an error or the bare end of the connection instead.                     *)
(***************************************************************************)
EXTENDS Sequences

CONSTANT Conns

VARIABLE heard      \* per connection, what the client was sent, in order

Challenges == {"cleartext", "md5"}

(* What a client heard last.                                               *)
Latest(said) == IF said = <<>> THEN "nothing" ELSE said[Len(said)]

(* What may follow h.                                                      *)
Follows(h) ==
    LET Asked == Challenges \cup {"ok"} IN
    CASE h = "nothing" -> {"S", "N", "error", "closed"} \cup Asked
      [] h \in {"S", "N"} -> {"error", "closed"} \cup Asked
      [] h \in Challenges -> {"ok", "error", "closed"}
      [] h = "ok" -> {"params", "ready", "error", "closed"}
      [] h = "params" -> {"ready", "error", "closed"}
      [] h \in {"ready", "error"} -> {"closed"}
      [] OTHER -> {}

(* The messages one write may bring after h: one, or two.                  *)
Continues(h) ==
    {<<m>> : m \in Follows(h)} \cup UNION {{<<m, n>> : n \in Follows(m)} : m \in Follows(h)}

Init == heard = [c \in Conns |-> <<>>]

Hears(c) ==
    \E more \in Continues(Latest(heard[c])) : heard' = [heard EXCEPT ![c] = @ \o more]

(* Of a connection that is over, only how it ended is kept.                *)
Ends(c) ==
    \E how \in Follows(Latest(heard[c])) \cap {"error", "closed"} :
      heard' = [heard EXCEPT ![c] = <<how>>]

Next == \E c \in Conns : Hears(c) \/ Ends(c)

Spec == Init /\ [][Next]_heard
=============================================================================
