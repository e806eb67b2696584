---------------------------- MODULE DirectSession ----------------------------
(***************************************************************************)
(* What docs/transparency-contract.md promises: each client observes what  *)
(* it would observe over a direct connection to a server of its own.  It   *)
(* asks, and is answered in order, by a session nobody else touches; or    *)
(* its connection ends.                                                    *)
(***************************************************************************)
EXTENDS Naturals, Sequences, Postgres

CONSTANTS Clients, Window

VARIABLES
    asked,      \* per client, the statements not yet answered
    answer,     \* per client, the last answer: whose and which statement it
                \* is for (numbered modulo Window), and the session it shows
    over        \* the clients whose connection has ended

dvars == <<asked, answer, over>>

NoAnswer(c) == [from |-> c, n |-> 0, shows |-> FreshSession]

Init ==
    /\ asked = [c \in Clients |-> <<>>]
    /\ answer = [c \in Clients |-> NoAnswer(c)]
    /\ over = {}

Ask(c, k) ==
    /\ c \notin over
    /\ asked' = [asked EXCEPT ![c] = Append(@, k)]
    /\ UNCHANGED <<answer, over>>

(* One network read may carry several answers.                             *)
Answer(c, m) ==
    /\ c \notin over
    /\ asked' = [asked EXCEPT ![c] = SubSeq(@, m + 1, Len(@))]
    /\ answer' = [answer EXCEPT ![c] =
                    [from |-> c, n |-> (@.n + m) % Window,
                     shows |-> Run(@.shows, SubSeq(asked[c], 1, m))]]
    /\ UNCHANGED over

(* The pooling mode refuses a statement (SQLSTATE 0A000): it is answered   *)
(* and changes nothing.                                                    *)
Refuse(c) ==
    /\ c \notin over /\ asked[c] = <<>>
    /\ answer' = [answer EXCEPT ![c].n = (@ + 1) % Window]
    /\ UNCHANGED <<asked, over>>

End(c) ==
    /\ over' = over \cup {c}
    /\ asked' = [asked EXCEPT ![c] = <<>>]
    /\ answer' = [answer EXCEPT ![c] = NoAnswer(c)]

Next ==
    \E c \in Clients :
      \/ \E k \in Statements : Ask(c, k)
      \/ \E m \in 1..Len(asked[c]) : Answer(c, m)
      \/ Refuse(c)
      \/ End(c)

Spec == Init /\ [][Next]_dvars
=============================================================================
