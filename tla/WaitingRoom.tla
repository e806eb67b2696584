----------------------------- MODULE WaitingRoom -----------------------------
(***************************************************************************)
(* What the wait queue promises its clients, without channels, counters or *)
(* dead senders: a bounded line that is served strictly in order of        *)
(* arrival, and that a client may leave at any time.                       *)
(***************************************************************************)
EXTENDS Integers, FiniteSets

CONSTANTS Clients, MaxDepth

VARIABLES
    line,   \* the clients in the line
    ahead,  \* the pairs of them of which the first arrived before the second
    called  \* the clients that were called and have not left yet

Init == line = {} /\ ahead = {} /\ called = {}

Join(c) ==
    /\ c \notin line /\ c \notin called
    /\ Cardinality(line) < MaxDepth
    /\ line' = line \cup {c}
    /\ ahead' = ahead \cup (line \X {c})
    /\ UNCHANGED called

StepsOut(c) ==
    /\ c \in line
    /\ line' = line \ {c}
    /\ ahead' = {p \in ahead : p[1] # c /\ p[2] # c}

(* Nobody is called past somebody who came earlier.                        *)
Call(c) ==
    /\ StepsOut(c)
    /\ \A d \in line : <<d, c>> \notin ahead
    /\ called' = called \cup {c}

Leave(c) ==
    \/ StepsOut(c) /\ UNCHANGED called
    \/ c \in called /\ called' = called \ {c} /\ UNCHANGED <<line, ahead>>

Next == \E c \in Clients : Join(c) \/ Call(c) \/ Leave(c)

Spec == Init /\ [][Next]_<<line, ahead, called>>
=============================================================================
