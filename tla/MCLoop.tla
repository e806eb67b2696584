-------------------------------- MODULE MCLoop --------------------------------
(***************************************************************************)
(* TLC instances of QueryLoop: two statements and the batch of both, of    *)
(* which Transaction mode refuses what contains s2 and the anonymiser can  *)
(* parse what does not.                                                    *)
(***************************************************************************)
EXTENDS QueryLoop

CONSTANTS n1, n2, p1, s1, s2, v1, v2

MCNames == {n1, n2}
MCNames1 == {n1}
MCPortals == {p1}
MCTexts == {<<s1>>, <<s2>>, <<s1, s2>>}
MCTexts1 == {<<s1>>}
MCRefused == {<<s2>>, <<s1, s2>>}

MCAst ==
    (s1 :> [shape |-> s1, values |-> <<[kind |-> "Number", of |-> v1],
                                       [kind |-> "Placeholder", of |-> "$1"]>>])
      @@ (s2 :> Unparsable) @@ (Unknown :> Unparsable)

MCParamOids == [t \in MCTexts |-> <<"INT4">>]

(* To a named statement what is no number, in the text format; to the      *)
(* unnamed one a number, in the binary format, and NULL.                   *)
MCRaws ==
    (n1 :> [params |-> <<[utf8 |-> TRUE, fits |-> FALSE, of |-> v1]>>, codes |-> <<>>])
      @@ (Unnamed :> [params |-> <<[utf8 |-> TRUE, fits |-> TRUE, of |-> v2], Nothing>>,
                      codes |-> <<1>>])
MCRaws1 == [n \in {n1, n2, Unnamed} |-> [params |-> <<>>, codes |-> <<>>]]

Off == [enabled |-> FALSE, parse_failure |-> "Redact"]
Redact == [enabled |-> TRUE, parse_failure |-> "Redact"]
Dropping == [enabled |-> TRUE, parse_failure |-> "Drop"]

MCModes ==
    [Transaction |-> {Off}, Session |-> {Redact}, direct |-> {Dropping}]
MCModes1 == [Session |-> {Off}]
=============================================================================
