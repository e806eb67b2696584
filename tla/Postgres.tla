------------------------------ MODULE Postgres ------------------------------
(***************************************************************************)
(* One PostgreSQL session as the proxy depends on it (the server itself is *)
(* not part of the repository): the transaction status it reports in each  *)
(* ReadyForQuery, and one piece of session state, a GUC that SET changes,  *)
(* a rollback restores and DISCARD ALL clears.                             *)
(***************************************************************************)
EXTENDS Integers, Sequences

Statuses == {"I", "T", "E"}

(* The statements clients send, by what they do to the session; "fetch" is *)
(* a read too, through a named portal.                                     *)
Statements == {"read", "fetch", "bad", "begin", "commit", "set", "discard"}

Sessions == [txn : Statuses, guc : BOOLEAN, saved : BOOLEAN]
FreshSession == [txn |-> "I", guc |-> FALSE, saved |-> FALSE]

(* A failed statement aborts the transaction block it is in.               *)
Failed(s) == [s EXCEPT !.txn = IF @ = "I" THEN "I" ELSE "E"]

(* The session after statement k.  "health" is the proxy's own ";".        *)
After(s, k) ==
    CASE k = "commit" -> [txn |-> "I", saved |-> FALSE,
                          guc |-> IF s.txn = "E" THEN s.saved ELSE s.guc]
      [] s.txn = "E" -> s
      [] k = "begin" -> [s EXCEPT !.txn = "T",
                                  !.saved = IF s.txn = "I" THEN s.guc ELSE @]
      [] k = "set" -> [s EXCEPT !.guc = TRUE]
      [] k = "discard" -> IF s.txn = "I" THEN FreshSession ELSE Failed(s)
      [] k = "bad" -> Failed(s)
      [] k \in {"read", "fetch", "health"} -> s

(* The session after the statements ks.                                    *)
Run(s, ks) ==
    LET run[i \in 0..Len(ks)] == IF i = 0 THEN s ELSE After(run[i - 1], ks[i])
    IN  run[Len(ks)]
=============================================================================
