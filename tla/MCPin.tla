-------------------------------- MODULE MCPin --------------------------------
(***************************************************************************)
(* TLC instances of PinTracker.                                            *)
(***************************************************************************)
EXTENDS PinTracker

CONSTANTS n1, n2

MCNames == {n1, n2}

(* The statements about each kind of session state: on one name, and for   *)
(* prepared statements on a second one, so that the first is evicted.      *)
About == [
    var    |-> {"set", "reset", "reset_all"} \X {n1},
    temp   |-> {"create_temp", "select_into_temp", "drop_table"} \X {n1},
    cursor |-> {"declare", "declare_hold", "close_cursor"} \X {n1},
    lock   |-> {"lock", "lock_expr", "try_lock", "unlock", "unlock_all"} \X {n1},
    listen |-> {"listen", "unlisten", "unlisten_all", "notify"} \X {n1},
    stmt   |-> ({"prepare", "close_stmt", "deallocate", "deallocate_all"} \X {n1})
                 \cup ({"parse"} \X MCNames)]

(* A client with three kinds of session state.  Kinds meet only where all  *)
(* are cleared, in the pin decision and in the transaction.                *)
MCRepertoires ==
    {({"read", "discard_all"} \X {n1}) \cup UNION {About[k] : k \in ks} :
        ks \in {s \in SUBSET Kinds : Cardinality(s) = 3}}
=============================================================================
