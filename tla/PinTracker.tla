----------------------------- MODULE PinTracker -----------------------------
(***************************************************************************)
(* What the proxy believes about the session state of one client's         *)
(* backend, and what is really there: CommandDetector and ModeEnforcer     *)
(* classify each statement from its text, ConnectionState records it, and  *)
(* the server executes it, or fails, or later rolls it back.  A backend is *)
(* given to other clients when its transaction ends and nothing is         *)
(* recorded, so the record must not miss state that is there.  It does in  *)
(* four ways, which the history variable missed names one by one.          *)
(***************************************************************************)
EXTENDS Integers, Sequences, FiniteSets
LOCAL INSTANCE SequencesExt

CONSTANTS
    Names,          \* names of variables, tables, cursors, channels, lock keys
                    \* and prepared statements
    Repertoires,    \* the sets of statements, pairs of a verb and a name, of
                    \* which a client uses one
    Modes,          \* the pooling modes the proxy may be configured with
    MaxPrepared,    \* max_prepared_statements
    MaxHeld         \* bound: times one advisory lock is taken

(* One verb per way of writing a statement that the detector tells apart   *)
(* or fails to tell apart.                                                 *)
AllVerbs == {"read", "set", "reset", "reset_all", "discard_all",
             "create_temp", "select_into_temp", "drop_table",
             "declare", "declare_hold", "close_cursor",
             "lock", "lock_expr", "try_lock", "unlock", "unlock_all",
             "parse", "close_stmt", "deallocate", "deallocate_all", "prepare",
             "listen", "unlisten", "unlisten_all", "notify"}

ASSUME PinAssumption ==
    /\ IsFiniteSet(Names) /\ \A r \in Repertoires : r \subseteq AllVerbs \X Names
    /\ Modes \subseteq {"Session", "Transaction", "Hybrid"}
    /\ MaxPrepared \in Nat /\ MaxHeld \in Nat \ {0}

VARIABLES
    mode,       \* the pooling mode in force, fixed at startup
    uses,       \* the statements this client uses
    tracked,    \* per kind, the names in ConnectionState's sets
    lru,        \* prepared_statements_lru
    unknown,    \* unknown_command
    txn,        \* the status the server reports, and the handler tracks
    live,       \* what the server holds: per kind and name, how many times
    saved,      \* what it held when the transaction block began
    missed      \* history: what is there, or may come back, and went missing
                \* from the record in a way the code leaves open

proxyVars == <<tracked, lru, unknown>>
serverVars == <<txn, live, saved>>
vars == <<mode, uses, proxyVars, serverVars, missed>>

Kinds == {"var", "temp", "cursor", "lock", "listen", "stmt"}

None == [k \in Kinds |-> [n \in Names |-> 0]]

(* The bound add_prepared_statement works with.                            *)
Bound == IF MaxPrepared = 0 THEN 1 ELSE MaxPrepared

TypeOK ==
    /\ mode \in Modes /\ uses \in Repertoires
    /\ tracked \in [Kinds -> SUBSET Names]
    /\ lru \in Seq(Names) /\ Len(lru) <= Bound
    /\ unknown \in BOOLEAN
    /\ txn \in {"I", "T", "E"}
    /\ live \in [Kinds -> [Names -> 0..MaxHeld]]
    /\ saved \in [Kinds -> [Names -> 0..MaxHeld]]
    /\ missed \subseteq Kinds \X Names

Init ==
    /\ mode \in Modes /\ uses \in Repertoires
    /\ tracked = [k \in Kinds |-> {}] /\ lru = <<>> /\ unknown = FALSE
    /\ txn = "I" /\ live = None /\ saved = None /\ missed = {}

-----------------------------------------------------------------------------
(* CommandDetector::detect, by what apply_single_statement does with its   *)
(* result.  An advisory lock whose key is not one number has key None and  *)
(* is dropped; the pg_try_ form and SELECT INTO TEMP are not detected, and *)
(* start with SELECT, so they count as clean.                              *)
Adds == [set |-> "var", create_temp |-> "temp", declare |-> "cursor",
         declare_hold |-> "cursor", lock |-> "lock", listen |-> "listen"]
Removes == [reset |-> "var", drop_table |-> "temp", close_cursor |-> "cursor",
            unlock |-> "lock", unlisten |-> "listen", deallocate |-> "stmt",
            close_stmt |-> "stmt"]
Clears == [reset_all |-> "var", unlisten_all |-> "listen", deallocate_all |-> "stmt"]
DetectedClean == {"read", "select_into_temp", "try_lock", "lock_expr", "unlock_all", "notify"}
Unclassified == {"prepare"}

(* A faulty IsPinned, which ReleasedClean must notice.                     *)
IsPinnedNoLocks == unknown \/ \E k \in Kinds \ {"lock"} : tracked[k] # {}

(* is_pinned                                                               *)
IsPinned == unknown \/ \E k \in Kinds : tracked[k] # {}

(* ModeEnforcer::validate.  Only transaction mode refuses anything.        *)
Rejected(v) ==
    /\ mode = "Transaction"
    /\ \/ v = "set" /\ txn = "I"
       \/ v \in {"create_temp", "declare_hold", "lock", "lock_expr"}

Without(s, n) == SelectSeq(s, LAMBDA x : x # n)

(* How many names a new one evicts from the front of the LRU order.        *)
Excess(n) == IF n \in tracked["stmt"] \/ Len(lru) < Bound THEN 0
                                                         ELSE Len(lru) - Bound + 1
Evicted(n) == {lru[i] : i \in 1..Excess(n)}

(* A faulty AddPrepared, which LruAgrees must notice.                      *)
AddPreparedKeeps(n) ==
    /\ lru' = Append(Without(SubSeq(lru, Excess(n) + 1, Len(lru)), n), n)
    /\ tracked' = [tracked EXCEPT !["stmt"] = @ \cup {n}]

(* add_prepared_statement: the name moves to the back; a new one first     *)
(* evicts until there is room.                                             *)
AddPrepared(n) ==
    /\ lru' = Append(Without(SubSeq(lru, Excess(n) + 1, Len(lru)), n), n)
    /\ tracked' = [tracked EXCEPT !["stmt"] = (@ \ Evicted(n)) \cup {n}]

(* apply_query for verb v on name n; parse and close_stmt are the Parse    *)
(* and Close messages of the extended protocol.                            *)
Apply(v, n) ==
    /\ unknown' = (v # "discard_all" /\ (unknown \/ v \in Unclassified))
    /\ CASE v = "parse" -> AddPrepared(n)
         [] v = "discard_all" -> tracked' = [k \in Kinds |-> {}] /\ lru' = <<>>
         [] v \in DOMAIN Adds ->
              tracked' = [tracked EXCEPT ![Adds[v]] = @ \cup {n}] /\ UNCHANGED lru
         [] v \in DOMAIN Removes ->
              /\ tracked' = [tracked EXCEPT ![Removes[v]] = @ \ {n}]
              /\ lru' = IF Removes[v] = "stmt" THEN Without(lru, n) ELSE lru
         [] v \in DOMAIN Clears ->
              /\ tracked' = [tracked EXCEPT ![Clears[v]] = {}]
              /\ lru' = IF Clears[v] = "stmt" THEN <<>> ELSE lru
         [] v \in DetectedClean \cup Unclassified -> UNCHANGED <<tracked, lru>>

-----------------------------------------------------------------------------
(* The server: what a statement that succeeds leaves in the session.       *)
Acquires == [set |-> "var", create_temp |-> "temp", select_into_temp |-> "temp",
             declare_hold |-> "cursor", listen |-> "listen", parse |-> "stmt",
             prepare |-> "stmt"]
Locking == {"lock", "lock_expr", "try_lock"}
Transactional == {"var", "temp", "cursor", "listen"}

Put(k, n, x) == [live EXCEPT ![k][n] = x]
Wipe(k) == [live EXCEPT ![k] = None[k]]

Succeeds(v, n) ==
    CASE v \in DOMAIN Acquires -> Put(Acquires[v], n, 1)
      [] v \in Locking -> Put("lock", n, live["lock"][n] + 1)
      [] v = "unlock" -> Put("lock", n, IF live["lock"][n] = 0 THEN 0 ELSE live["lock"][n] - 1)
      [] v = "unlock_all" -> Wipe("lock")
      [] v = "discard_all" -> None
      [] v \in DOMAIN Removes \ {"unlock"} -> Put(Removes[v], n, 0)
      [] v \in DOMAIN Clears -> Wipe(Clears[v])
      [] v \in {"read", "declare", "notify"} -> live

(* Statements that can be executed where the server is now.                *)
Possible(v, n) ==
    /\ txn # "E"
    /\ v = "discard_all" => txn = "I"
    /\ v \in Locking => live["lock"][n] < MaxHeld

-----------------------------------------------------------------------------
(* History: the ways in which the code lets state go missing from the      *)
(* record.                                                                 *)

(* Statements that leave state behind and count as clean.                  *)
Overlooked == [select_into_temp |-> "temp", lock_expr |-> "lock", try_lock |-> "lock"]

(* What a statement is recorded to undo.                                   *)
Undoes(v, n) ==
    CASE v = "discard_all" -> Kinds \X Names
      [] v \in DOMAIN Removes -> {<<Removes[v], n>>}
      [] v \in DOMAIN Clears -> {Clears[v]} \X Names
      [] OTHER -> {}

(* What the record does not know of after v: state of a statement it       *)
(* overlooks; a prepared statement it evicts; what v is recorded to undo   *)
(* when v fails, or when a rollback may bring it back; a lock that was     *)
(* taken more often than the one unlock releases it.                       *)
Blind(v, n, succeeds) ==
    {<<Overlooked[w], n>> : w \in {v} \cap DOMAIN Overlooked}
      \cup {<<"stmt", m>> : m \in IF v = "parse" THEN Evicted(n) ELSE {}}
      \cup {p \in Undoes(v, n) : \/ ~succeeds
                                 \/ txn = "T" /\ p[1] \in Transactional
                                 \/ v = "unlock" /\ live["lock"][n] > 1}

Unseen(p) == live'[p[1]][p[2]] + saved'[p[1]][p[2]] > 0 /\ p[2] \notin tracked'[p[1]]

-----------------------------------------------------------------------------
(* The client sends a statement; the proxy records it as it forwards it,   *)
(* the server succeeds or fails.                                           *)
Statement(v, n) ==
    /\ ~Rejected(v)
    /\ Apply(v, n)
    /\ UNCHANGED <<mode, uses, saved>>
    /\ \E succeeds \in BOOLEAN :
         /\ succeeds => Possible(v, n)
         /\ live' = IF succeeds THEN Succeeds(v, n) ELSE live
         /\ txn' = IF succeeds \/ txn = "I" THEN txn ELSE "E"
         /\ missed' = {p \in missed \cup Blind(v, n, succeeds) : Unseen(p)}

Begin ==
    /\ txn = "I"
    /\ txn' = "T" /\ saved' = live
    /\ UNCHANGED <<mode, uses, proxyVars, live, missed>>

(* COMMIT or ROLLBACK.  A rollback restores what is transactional.         *)
EndTransaction(commits) ==
    /\ txn # "I"
    /\ txn' = "I" /\ saved' = None
    /\ live' = IF commits /\ txn = "T" THEN live
               ELSE [k \in Kinds |-> IF k \in Transactional THEN saved[k] ELSE live[k]]
    /\ UNCHANGED <<mode, uses, proxyVars>>
    /\ missed' = {p \in missed : Unseen(p)}

Next ==
    \/ \E u \in uses : Statement(u[1], u[2])
    \/ Begin
    \/ \E commits \in BOOLEAN : EndTransaction(commits)

Spec == Init /\ [][Next]_vars

-----------------------------------------------------------------------------
Held == {p \in Kinds \X Names : live[p[1]][p[2]] > 0}

(* When a transaction ends and the record does not pin the backend, so     *)
(* that the handler gives it up, the server holds no state of this client  *)
(* but what went missing from the record in one of the four ways of Blind. *)
(* transparency-contract.md, section 3, asks for more: "Every detection    *)
(* gap MUST degrade to a performance cost"; each of the four is a gap that *)
(* does not.                                                               *)
ReleasedClean ==
    [][mode # "Session" /\ txn # "I" /\ txn' = "I" /\ ~IsPinned'
         => Held' \subseteq missed']_vars

(* The LRU order and the map of prepared statements always agree, and hold *)
(* each name once.                                                         *)
LruAgrees ==
    /\ Range(lru) = tracked["stmt"]
    /\ Cardinality(tracked["stmt"]) = Len(lru)
=============================================================================
