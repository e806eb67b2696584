---------------------------- MODULE StatementCache ----------------------------
(***************************************************************************)
(* The statement cache of proxy/cache.rs, as operators on a record of its  *)
(* map, `texts`, and its LRU order, `lru`, oldest first.                   *)
(***************************************************************************)
EXTENDS Naturals, FiniteSets, SequencesExt

CONSTANT MaxSize    \* max_prepared_statements

ASSUME CacheAssumption == MaxSize \in Nat

EmptyCache == [texts |-> <<>>, lru |-> <<>>]

Without(order, names) == SelectSeq(order, LAMBDA n : n \notin names)

(* What insert_statement evicts.  The map is counted with the entry that   *)
(* is about to be replaced, so replacing one at capacity evicts another.   *)
Evicted(c, name) ==
    LET size == Cardinality(DOMAIN c.texts)
        over == IF size < MaxSize THEN 0 ELSE size + 1 - MaxSize
        rest == Without(c.lru, {name})
    IN  ToSet(SubSeq(rest, 1, Min({over, Len(rest)})))

(* A faulty InsertStatement, which ReportsTheText must notice.             *)
InsertOnce(c, name, text) ==
    LET keep == (DOMAIN c.texts \ Evicted(c, name)) \cup {name}
    IN  [texts |-> [n \in keep |-> IF n \in DOMAIN c.texts THEN c.texts[n] ELSE text],
         lru |-> Append(Without(c.lru, Evicted(c, name) \cup {name}), name)]

InsertStatement(c, name, text) ==
    LET keep == (DOMAIN c.texts \ Evicted(c, name)) \cup {name}
    IN  [texts |-> [n \in keep |-> IF n = name THEN text ELSE c.texts[n]],
         lru |-> Append(Without(c.lru, Evicted(c, name) \cup {name}), name)]

(* A faulty Touch, which CacheAgrees must notice.                          *)
TouchTwice(c, name) == [c EXCEPT !.lru = Append(@, name)]

(* The LRU side of get_statement, on a hit.                                *)
Touch(c, name) == [c EXCEPT !.lru = Append(Without(@, {name}), name)]

RemoveStatement(c, name) ==
    [texts |-> Restrict(c.texts, DOMAIN c.texts \ {name}),
     lru |-> Without(c.lru, {name})]

(* Map and order hold the same names, each once, and no more of them than  *)
(* max_prepared_statements (one, where that is 0).                         *)
Agrees(c) ==
    /\ ToSet(c.lru) = DOMAIN c.texts
    /\ Len(c.lru) = Cardinality(DOMAIN c.texts)
    /\ Len(c.lru) <= Max({1, MaxSize})
=============================================================================
