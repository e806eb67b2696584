------------------------------ MODULE HotData ------------------------------
(***************************************************************************)
(* The hot data tracker of observability/hot_data.rs: a Count-Min sketch   *)
(* of atomic counters and the K fingerprints with the largest estimates.   *)
(*                                                                         *)
(* record_access holds the sketch's read lock while it increments one      *)
(* counter per row, drops it, and takes the write lock of the top-K        *)
(* afterwards; apply_decay takes the two write locks one after the other.  *)
(* Sections under a write lock are one step, increments one step per row.  *)
(***************************************************************************)
EXTENDS Naturals, FiniteSets

CONSTANTS
    Recorders,      \* the threads that record accesses
    Fingerprints,
    Depth,          \* the rows of the sketch
    Hash,           \* per row and fingerprint, the bucket it falls into
    K

ASSUME HotDataAssumption ==
    /\ Depth \in Nat \ {0} /\ K \in Nat \ {0} /\ IsFiniteSet(Recorders)
    /\ \A i \in 1..Depth : DOMAIN Hash[i] = Fingerprints

VARIABLES
    table,                  \* CountMinSketch::table, by row and bucket
    access,                 \* per recorder, its record_access
    fingerprint_to_count,   \* of the top-K
    heap,                   \* of the top-K, a set of entries
    accesses                \* history: the accesses, decayed with the sketch

hotVars == <<table, access, fingerprint_to_count, heap, accesses>>

Buckets(i) == {Hash[i][f] : f \in Fingerprints}

NoAccess == [fp |-> "none", row |-> 0, min |-> 0]

HotInit ==
    /\ table = [i \in 1..Depth |-> [b \in Buckets(i) |-> 0]]
    /\ access = [r \in Recorders |-> NoAccess]
    /\ fingerprint_to_count = <<>>
    /\ heap = {}
    /\ accesses = [f \in Fingerprints |-> 0]

Entry(f, n) == [fingerprint |-> f, access_count |-> n]

(* (n as f64 * 0.99) as u64.                                               *)
Decayed(n) == (n * 99) \div 100

-----------------------------------------------------------------------------
(* CountMinSketch::increment, one row: the estimate is the smallest count. *)
Increment(r, f, i) ==
    LET n == table[i][Hash[i][f]] + 1
        least == IF i = 1 \/ n < access[r].min THEN n ELSE access[r].min
    IN
    /\ table' = [table EXCEPT ![i][Hash[i][f]] = n]
    /\ access' = [access EXCEPT ![r] = [fp |-> f, row |-> i, min |-> least]]
    /\ accesses' = IF i = Depth THEN [accesses EXCEPT ![f] = @ + 1] ELSE accesses
    /\ UNCHANGED <<fingerprint_to_count, heap>>

RecordAccess(r, f) ==
    /\ access[r] = NoAccess
    /\ Increment(r, f, 1)

(* The read lock is held from the first row to the last.                   *)
Reading(r) == access[r].row \in 1..(Depth - 1)

NextRow(r) ==
    /\ Reading(r)
    /\ Increment(r, access[r].fp, access[r].row + 1)

RebuildHeap(counts) == {Entry(f, counts[f]) : f \in DOMAIN counts}

(* BinaryHeap of Reverse: its top has the smallest count, whichever.       *)
Peek == {e \in heap : \A o \in heap : e.access_count <= o.access_count}

(* HashMap::insert.                                                        *)
Insert(counts, f, n) ==
    [g \in DOMAIN counts \cup {f} |-> IF g = f THEN n ELSE counts[g]]

(* A faulty update, which EvictsColdest must notice: a new count for a     *)
(* fingerprint that is already there does not reach the heap.              *)
UpdateMapOnly(f, n) ==
    IF f \in DOMAIN fingerprint_to_count
    THEN /\ fingerprint_to_count' = Insert(fingerprint_to_count, f, n)
         /\ UNCHANGED heap
    ELSE IF Cardinality(DOMAIN fingerprint_to_count) < K
    THEN /\ fingerprint_to_count' = Insert(fingerprint_to_count, f, n)
         /\ heap' = heap \cup {Entry(f, n)}
    ELSE \E top \in Peek :
           IF n > top.access_count
           THEN /\ fingerprint_to_count' =
                     Insert([g \in DOMAIN fingerprint_to_count \ {top.fingerprint}
                               |-> fingerprint_to_count[g]], f, n)
                /\ heap' = (heap \ {top}) \cup {Entry(f, n)}
           ELSE UNCHANGED <<fingerprint_to_count, heap>>

(* TopKHeap::update.                                                       *)
Update(f, n) ==
    IF f \in DOMAIN fingerprint_to_count
    THEN /\ fingerprint_to_count' = Insert(fingerprint_to_count, f, n)
         /\ heap' = RebuildHeap(fingerprint_to_count')
    ELSE IF Cardinality(DOMAIN fingerprint_to_count) < K
    THEN /\ fingerprint_to_count' = Insert(fingerprint_to_count, f, n)
         /\ heap' = heap \cup {Entry(f, n)}
    ELSE \E top \in Peek :
           IF n > top.access_count
           THEN /\ fingerprint_to_count' =
                     Insert([g \in DOMAIN fingerprint_to_count \ {top.fingerprint}
                               |-> fingerprint_to_count[g]], f, n)
                /\ heap' = (heap \ {top}) \cup {Entry(f, n)}
           ELSE UNCHANGED <<fingerprint_to_count, heap>>

(* The estimate may have been overtaken since it was made.                 *)
UpdateTopK(r) ==
    /\ access[r].row = Depth
    /\ Update(access[r].fp, access[r].min)
    /\ access' = [access EXCEPT ![r] = NoAccess]
    /\ UNCHANGED <<table, accesses>>

-----------------------------------------------------------------------------
(* A faulty apply_decay, which NeverUndercounts must notice: the counters  *)
(* are atomic, so it makes do with the read lock.                          *)
DecayShared ==
    /\ table' = [i \in DOMAIN table |-> [b \in DOMAIN table[i] |-> Decayed(table[i][b])]]
    /\ accesses' = [f \in Fingerprints |-> Decayed(accesses[f])]
    /\ UNCHANGED <<access, fingerprint_to_count, heap>>

(* CountMinSketch::apply_decay, under the write lock.                      *)
DecaySketch ==
    /\ \A r \in Recorders : ~Reading(r)
    /\ table' = [i \in DOMAIN table |-> [b \in DOMAIN table[i] |-> Decayed(table[i][b])]]
    /\ accesses' = [f \in Fingerprints |-> Decayed(accesses[f])]
    /\ UNCHANGED <<access, fingerprint_to_count, heap>>

(* TopKHeap::apply_decay.                                                  *)
DecayTopK ==
    /\ fingerprint_to_count' =
         [f \in DOMAIN fingerprint_to_count |-> Decayed(fingerprint_to_count[f])]
    /\ heap' = RebuildHeap(fingerprint_to_count')
    /\ UNCHANGED <<table, access, accesses>>

-----------------------------------------------------------------------------
(* The sketch errs on one side only: no counter of a fingerprint is below  *)
(* the number of its accesses, decayed as often, however increments and    *)
(* decays interleave.                                                      *)
NeverUndercounts ==
    \A f \in Fingerprints, i \in 1..Depth : table[i][Hash[i][f]] >= accesses[f]

(* The top-K holds at most K fingerprints, and one leaves it only when no  *)
(* other has a smaller count, for a new one with a larger.                 *)
EvictsColdest ==
    [][LET old == fingerprint_to_count
           new == fingerprint_to_count'
       IN
       /\ Cardinality(DOMAIN new) <= K
       /\ \A f \in DOMAIN old \ DOMAIN new :
            /\ \A g \in DOMAIN old : old[f] <= old[g]
            /\ \E g \in DOMAIN new \ DOMAIN old : new[g] > old[f]]_hotVars
=============================================================================
