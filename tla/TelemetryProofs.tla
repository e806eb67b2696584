-------------------------- MODULE TelemetryProofs --------------------------
(***************************************************************************)
(* What TLAPS proves about HotData and Telemetry, for every number of      *)
(* recorders, queries and ticks, every sketch and every hash.              *)
(***************************************************************************)
EXTENDS Telemetry, FiniteSetTheorems, TLAPS

Stages == {"gone", "idle", "hot", "total", "errors"}

Checks ==
    [stage : {"sleep", "errors", "latency", "check", "decay", "decay top"},
     total : Nat, errors : Nat, p99 : Nat]

Tasks ==
    [stage : Stages, fps : Seq(Fingerprints), latency : Nat, success : BOOLEAN]

Accesses == [fp : Fingerprints \cup {"none"}, row : 0..Depth, min : Nat]

HotTypes ==
    /\ table = [i \in 1..Depth |-> table[i]]
    /\ \A i \in 1..Depth : table[i] \in [Buckets(i) -> Nat]
    /\ access \in [Recorders -> Accesses]
    /\ \A r \in Recorders : access[r].row # 0 => access[r].fp \in Fingerprints
    /\ accesses \in [Fingerprints -> Nat]

TelemetryTypes ==
    /\ HotTypes
    /\ task \in [Recorders -> Tasks]
    /\ slowest \in Nat /\ total_queries \in Nat /\ total_errors \in Nat
    /\ check \in Checks

(* The record_access calls that have counted f in row i and are not        *)
(* through with the sketch.                                                *)
Pending(f, i) == {r \in Recorders : access[r].fp = f /\ access[r].row \in i..(Depth - 1)}

(* They are in the table already, and not yet among the accesses.          *)
Ahead ==
    \A f \in Fingerprints, i \in 1..Depth :
      table[i][Hash[i][f]] >= accesses[f] + Cardinality(Pending(f, i))

(* The heap holds what the map does, and no more than K of it.             *)
HeapAgrees ==
    /\ heap = RebuildHeap(fingerprint_to_count)
    /\ fingerprint_to_count \in [DOMAIN fingerprint_to_count -> Nat]
    /\ IsFiniteSet(DOMAIN fingerprint_to_count)
    /\ Cardinality(DOMAIN fingerprint_to_count) <= K

-----------------------------------------------------------------------------
(* The sketch: the buckets of a row.                                       *)
LEMMA InBuckets ==
  ASSUME NEW f \in Fingerprints, NEW i \in 1..Depth
  PROVE  Hash[i][f] \in Buckets(i)
BY Zenon DEF Buckets

(* Decay keeps the order of two counts.                                    *)
LEMMA DecayKeepsOrder ==
  /\ \A m \in Nat : Decayed(m) \in Nat
  /\ \A m, n \in Nat : m >= n => Decayed(m) >= Decayed(n)
BY DEF Decayed

(* Reading a row increments one counter of it.                             *)
LEMMA IncrementType ==
  ASSUME HotTypes, NEW r \in Recorders, NEW f \in Fingerprints, NEW i \in 1..Depth,
         Increment(r, f, i)
  PROVE  HotTypes'
<1> DEFINE n == table[i][Hash[i][f]] + 1
           least == IF i = 1 \/ n < access[r].min THEN n ELSE access[r].min
<1>1. /\ table' = [table EXCEPT ![i][Hash[i][f]] = n]
      /\ access' = [access EXCEPT ![r] = [fp |-> f, row |-> i, min |-> least]]
      /\ accesses' = IF i = Depth THEN [accesses EXCEPT ![f] = @ + 1] ELSE accesses
  BY Zenon DEF Increment
<1>2. n \in Nat /\ table[i] \in [Buckets(i) -> Nat] /\ Hash[i][f] \in Buckets(i)
  BY InBuckets DEF HotTypes
<1>3. least \in Nat
  BY Zenon, <1>2 DEF HotTypes, Accesses
<1>4. access' \in [Recorders -> Accesses] /\ \A s \in Recorders : access'[s].row # 0 => access'[s].fp \in Fingerprints
  <2> HIDE DEF n, least
  <2>0. i \in 0..Depth
    BY HotDataAssumption
  <2>1. [fp |-> f, row |-> i, min |-> least] \in Accesses
    BY Zenon, <1>3, <2>0 DEF Accesses
  <2> QED BY Zenon, <1>1, <2>1 DEF HotTypes
<1>5. table' = [j \in 1..Depth |-> table'[j]] /\ \A j \in 1..Depth : table'[j] \in [Buckets(j) -> Nat]
  <2> HIDE DEF n, least
  <2>1. [table[i] EXCEPT ![Hash[i][f]] = n] \in [Buckets(i) -> Nat]
    BY Zenon, <1>2
  <2>2. table' = [table EXCEPT ![i] = [table[i] EXCEPT ![Hash[i][f]] = n]]
    BY Zenon, <1>1
  <2> QED BY Zenon, <2>1, <2>2 DEF HotTypes
<1>6. accesses' \in [Fingerprints -> Nat]
  BY <1>1 DEF HotTypes
<1> QED BY Zenon, <1>4, <1>5, <1>6 DEF HotTypes

(* Every step keeps the types.                                             *)
LEMMA TelemetryStep == TelemetryTypes /\ [Next]_vars => TelemetryTypes'
<1> SUFFICES ASSUME TelemetryTypes, [Next]_vars PROVE TelemetryTypes'
  BY Zenon
<1> USE DEF hotVars, healthVars, queryVars
<1>s. HotTypes /\ task \in [Recorders -> Tasks]
  BY Zenon DEF TelemetryTypes
<1>c. check \in Checks /\ slowest \in Nat /\ total_queries \in Nat /\ total_errors \in Nat
  BY Zenon DEF TelemetryTypes
<1>h. ASSUME UNCHANGED hotVars PROVE HotTypes'
  BY Zenon, <1>s, <1>h DEF HotTypes
<1>0. CASE UNCHANGED vars
  BY Zenon, <1>0 DEF vars, TelemetryTypes, HotTypes
<1>g. ASSUME NEW r \in Recorders, NEW s \in Stages, Goes(r, s)
      PROVE  task' \in [Recorders -> Tasks]
  <2>1. [task[r] EXCEPT !.stage = s] \in Tasks
    BY Zenon, <1>s DEF Tasks
  <2>2. task' = [task EXCEPT ![r] = [task[r] EXCEPT !.stage = s]]
    BY Zenon, <1>s, <1>g DEF Goes
  <2> QED BY Zenon, <1>s, <2>1, <2>2
<1>1. ASSUME NEW r \in Recorders, Connect(r) \/ Disconnect(r) PROVE TelemetryTypes'
  <2>1. task' \in [Recorders -> Tasks]
    BY Zenon, <1>1, <1>g DEF Connect, Disconnect, Stages
  <2> QED BY Zenon, <1>1, <1>h, <2>1 DEF Connect, Disconnect, TelemetryTypes
<1>2. ASSUME NEW r \in Recorders, QueryEnds(r) PROVE TelemetryTypes'
  <2>1. PICK q \in Kinds :
          task' = [task EXCEPT ![r] = [stage |-> "hot", fps |-> q.fps,
                                      latency |-> q.latency, success |-> q.success]]
    BY Zenon, <1>2 DEF QueryEnds
  <2>2. [stage |-> "hot", fps |-> q.fps, latency |-> q.latency, success |-> q.success] \in Tasks
    <3>1. q \in [fps : Seq(Fingerprints), latency : Nat, success : BOOLEAN]
      BY Zenon, TelemetryAssumption
    <3> QED BY Zenon, <3>1 DEF Tasks, Stages
  <2> QED BY Zenon, <1>2, <1>h, <2>1, <2>2 DEF QueryEnds, TelemetryTypes
<1>3. ASSUME NEW r \in Recorders, RecordHotData(r) PROVE TelemetryTypes'
  <2>1. UNCHANGED <<slowest, total_queries, total_errors, check>>
    BY Zenon, <1>3 DEF RecordHotData
  <2>2. CASE task[r].fps # <<>> /\ RecordAccess(r, Head(task[r].fps)) /\ task' = [task EXCEPT ![r].fps = Tail(@)]
    <3>f. PICK s \in Seq(Fingerprints) : s = task[r].fps /\ s # <<>>
      BY Zenon, <1>s, <2>2 DEF Tasks
    <3>1. Head(s) \in Fingerprints /\ Tail(s) \in Seq(Fingerprints)
      BY <3>f
    <3>2. HotTypes'
      <4>1. Increment(r, Head(s), 1)
        BY Zenon, <2>2, <3>f DEF RecordAccess
      <4>2. 1 \in 1..Depth
        BY HotDataAssumption
      <4> QED BY Zenon, <1>s, <3>1, <4>1, <4>2, IncrementType
    <3>3. task' \in [Recorders -> Tasks]
      <4>1. [task[r] EXCEPT !.fps = Tail(s)] \in Tasks
        BY Zenon, <1>s, <3>1 DEF Tasks
      <4>2. task' = [task EXCEPT ![r] = [task[r] EXCEPT !.fps = Tail(s)]]
        BY Zenon, <1>s, <2>2, <3>f
      <4> QED BY Zenon, <1>s, <4>1, <4>2
    <3> QED BY Zenon, <2>1, <3>2, <3>3 DEF TelemetryTypes
  <2>3. CASE NextRow(r) /\ UNCHANGED task
    <3>1. access[r].row + 1 \in 1..Depth /\ access[r].fp \in Fingerprints
      BY <1>s, <2>3, HotDataAssumption DEF NextRow, Reading, HotTypes, Accesses
    <3>2. HotTypes'
      BY Zenon, <1>s, <2>3, <3>1, IncrementType DEF NextRow
    <3> QED BY Zenon, <2>1, <2>3, <3>2 DEF TelemetryTypes
  <2>4. CASE UpdateTopK(r) /\ UNCHANGED task
    <3>1. NoAccess \in Accesses
      BY HotDataAssumption DEF NoAccess, Accesses
    <3>2. HotTypes'
      BY Zenon, <1>s, <2>4, <3>1 DEF UpdateTopK, HotTypes, NoAccess
    <3> QED BY Zenon, <2>1, <2>4, <3>2 DEF TelemetryTypes
  <2> QED BY Zenon, <1>3, <2>2, <2>3, <2>4 DEF RecordHotData
<1>4. ASSUME NEW r \in Recorders, RecordLatency(r) \/ CountQuery(r) \/ CountError(r) PROVE TelemetryTypes'
  <2>1. task[r].latency \in Nat
    BY Zenon, <1>s DEF Tasks
  <2>2. task' \in [Recorders -> Tasks]
    BY Zenon, <1>4, <1>g DEF RecordLatency, CountQuery, CountError, Stages
  <2>3. slowest' \in Nat /\ total_queries' \in Nat /\ total_errors' \in Nat
    <3>1. slowest \in Nat /\ total_queries \in Nat /\ total_errors \in Nat
      BY Zenon DEF TelemetryTypes
    <3>2. slowest' \in Nat
      BY Zenon, <1>4, <2>1, <3>1 DEF RecordLatency, CountQuery, CountError
    <3>3. total_queries' \in Nat /\ total_errors' \in Nat
      BY <1>4, <3>1 DEF RecordLatency, CountQuery, CountError
    <3> QED BY Zenon, <3>2, <3>3
  <2> QED BY Zenon, <1>4, <1>h, <2>2, <2>3 DEF RecordLatency, CountQuery, CountError, TelemetryTypes
<1>5. ASSUME Tick \/ LoadErrors \/ LoadLatency \/ CheckAndUpdate PROVE TelemetryTypes'
  <2>1. check' \in Checks
    <3>1. CASE Tick
      BY Zenon, <1>c, <3>1 DEF Tick, Checks
    <3>2. CASE LoadErrors
      BY Zenon, <1>c, <3>2 DEF LoadErrors, Checks
    <3>3. CASE LoadLatency
      BY Zenon, <1>c, <3>3 DEF LoadLatency, Checks
    <3>4. CASE CheckAndUpdate
      BY Zenon, <3>4 DEF CheckAndUpdate, NoCheck, Checks
    <3> QED BY Zenon, <1>5, <3>1, <3>2, <3>3, <3>4
  <2> QED BY Zenon, <1>5, <1>h, <2>1 DEF Tick, LoadErrors, LoadLatency, CheckAndUpdate, TelemetryTypes
<1>6. ASSUME ApplyDecay PROVE TelemetryTypes'
  <2>1. HotTypes'
    <3>1. CASE DecaySketch
      BY Zenon, <1>s, <3>1, DecayKeepsOrder DEF DecaySketch, HotTypes
    <3>2. CASE DecayTopK
      BY Zenon, <1>s, <3>2 DEF DecayTopK, HotTypes
    <3> QED BY Zenon, <1>6, <3>1, <3>2 DEF ApplyDecay
  <2>2. check' \in Checks
    <3>1. CASE check' = NoCheck
      BY Zenon, <3>1 DEF NoCheck, Checks
    <3>2. CASE check' = [check EXCEPT !.stage = "decay top"]
      BY Zenon, <1>c, <3>2 DEF Checks
    <3> QED BY Zenon, <1>6, <3>1, <3>2 DEF ApplyDecay
  <2> QED BY Zenon, <1>6, <2>1, <2>2 DEF ApplyDecay, TelemetryTypes
<1> QED BY Zenon, <1>0, <1>1, <1>2, <1>3, <1>4, <1>5, <1>6 DEF Next

(* The same for the first state.                                           *)
LEMMA TelemetryInit == Init => TelemetryTypes
<1> SUFFICES ASSUME Init PROVE TelemetryTypes
  BY Zenon
<1>1. HotTypes
  <2>1. NoAccess \in Accesses /\ NoAccess.row = 0
    BY HotDataAssumption DEF NoAccess, Accesses
  <2> QED BY Zenon, <2>1 DEF Init, HotInit, HotTypes
<1>2. NoTask \in Tasks
  <2>1. <<>> \in Seq(Fingerprints)
    OBVIOUS
  <2> QED BY Zenon, <2>1 DEF NoTask, Tasks, Stages
<1>3. NoCheck \in Checks
  BY Zenon DEF NoCheck, Checks
<1> QED BY Zenon, <1>1, <1>2, <1>3 DEF Init, TelemetryTypes

-----------------------------------------------------------------------------
(* What a step may do to the hot data: record_access goes on by one row,   *)
(* or ends, or one of the two halves of apply_decay runs.                  *)
HotStep ==
    \/ UNCHANGED hotVars
    \/ \E r \in Recorders, f \in Fingerprints, j \in 1..Depth :
         /\ access[r].row = j - 1 /\ (j > 1 => access[r].fp = f)
         /\ Increment(r, f, j)
    \/ \E r \in Recorders : UpdateTopK(r)
    \/ DecaySketch
    \/ DecayTopK

(* Every step of the proxy is one of them.                                 *)
LEMMA NextIsHotStep == TelemetryTypes /\ [Next]_vars => HotStep
<1> SUFFICES ASSUME TelemetryTypes, [Next]_vars PROVE HotStep
  BY Zenon
<1> USE DEF hotVars
<1>0. CASE UNCHANGED vars
  BY Zenon, <1>0 DEF vars, HotStep
<1>1. ASSUME NEW r \in Recorders, RecordHotData(r) PROVE HotStep
  <2>1. CASE task[r].fps # <<>> /\ RecordAccess(r, Head(task[r].fps))
    <3>f. PICK s \in Seq(Fingerprints) : s = task[r].fps /\ s # <<>>
      BY Zenon, <2>1 DEF TelemetryTypes, Tasks
    <3>1. Head(s) \in Fingerprints
      BY <3>f
    <3>2. access[r].row = 1 - 1 /\ Increment(r, Head(s), 1) /\ ~(1 > 1)
      BY <2>1, <3>f DEF RecordAccess, NoAccess
    <3>3. 1 \in 1..Depth
      BY HotDataAssumption
    <3> QED BY Zenon, <3>1, <3>2, <3>3 DEF HotStep
  <2>2. CASE NextRow(r)
    <3>1. PICK j \in 1..Depth : j = access[r].row + 1 /\ access[r].row = j - 1
      BY <2>2, HotDataAssumption DEF NextRow, Reading, TelemetryTypes, HotTypes, Accesses
    <3>2. access[r].fp \in Fingerprints
      BY <2>2 DEF NextRow, Reading, TelemetryTypes, HotTypes
    <3>3. Increment(r, access[r].fp, j)
      BY Zenon, <2>2, <3>1 DEF NextRow
    <3> QED BY Zenon, <3>1, <3>2, <3>3 DEF HotStep
  <2>3. CASE UpdateTopK(r)
    BY Zenon, <2>3 DEF HotStep
  <2> QED BY Zenon, <1>1, <2>1, <2>2, <2>3 DEF RecordHotData
<1>2. CASE ApplyDecay
  BY Zenon, <1>2 DEF ApplyDecay, HotStep
<1>3. ASSUME NEW r \in Recorders,
             Connect(r) \/ Disconnect(r) \/ QueryEnds(r) \/ RecordLatency(r) \/ CountQuery(r) \/ CountError(r)
      PROVE  HotStep
  BY Zenon, <1>3 DEF Connect, Disconnect, QueryEnds, RecordLatency, CountQuery, CountError, HotStep
<1>4. CASE Tick \/ LoadErrors \/ LoadLatency \/ CheckAndUpdate
  BY Zenon, <1>4 DEF Tick, LoadErrors, LoadLatency, CheckAndUpdate, HotStep
<1> QED BY Zenon, <1>0, <1>1, <1>2, <1>3, <1>4 DEF Next

(* The calls that are not through are finitely many.                       *)
LEMMA PendingFinite ==
  ASSUME NEW f, NEW i
  PROVE  IsFiniteSet(Pending(f, i)) /\ Cardinality(Pending(f, i)) \in Nat
<1>1. Pending(f, i) \subseteq Recorders
  BY Zenon DEF Pending
<1> QED BY Zenon, <1>1, HotDataAssumption, FS_Subset, FS_CardinalityType

(* An access counts in a row before it counts among the accesses.          *)
LEMMA IncrementAhead ==
  ASSUME HotTypes, Ahead, NEW r \in Recorders, NEW f \in Fingerprints, NEW j \in 1..Depth,
         access[r].row = j - 1, j > 1 => access[r].fp = f, Increment(r, f, j)
  PROVE  Ahead'
<1> SUFFICES ASSUME NEW g \in Fingerprints, NEW i \in 1..Depth
             PROVE  (table[i][Hash[i][g]] >= accesses[g] + Cardinality(Pending(g, i)))'
  BY Zenon DEF Ahead
<1>1. /\ table' = [table EXCEPT ![j] = [table[j] EXCEPT ![Hash[j][f]] = table[j][Hash[j][f]] + 1]]
      /\ accesses' = IF j = Depth THEN [accesses EXCEPT ![f] = accesses[f] + 1] ELSE accesses
  BY Zenon DEF Increment
<1>a. PICK least : access' = [access EXCEPT ![r] = [fp |-> f, row |-> j, min |-> least]]
  BY Zenon DEF Increment
<1>2. table[i] \in [Buckets(i) -> Nat] /\ table[j] \in [Buckets(j) -> Nat] /\ Hash[i][g] \in Buckets(i)
  BY Zenon, InBuckets DEF HotTypes
<1>3. \A s \in Recorders : s # r => access'[s] = access[s]
  BY Zenon, <1>a DEF HotTypes
<1>4. access'[r].fp = f /\ access'[r].row = j
  BY Zenon, <1>a DEF HotTypes
<1>5. accesses[g] \in Nat /\ accesses[f] \in Nat
  BY Zenon DEF HotTypes
<1>d. Depth \in Nat /\ j \in Nat /\ i \in Nat /\ i >= 1 /\ j >= 1 /\ i <= Depth /\ j <= Depth
  BY HotDataAssumption
<1>6. table[i][Hash[i][g]] \in Nat /\ table[i][Hash[i][g]] >= accesses[g] + Cardinality(Pending(g, i))
  BY Zenon, <1>2 DEF Ahead
<1>7. /\ table'[i][Hash[i][g]] \in Nat
      /\ table'[i][Hash[i][g]] >= table[i][Hash[i][g]]
      /\ i = j /\ g = f => table'[i][Hash[i][g]] = table[i][Hash[i][g]] + 1
  <2>1. CASE i = j
    <3>1. table'[i] = [table[j] EXCEPT ![Hash[j][f]] = table[j][Hash[j][f]] + 1]
      BY Zenon, <1>1, <2>1 DEF HotTypes
    <3>2. Hash[j][f] \in Buckets(j)
      BY Zenon, InBuckets
    <3> QED BY <1>2, <2>1, <3>1, <3>2
  <2>2. CASE i # j
    <3>1. table'[i] = table[i]
      BY Zenon, <1>1, <2>2 DEF HotTypes
    <3> QED BY <1>6, <2>2, <3>1
  <2> QED BY ZenonT(30), <2>1, <2>2
<1>8. CASE g # f
  <2>1. Pending(g, i)' = Pending(g, i)
    <3>1. ASSUME NEW s \in Recorders
          PROVE  (access'[s].fp = g /\ access'[s].row \in i..(Depth - 1))
                   <=> (access[s].fp = g /\ access[s].row \in i..(Depth - 1))
      BY <1>3, <1>4, <1>8, <1>d
    <3> QED BY Zenon, <3>1 DEF Pending
  <2>2. accesses'[g] = accesses[g]
    BY Zenon, <1>1, <1>8 DEF HotTypes
  <2> QED BY <1>5, <1>6, <1>7, <2>1, <2>2, PendingFinite
<1>9. CASE g = f /\ i <= j /\ j = Depth
  <2>1. accesses'[g] = accesses[g] + 1
    BY Zenon, <1>1, <1>9 DEF HotTypes
  <2>2. CASE i = j
    <3>1. Pending(g, i)' = {} /\ Pending(g, i) = {}
      BY <1>d, <1>9, <2>2 DEF Pending
    <3> QED BY <1>5, <1>6, <1>7, <1>9, <2>1, <2>2, <3>1, FS_EmptySet
  <2>3. CASE i < j
    <3>1. Pending(g, i)' = Pending(g, i) \ {r} /\ r \in Pending(g, i)
      <4>1. access[r].fp = g /\ access[r].row \in i..(Depth - 1) /\ access'[r].row \notin i..(Depth - 1)
        BY <1>4, <1>d, <1>9, <2>3
      <4> QED BY Zenon, <1>3, <4>1 DEF Pending
    <3>2. Cardinality(Pending(g, i)') = Cardinality(Pending(g, i)) - 1
      BY Zenon, <3>1, PendingFinite, FS_RemoveElement
    <3> QED BY <1>5, <1>6, <1>7, <2>1, <3>2, PendingFinite
  <2> QED BY <1>d, <1>9, <2>2, <2>3
<1>10. CASE g = f /\ j # Depth
  <2>1. accesses'[g] = accesses[g]
    BY Zenon, <1>1, <1>10
  <2>2. CASE i = j
    <3>1. Pending(g, i)' = Pending(g, i) \cup {r} /\ r \notin Pending(g, i)
      <4>1. access'[r].fp = g /\ access'[r].row \in i..(Depth - 1) /\ access[r].row \notin i..(Depth - 1)
        BY <1>4, <1>d, <1>10, <2>2
      <4> QED BY Zenon, <1>3, <4>1 DEF Pending
    <3>2. Cardinality(Pending(g, i)') = Cardinality(Pending(g, i)) + 1
      BY Zenon, <3>1, PendingFinite, FS_AddElement
    <3> QED BY <1>5, <1>6, <1>7, <1>10, <2>1, <2>2, <3>2, PendingFinite
  <2>3. CASE i # j
    <3>1. ASSUME NEW s \in Recorders
          PROVE  (access'[s].fp = g /\ access'[s].row \in i..(Depth - 1))
                   <=> (access[s].fp = g /\ access[s].row \in i..(Depth - 1))
      BY <1>3, <1>4, <1>10, <1>d, <2>3
    <3>2. Pending(g, i)' = Pending(g, i)
      BY Zenon, <3>1 DEF Pending
    <3> QED BY <1>5, <1>6, <1>7, <2>1, <3>2, PendingFinite
  <2> QED BY Zenon, <2>2, <2>3
<1> QED BY Zenon, <1>d, <1>8, <1>9, <1>10

(* Every step keeps the counters of the sketch ahead of the accesses: a    *)
(* decay runs only when no call is between two rows, and rounds both       *)
(* sides alike.                                                            *)
LEMMA AheadStep == TelemetryTypes /\ Ahead /\ [Next]_vars => Ahead'
<1> SUFFICES ASSUME TelemetryTypes, Ahead, HotStep PROVE Ahead'
  BY Zenon, NextIsHotStep
<1>s. HotTypes
  BY Zenon DEF TelemetryTypes
<1>1. CASE UNCHANGED hotVars
  BY Zenon, <1>1 DEF hotVars, Ahead, Pending
<1>2. CASE \E r \in Recorders, f \in Fingerprints, j \in 1..Depth :
             /\ access[r].row = j - 1 /\ (j > 1 => access[r].fp = f)
             /\ Increment(r, f, j)
  BY Zenon, <1>s, <1>2, IncrementAhead
<1>3. ASSUME NEW r \in Recorders, UpdateTopK(r) PROVE Ahead'
  <2>1. ASSUME NEW f \in Fingerprints, NEW i \in 1..Depth PROVE Pending(f, i)' = Pending(f, i)
    <3>1. access'[r].row = 0 /\ access[r].row = Depth /\ \A s \in Recorders : s # r => access'[s] = access[s]
      BY Zenon, <1>s, <1>3 DEF UpdateTopK, NoAccess, HotTypes
    <3>2. 0 \notin i..(Depth - 1) /\ Depth \notin i..(Depth - 1)
      BY HotDataAssumption
    <3> QED BY Zenon, <3>1, <3>2 DEF Pending
  <2> QED BY Zenon, <1>3, <2>1 DEF UpdateTopK, Ahead
<1>4. CASE DecaySketch
  <2> SUFFICES ASSUME NEW f \in Fingerprints, NEW i \in 1..Depth
               PROVE  (table[i][Hash[i][f]] >= accesses[f] + Cardinality(Pending(f, i)))'
    BY Zenon DEF Ahead
  <2>1. Pending(f, i) = {} /\ Pending(f, i)' = {}
    <3>1. ASSUME NEW s \in Recorders, access[s].row \in i..(Depth - 1) PROVE FALSE
      <4>1. access[s].row \in 1..(Depth - 1)
        BY <3>1, HotDataAssumption
      <4> QED BY Zenon, <1>4, <4>1 DEF DecaySketch, Reading
    <3> QED BY Zenon, <1>4, <3>1 DEF DecaySketch, Pending
  <2>2. table[i] \in [Buckets(i) -> Nat] /\ Hash[i][f] \in Buckets(i) /\ accesses[f] \in Nat /\ i \in DOMAIN table
    BY Zenon, <1>s, InBuckets DEF HotTypes
  <2>3. /\ table'[i][Hash[i][f]] = Decayed(table[i][Hash[i][f]])
        /\ accesses'[f] = Decayed(accesses[f])
    BY Zenon, <1>4, <2>2 DEF DecaySketch
  <2>4. table[i][Hash[i][f]] >= accesses[f] /\ table[i][Hash[i][f]] \in Nat
    BY SMTT(30), <2>1, <2>2, FS_EmptySet DEF Ahead
  <2> QED BY <2>1, <2>2, <2>3, <2>4, DecayKeepsOrder, FS_EmptySet
<1>5. CASE DecayTopK
  BY Zenon, <1>5 DEF DecayTopK, Ahead, Pending
<1> QED BY Zenon, <1>1, <1>2, <1>3, <1>4, <1>5 DEF HotStep

(* NeverUndercounts, for every number of recorders, every depth and every  *)
(* hash: however increments and decays interleave, no counter of a         *)
(* fingerprint is below the number of its accesses.                        *)
THEOREM SketchErrsUp == Spec => []NeverUndercounts
<1>1. Init => TelemetryTypes /\ Ahead
  <2> SUFFICES ASSUME Init PROVE Ahead
    BY Zenon, TelemetryInit
  <2> SUFFICES ASSUME NEW f \in Fingerprints, NEW i \in 1..Depth
               PROVE  table[i][Hash[i][f]] >= accesses[f] + Cardinality(Pending(f, i))
    BY Zenon DEF Ahead
  <2>1. Pending(f, i) = {}
    BY HotDataAssumption DEF Init, HotInit, NoAccess, Pending
  <2>2. table[i][Hash[i][f]] = 0 /\ accesses[f] = 0
    BY Zenon, InBuckets DEF Init, HotInit
  <2> QED BY <2>1, <2>2, FS_EmptySet
<1>2. TelemetryTypes /\ Ahead /\ [Next]_vars => TelemetryTypes' /\ Ahead'
  BY Zenon, TelemetryStep, AheadStep
<1>3. TelemetryTypes /\ Ahead => NeverUndercounts
  <2> SUFFICES ASSUME TelemetryTypes, Ahead, NEW f \in Fingerprints, NEW i \in 1..Depth
               PROVE  table[i][Hash[i][f]] >= accesses[f]
    BY Zenon DEF NeverUndercounts
  <2>1. table[i][Hash[i][f]] \in Nat /\ accesses[f] \in Nat
    BY Zenon, InBuckets DEF TelemetryTypes, HotTypes
  <2> QED BY <2>1, PendingFinite DEF Ahead
<1> QED BY <1>1, <1>2, <1>3, PTL DEF Spec

-----------------------------------------------------------------------------
(* TopKHeap::update keeps the heap and the map together, within K entries, *)
(* and lets a fingerprint go only from the top of the heap.                *)
LEMMA UpdateAgrees ==
  ASSUME HeapAgrees, NEW f, NEW n \in Nat, Update(f, n)
  PROVE  /\ HeapAgrees'
         /\ \A g \in DOMAIN fingerprint_to_count \ DOMAIN fingerprint_to_count' :
              /\ \A h \in DOMAIN fingerprint_to_count :
                   fingerprint_to_count[g] <= fingerprint_to_count[h]
              /\ \E h \in DOMAIN fingerprint_to_count' \ DOMAIN fingerprint_to_count :
                   fingerprint_to_count'[h] > fingerprint_to_count[g]
<1>c. PICK c : c = fingerprint_to_count
  BY Zenon
<1>d. PICK D : D = DOMAIN c
  BY Zenon
<1>1. /\ c \in [D -> Nat] /\ IsFiniteSet(D) /\ Cardinality(D) <= K /\ Cardinality(D) \in Nat
      /\ heap = {Entry(g, c[g]) : g \in D}
  BY Zenon, <1>c, <1>d, FS_CardinalityType DEF HeapAgrees, RebuildHeap
<1>k. K \in Nat \ {0}
  BY Zenon, HotDataAssumption
<1>2. CASE f \in D
  <2>1. fingerprint_to_count' = [g \in D |-> IF g = f THEN n ELSE c[g]]
    BY Zenon, <1>c, <1>d, <1>2 DEF Update, Insert
  <2>2. heap' = RebuildHeap(fingerprint_to_count')
    BY Zenon, <1>c, <1>d, <1>2 DEF Update
  <2>3. DOMAIN fingerprint_to_count' = D /\ fingerprint_to_count' \in [D -> Nat]
    BY Zenon, <1>1, <2>1
  <2>4. HeapAgrees'
    BY Zenon, <1>1, <2>2, <2>3 DEF HeapAgrees
  <2> QED BY Zenon, <1>c, <1>d, <2>3, <2>4
<1>3. CASE f \notin D /\ Cardinality(D) < K
  <2>1. fingerprint_to_count' = [g \in D \cup {f} |-> IF g = f THEN n ELSE c[g]]
    BY Zenon, <1>c, <1>d, <1>3 DEF Update, Insert
  <2>2. heap' = heap \cup {Entry(f, n)}
    BY Zenon, <1>c, <1>d, <1>3 DEF Update
  <2>3. DOMAIN fingerprint_to_count' = D \cup {f} /\ fingerprint_to_count' \in [D \cup {f} -> Nat]
    BY Zenon, <1>1, <2>1
  <2>4. heap' = RebuildHeap(fingerprint_to_count')
    <3>1. RebuildHeap(fingerprint_to_count') = {Entry(g, fingerprint_to_count'[g]) : g \in D \cup {f}}
      BY Zenon, <2>3 DEF RebuildHeap
    <3>2. fingerprint_to_count'[f] = n /\ \A g \in D : fingerprint_to_count'[g] = c[g]
      BY Zenon, <1>3, <2>1
    <3> QED BY Zenon, <1>1, <2>2, <3>1, <3>2
  <2>5. IsFiniteSet(D \cup {f}) /\ Cardinality(D \cup {f}) <= K
    <3>1. IsFiniteSet(D \cup {f}) /\ Cardinality(D \cup {f}) = Cardinality(D) + 1
      BY Zenon, <1>1, <1>3, FS_AddElement
    <3> QED BY <1>1, <1>3, <1>k, <3>1
  <2>6. HeapAgrees'
    BY Zenon, <2>3, <2>4, <2>5 DEF HeapAgrees
  <2> QED BY Zenon, <1>c, <1>d, <2>3, <2>6
<1>4. CASE f \notin D /\ ~(Cardinality(D) < K)
  <2>0. PICK top \in Peek :
          IF n > top.access_count
          THEN /\ fingerprint_to_count' =
                    Insert([g \in DOMAIN fingerprint_to_count \ {top.fingerprint}
                              |-> fingerprint_to_count[g]], f, n)
               /\ heap' = (heap \ {top}) \cup {Entry(f, n)}
          ELSE UNCHANGED <<fingerprint_to_count, heap>>
    BY Zenon, <1>c, <1>d, <1>4 DEF Update
  <2>t. PICK t \in D : top = Entry(t, c[t])
    BY Zenon, <1>1 DEF Peek
  <2>u. top.fingerprint = t /\ top.access_count = c[t]
    BY Zenon, <2>t DEF Entry
  <2>1. CASE n > c[t]
    <3>e. PICK E : E = (D \ {t}) \cup {f}
      BY Zenon
    <3>1. fingerprint_to_count' = [g \in E |-> IF g = f THEN n ELSE c[g]]
      <4>1. DOMAIN [g \in D \ {t} |-> c[g]] \cup {f} = E
        BY Zenon, <3>e
      <4>2. fingerprint_to_count' = Insert([g \in D \ {t} |-> c[g]], f, n)
        BY <1>c, <1>d, <2>0, <2>u, <2>1
      <4>3. fingerprint_to_count' = [g \in E |-> IF g = f THEN n ELSE [h \in D \ {t} |-> c[h]][g]]
        BY Zenon, <4>1, <4>2 DEF Insert
      <4>4. \A g \in E : g = f \/ [h \in D \ {t} |-> c[h]][g] = c[g]
        BY Zenon, <3>e
      <4> QED BY Zenon, <4>3, <4>4
    <3>2. heap' = (heap \ {Entry(t, c[t])}) \cup {Entry(f, n)}
      BY Zenon, <2>0, <2>t, <2>u, <2>1
    <3>3. DOMAIN fingerprint_to_count' = E /\ fingerprint_to_count' \in [E -> Nat]
      BY Zenon, <1>1, <3>1, <3>e
    <3>4. heap \ {Entry(t, c[t])} = {Entry(g, c[g]) : g \in D \ {t}}
      BY <1>1 DEF Entry
    <3>5. heap' = RebuildHeap(fingerprint_to_count')
      <4>1. RebuildHeap(fingerprint_to_count') = {Entry(g, fingerprint_to_count'[g]) : g \in E}
        BY Zenon, <3>3 DEF RebuildHeap
      <4>2. \A g \in D \ {t} : g \in E /\ fingerprint_to_count'[g] = c[g]
        BY Zenon, <1>4, <3>1, <3>e
      <4>3. f \in E /\ fingerprint_to_count'[f] = n
        BY Zenon, <3>1, <3>e
      <4> QED BY <3>2, <3>4, <3>e, <4>1, <4>2, <4>3
    <3>6. IsFiniteSet(E) /\ Cardinality(E) <= K
      <4>1. IsFiniteSet(D \ {t}) /\ Cardinality(D \ {t}) = Cardinality(D) - 1
        BY Zenon, <1>1, FS_RemoveElement
      <4>2. IsFiniteSet(E) /\ Cardinality(E) = Cardinality(D) - 1 + 1
        BY Zenon, <1>4, <3>e, <4>1, FS_AddElement
      <4> QED BY <1>1, <1>k, <4>2
    <3>7. HeapAgrees'
      BY Zenon, <3>3, <3>5, <3>6 DEF HeapAgrees
    <3>8. \A g \in D \ E : g = t
      BY Zenon, <3>e
    <3>9. \A h \in D : c[t] <= c[h]
      <4> SUFFICES ASSUME NEW h \in D PROVE c[t] <= c[h]
        BY Zenon
      <4>1. Entry(h, c[h]) \in heap
        BY Zenon, <1>1
      <4>2. top.access_count <= Entry(h, c[h]).access_count
        BY Zenon, <4>1 DEF Peek
      <4> QED BY Zenon, <2>u, <4>2 DEF Entry
    <3>10. f \in E \ D /\ fingerprint_to_count'[f] > c[t]
      BY Zenon, <1>4, <2>1, <3>1, <3>e
    <3> QED BY Zenon, <1>c, <1>d, <3>3, <3>7, <3>8, <3>9, <3>10
  <2>2. CASE ~(n > c[t])
    <3>1. UNCHANGED <<fingerprint_to_count, heap>>
      BY Zenon, <2>0, <2>u, <2>2
    <3> QED BY Zenon, <3>1 DEF HeapAgrees
  <2> QED BY Zenon, <2>1, <2>2
<1> QED BY Zenon, <1>2, <1>3, <1>4

(* What EvictsColdest says of one step.                                    *)
Evicts ==
    LET old == fingerprint_to_count
        new == fingerprint_to_count'
    IN
    /\ Cardinality(DOMAIN new) <= K
    /\ \A f \in DOMAIN old \ DOMAIN new :
         /\ \A g \in DOMAIN old : old[f] <= old[g]
         /\ \E g \in DOMAIN new \ DOMAIN old : new[g] > old[f]

(* Every step keeps the heap and the map together, and evicts the coldest. *)
LEMMA HeapStep == TelemetryTypes /\ HeapAgrees /\ [Next]_vars => HeapAgrees' /\ Evicts
<1> SUFFICES ASSUME TelemetryTypes, HeapAgrees, HotStep PROVE HeapAgrees' /\ Evicts
  BY Zenon, NextIsHotStep
<1>s. HotTypes
  BY Zenon DEF TelemetryTypes
<1>1. ASSUME UNCHANGED <<fingerprint_to_count, heap>> PROVE HeapAgrees' /\ Evicts
  BY Zenon, <1>1 DEF HeapAgrees, Evicts
<1>2. ASSUME NEW r \in Recorders, NEW f \in Fingerprints, NEW j \in 1..Depth, Increment(r, f, j)
      PROVE  HeapAgrees' /\ Evicts
  BY Zenon, <1>1, <1>2 DEF Increment
<1>3. ASSUME NEW r \in Recorders, UpdateTopK(r) PROVE HeapAgrees' /\ Evicts
  <2>1. access[r].min \in Nat
    BY Zenon, <1>s DEF HotTypes, Accesses
  <2>2. Update(access[r].fp, access[r].min)
    BY Zenon, <1>3 DEF UpdateTopK
  <2> QED BY Zenon, <2>1, <2>2, UpdateAgrees DEF Evicts, HeapAgrees
<1>4. CASE DecaySketch
  BY Zenon, <1>1, <1>4 DEF DecaySketch
<1>5. CASE DecayTopK
  <2>1. /\ DOMAIN fingerprint_to_count' = DOMAIN fingerprint_to_count
        /\ fingerprint_to_count' \in [DOMAIN fingerprint_to_count -> Nat]
    BY Zenon, <1>5, DecayKeepsOrder DEF DecayTopK, HeapAgrees
  <2> QED BY Zenon, <1>5, <2>1 DEF DecayTopK, HeapAgrees, Evicts
<1> QED BY Zenon, <1>1, <1>2, <1>3, <1>4, <1>5 DEF HotStep, hotVars

(* EvictsColdest, for every K and however stale the estimate is that       *)
(* record_access brings to TopKHeap::update.                               *)
THEOREM ColdestLeaves == Spec => EvictsColdest
<1>1. Init => TelemetryTypes /\ HeapAgrees
  <2> SUFFICES ASSUME Init PROVE HeapAgrees
    BY Zenon, TelemetryInit
  <2>1. DOMAIN fingerprint_to_count = {} /\ fingerprint_to_count \in [{} -> Nat] /\ heap = {}
    BY DEF Init, HotInit
  <2> QED BY <2>1, FS_EmptySet, HotDataAssumption DEF HeapAgrees, RebuildHeap
<1>2. TelemetryTypes /\ HeapAgrees /\ [Next]_vars
        => /\ TelemetryTypes' /\ HeapAgrees'
           /\ [LET old == fingerprint_to_count
                   new == fingerprint_to_count'
               IN
               /\ Cardinality(DOMAIN new) <= K
               /\ \A f \in DOMAIN old \ DOMAIN new :
                    /\ \A g \in DOMAIN old : old[f] <= old[g]
                    /\ \E g \in DOMAIN new \ DOMAIN old : new[g] > old[f]]_hotVars
  BY Zenon, TelemetryStep, HeapStep DEF Evicts
<1> QED BY <1>1, <1>2, PTL DEF Spec, EvictsColdest
=============================================================================
