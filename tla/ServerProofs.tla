---------------------------- MODULE ServerProofs ----------------------------
(***************************************************************************)
(* Proofs about the accept loop, the client registry, KILL and the drain,  *)
(* for any number of connections and any max_connections.                  *)
(***************************************************************************)
EXTENDS Server, FiniteSetTheorems, TLAPS

(* Stages of a task that has registered or has run past that point.        *)
Registered == {"serving", "leaving", "entry", "handle", "done"}

(* The counter never falls behind the connections being handled, and runs  *)
(* ahead of them only once the drain aborts tasks that were never polled.  *)
CountInv ==
    /\ Cardinality(Live) <= active
    /\ mode \in {"accepting", "draining"} => active = Cardinality(Live)

(* What KILL has found or aborted had registered, with the database it     *)
(* names; so before the drain aborts, no aborted task lacks its guard.     *)
KilledRegistered ==
    /\ \A c \in kill.matched : task[c] \in Registered /\ db[c] = kill.db
    /\ mode \in {"accepting", "draining"} => \A c \in aborted : task[c] \in Registered

(* run() waits for every task that has not ended.                          *)
Joined == \A c \in Conns : task[c] \notin {"none", "refused", "done"} => c \in joinSet

DrainInv ==
    /\ mode = "drained" => joinSet = {}
    /\ drainComplete => mode = "drained"
    /\ mode = "drained" /\ waiting # {} => drainComplete

(* The inductive invariant.                                                *)
IInv == TypeOK /\ CountInv /\ KilledRegistered /\ Joined /\ DrainInv /\ NoStaleEntry

(* Finitely many handler tasks are alive.                                  *)
LEMMA LiveFinite == IsFiniteSet(Live) /\ Cardinality(Live) \in Nat
  BY Zenon, ServerAssumption, FS_Subset, FS_CardinalityType DEF Live

(* The first state satisfies the invariant.                                *)
LEMMA InitInv == Init => IInv
<1> SUFFICES ASSUME Init PROVE IInv
  BY Zenon
<1>1. TypeOK
  <2>1. kill \in [by : Conns \cup {NoConn}, db : Identities,
                  matched : SUBSET Conns, aborting : BOOLEAN]
    BY Zenon DEF Init, Identities, NoKill
  <2>2. active \in 0..MaxConnections
    BY ServerAssumption DEF Init
  <2>3. task \in [Conns -> Stages] /\ db \in [Conns -> Identities]
    BY Zenon DEF Init, Stages, Identities
  <2> QED BY Zenon, <2>1, <2>2, <2>3 DEF Init, TypeOK
<1>2. CountInv
  <2>1. Live = {}
    BY Zenon DEF Init, Live
  <2> QED BY <2>1, FS_EmptySet DEF Init, CountInv
<1> QED
  BY Zenon, <1>1, <1>2
  DEF Init, IInv, KilledRegistered, Joined, DrainInv, NoStaleEntry, NoKill

-----------------------------------------------------------------------------
(* A step that neither starts nor ends a connection and does not move the  *)
(* mode back keeps the count.                                              *)
LEMMA SameCount ==
  ASSUME CountInv, Live' = Live, UNCHANGED active,
         mode' \in {"accepting", "draining"} => mode \in {"accepting", "draining"}
  PROVE  CountInv'
BY Zenon DEF CountInv

(* Every step of Next preserves the inductive invariant.                   *)
LEMMA NextInv == IInv /\ [Next]_vars => IInv'
<1> SUFFICES ASSUME IInv, [Next]_vars PROVE IInv'
  BY Zenon
<1> USE ServerAssumption
<1> USE DEF GoTo, IInv
<1>0. CASE UNCHANGED vars
  <2>1. Live' = Live
    BY Zenon, <1>0 DEF vars, Live
  <2>2. CountInv'
    BY Zenon, <1>0, <2>1, SameCount DEF vars, serverVars
  <2> QED
    BY <1>0, <2>2
    DEF vars, serverVars, registryVars, TypeOK, KilledRegistered, Joined, DrainInv, NoStaleEntry
<1>1. ASSUME NEW c \in Conns, Accept(c)
      PROVE  IInv'
  <2>1. TypeOK'
    BY <1>1 DEF Accept, TypeOK, Stages, registryVars
  <2>2. CountInv'
    <3>1. CASE active >= MaxConnections
      <4>1. Live' = Live
        BY <1>1, <3>1 DEF Accept, Live, TypeOK
      <4> QED BY Zenon, <1>1, <3>1, <4>1, SameCount DEF Accept
    <3>2. CASE ~(active >= MaxConnections)
      <4>1. Live' = Live \cup {c} /\ c \notin Live
        BY <1>1, <3>2 DEF Accept, Live, TypeOK
      <4>2. Cardinality(Live') = Cardinality(Live) + 1
        BY Zenon, <4>1, LiveFinite, FS_AddElement
      <4> QED BY <1>1, <3>2, <4>2, LiveFinite DEF Accept, CountInv, TypeOK
    <3> QED BY Zenon, <3>1, <3>2
  <2>3. KilledRegistered' /\ NoStaleEntry'
    BY <1>1 DEF Accept, KilledRegistered, Registered, NoStaleEntry, TypeOK, registryVars
  <2>4. Joined' /\ DrainInv'
    BY <1>1 DEF Accept, Joined, DrainInv, TypeOK
  <2> QED BY Zenon, <2>1, <2>2, <2>3, <2>4
<1>2. ASSUME RegisterAbortHandle
      PROVE  IInv'
  <2>1. Live' = Live
    BY Zenon, <1>2 DEF RegisterAbortHandle, Live
  <2>2. CountInv'
    BY Zenon, <1>2, <2>1, SameCount DEF RegisterAbortHandle
  <2> QED
    BY <1>2, <2>2
    DEF RegisterAbortHandle, TypeOK, KilledRegistered, Joined, DrainInv, NoStaleEntry
<1>3. ASSUME NEW c \in Conns, Start(c)
      PROVE  IInv'
  <2>1. Live' = Live
    BY Zenon, <1>3 DEF Start, Live, TypeOK
  <2>2. CountInv'
    BY Zenon, <1>3, <2>1, SameCount DEF Start, serverVars
  <2>3. TypeOK'
    BY Zenon, <1>3 DEF Start, TypeOK, Stages, serverVars, registryVars
  <2> QED
    BY <1>3, <2>2, <2>3
    DEF Start, TypeOK, KilledRegistered, Registered, Joined, DrainInv, NoStaleEntry, serverVars,
        registryVars
<1>4. ASSUME NEW c \in Conns, Register(c)
      PROVE  IInv'
  <2>1. Live' = Live
    BY Zenon, <1>4 DEF Register, Live, TypeOK
  <2>2. CountInv'
    BY Zenon, <1>4, <2>1, SameCount DEF Register, serverVars
  <2>3. TypeOK'
    BY <1>4 DEF Register, TypeOK, Stages, serverVars
  <2>4. KilledRegistered' /\ NoStaleEntry'
    BY <1>4 DEF Register, KilledRegistered, Registered, NoStaleEntry, TypeOK, serverVars
  <2>5. Joined' /\ DrainInv'
    BY <1>4 DEF Register, Joined, DrainInv, TypeOK, serverVars
  <2> QED BY Zenon, <2>2, <2>3, <2>4, <2>5
<1>5. ASSUME NEW c \in Conns, Leave(c)
      PROVE  IInv'
  <2>1. Live' = Live
    BY Zenon, <1>5 DEF Leave, Live, TypeOK
  <2>2. CountInv'
    BY Zenon, <1>5, <2>1, SameCount DEF Leave, serverVars
  <2>3. TypeOK'
    BY <1>5 DEF Leave, TypeOK, Stages, serverVars, registryVars
  <2> QED
    BY <1>5, <2>2, <2>3
    DEF Leave, TypeOK, KilledRegistered, Registered, Joined, DrainInv, NoStaleEntry, serverVars,
        registryVars
<1>6. ASSUME NEW c \in Conns, Cancel(c)
      PROVE  IInv'
  <2>1. TypeOK'
    BY <1>6 DEF Cancel, TypeOK, Stages, serverVars, registryVars
  <2>2. CountInv'
    <3>1. CASE task[c] = "spawned"
      <4>1. mode \notin {"accepting", "draining"}
        BY Zenon, <1>6, <3>1 DEF Cancel, KilledRegistered, Registered
      <4>2. Live' = Live \ {c} /\ c \in Live
        BY Zenon, <1>6, <3>1 DEF Cancel, Live, TypeOK
      <4>3. Cardinality(Live') = Cardinality(Live) - 1
        BY Zenon, <4>2, LiveFinite, FS_RemoveElement
      <4> QED BY <1>6, <4>1, <4>3, LiveFinite DEF Cancel, CountInv, TypeOK, serverVars
    <3>2. CASE task[c] \in {"starting", "serving"}
      <4>1. Live' = Live
        BY Zenon, <1>6, <3>2 DEF Cancel, Live, TypeOK
      <4> QED BY Zenon, <1>6, <4>1, SameCount DEF Cancel, serverVars
    <3> QED BY Zenon, <1>6, <3>1, <3>2 DEF Cancel
  <2>3. KilledRegistered' /\ NoStaleEntry'
    BY <1>6
    DEF Cancel, KilledRegistered, Registered, NoStaleEntry, TypeOK, serverVars, registryVars
  <2>4. Joined' /\ DrainInv'
    BY <1>6 DEF Cancel, Joined, DrainInv, TypeOK, serverVars
  <2> QED BY Zenon, <2>1, <2>2, <2>3, <2>4
<1>7. ASSUME NEW c \in Conns, DropCount(c)
      PROVE  IInv'
  <2>1. Live' = Live \ {c} /\ c \in Live
    BY Zenon, <1>7 DEF DropCount, Live, TypeOK
  <2>2. Cardinality(Live') = Cardinality(Live) - 1 /\ Cardinality(Live') \in Nat
    BY Zenon, <2>1, LiveFinite, FS_RemoveElement, FS_CardinalityType
  <2>3. CountInv'
    BY <1>7, <2>2, LiveFinite DEF DropCount, CountInv, TypeOK, serverVars
  <2>4. TypeOK'
    <3>1. active - 1 \in 0..MaxConnections
      BY <2>2, LiveFinite DEF CountInv, TypeOK
    <3> QED BY Zenon, <1>7, <3>1 DEF DropCount, TypeOK, Stages, serverVars, registryVars
  <2>5. KilledRegistered' /\ NoStaleEntry'
    BY <1>7
    DEF DropCount, KilledRegistered, Registered, NoStaleEntry, TypeOK, serverVars, registryVars
  <2>6. Joined' /\ DrainInv'
    BY <1>7 DEF DropCount, Joined, DrainInv, TypeOK, serverVars
  <2> QED BY Zenon, <2>3, <2>4, <2>5, <2>6
<1>8. ASSUME NEW c \in Conns, DeregisterEntry(c)
      PROVE  IInv'
  <2>1. Live' = Live
    BY Zenon, <1>8 DEF DeregisterEntry, Live, TypeOK
  <2>2. CountInv'
    BY Zenon, <1>8, <2>1, SameCount DEF DeregisterEntry, serverVars
  <2>3. TypeOK'
    BY <1>8 DEF DeregisterEntry, TypeOK, Stages, serverVars
  <2> QED
    BY <1>8, <2>2, <2>3
    DEF DeregisterEntry, TypeOK, KilledRegistered, Registered, Joined, DrainInv, NoStaleEntry,
        serverVars
<1>9. ASSUME NEW c \in Conns, DeregisterHandle(c)
      PROVE  IInv'
  <2>1. Live' = Live
    BY Zenon, <1>9 DEF DeregisterHandle, Live, TypeOK
  <2>2. CountInv'
    BY Zenon, <1>9, <2>1, SameCount DEF DeregisterHandle, serverVars
  <2>3. TypeOK'
    BY Zenon, <1>9 DEF DeregisterHandle, TypeOK, Stages, serverVars
  <2> QED
    BY <1>9, <2>2, <2>3
    DEF DeregisterHandle, TypeOK, KilledRegistered, Registered, Joined, DrainInv, NoStaleEntry,
        serverVars
<1>10. ASSUME NEW a \in Conns, NEW d \in Databases, KillMatch(a, d)
       PROVE  IInv'
  <2>1. Live' = Live
    BY Zenon, <1>10 DEF KillMatch, Live
  <2>2. CountInv'
    BY Zenon, <1>10, <2>1, SameCount DEF KillMatch, serverVars
  <2>3. TypeOK'
    BY Zenon, <1>10 DEF KillMatch, TypeOK, Identities, serverVars, registryVars
  <2>4. KilledRegistered'
    BY Zenon, <1>10
    DEF KillMatch, TypeOK, KilledRegistered, Registered, NoStaleEntry, serverVars, registryVars
  <2> QED
    BY Zenon, <1>10, <2>2, <2>3, <2>4
    DEF KillMatch, Joined, DrainInv, NoStaleEntry, serverVars, registryVars
<1>11. ASSUME KillAbort
       PROVE  IInv'
  <2>1. Live' = Live
    BY Zenon, <1>11 DEF KillAbort, Live
  <2>2. CountInv'
    BY Zenon, <1>11, <2>1, SameCount DEF KillAbort, serverVars
  <2>3. TypeOK'
    BY Zenon, <1>11 DEF KillAbort, TypeOK, serverVars
  <2>4. KilledRegistered'
    BY Zenon, <1>11 DEF KillAbort, TypeOK, KilledRegistered, serverVars
  <2> QED
    BY Zenon, <1>11, <2>2, <2>3, <2>4 DEF KillAbort, Joined, DrainInv, NoStaleEntry, serverVars
<1>12. ASSUME KillRemove
       PROVE  IInv'
  <2>1. Live' = Live
    BY Zenon, <1>12 DEF KillRemove, Live
  <2>2. CountInv'
    BY Zenon, <1>12, <2>1, SameCount DEF KillRemove, serverVars
  <2>3. TypeOK'
    BY Zenon, <1>12 DEF KillRemove, TypeOK, NoKill, Identities, serverVars
  <2> QED
    BY Zenon, <1>12, <2>2, <2>3
    DEF KillRemove, NoKill, KilledRegistered, Joined, DrainInv, NoStaleEntry, serverVars
<1>13. ASSUME NEW a \in Conns \cup {Outside}, NEW wait \in BOOLEAN, Shutdown(a, wait)
       PROVE  IInv'
  <2>1. Live' = Live
    BY Zenon, <1>13 DEF Shutdown, Live
  <2>2. CountInv'
    BY Zenon, <1>13, <2>1, SameCount DEF Shutdown
  <2>3. TypeOK'
    BY Zenon, <1>13 DEF Shutdown, TypeOK, registryVars
  <2> QED
    BY Zenon, <1>13, <2>2, <2>3
    DEF Shutdown, KilledRegistered, Joined, DrainInv, NoStaleEntry, registryVars
<1>14. ASSUME NEW a \in Conns \cup {Outside}, WaitEnds(a)
       PROVE  IInv'
  <2>1. Live' = Live
    BY Zenon, <1>14 DEF WaitEnds, Live
  <2>2. CountInv'
    BY Zenon, <1>14, <2>1, SameCount DEF WaitEnds, serverVars
  <2> QED
    BY Zenon, <1>14, <2>2
    DEF WaitEnds, TypeOK, KilledRegistered, Joined, DrainInv, NoStaleEntry, serverVars,
        registryVars
<1>15. ASSUME NEW signal \in BOOLEAN, StopAccepting(signal)
       PROVE  IInv'
  <2>1. Live' = Live
    BY Zenon, <1>15 DEF StopAccepting, Live
  <2>2. CountInv'
    BY Zenon, <1>15, <2>1, SameCount DEF StopAccepting
  <2> QED
    BY Zenon, <1>15, <2>2
    DEF StopAccepting, TypeOK, KilledRegistered, Joined, DrainInv, NoStaleEntry, registryVars
<1>16. ASSUME NEW c \in Conns, JoinNext(c)
       PROVE  IInv'
  <2>1. Live' = Live
    BY Zenon, <1>16 DEF JoinNext, Live
  <2>2. CountInv'
    BY Zenon, <1>16, <2>1, SameCount DEF JoinNext
  <2> QED
    BY <1>16, <2>2
    DEF JoinNext, TypeOK, KilledRegistered, Joined, DrainInv, NoStaleEntry, registryVars
<1>17. ASSUME DrainTimeout
       PROVE  IInv'
  <2>1. Live' = Live
    BY Zenon, <1>17 DEF DrainTimeout, Live
  <2>2. CountInv'
    BY Zenon, <1>17, <2>1, SameCount DEF DrainTimeout
  <2> QED
    BY Zenon, <1>17, <2>2
    DEF DrainTimeout, TypeOK, KilledRegistered, Joined, DrainInv, NoStaleEntry, registryVars
<1>18. ASSUME Drained
       PROVE  IInv'
  <2>1. Live' = Live
    BY Zenon, <1>18 DEF Drained, Live
  <2>2. CountInv'
    BY Zenon, <1>18, <2>1, SameCount DEF Drained
  <2> QED
    BY Zenon, <1>18, <2>2
    DEF Drained, TypeOK, KilledRegistered, Joined, DrainInv, NoStaleEntry, registryVars
<1> QED
  BY ZenonT(30), <1>0, <1>1, <1>2, <1>3, <1>4, <1>5, <1>6, <1>7, <1>8, <1>9, <1>10, <1>11, <1>12, <1>13,
     <1>14, <1>15, <1>16, <1>17, <1>18
  DEF Next, Guard, Killing

-----------------------------------------------------------------------------
(* The invariant holds in every reachable state.                           *)
LEMMA AlwaysIInv == Spec => []IInv
<1>1. Init => IInv
  BY Zenon, InitInv
<1>2. IInv /\ [Next]_vars => IInv'
  BY Zenon, NextInv
<1> QED BY <1>1, <1>2, PTL DEF Spec

(* Type correctness; above all, active_connections neither underflows nor  *)
(* passes max_connections, for any order of accepts, aborts and guards.    *)
THEOREM ServerTypes == Spec => []TypeOK
<1>1. IInv => TypeOK
  BY Zenon DEF IInv
<1> QED BY <1>1, AlwaysIInv, PTL

(* The connection limit holds and the counter it relies on is exact, for   *)
(* any number of connections: a KILL never aborts a task before its count  *)
(* guard exists.                                                           *)
THEOREM CountExact == Spec => []CountIsExact
<1>1. IInv => CountIsExact
  BY LiveFinite, ServerAssumption DEF IInv, CountInv, CountIsExact, TypeOK
<1> QED BY <1>1, AlwaysIInv, PTL

(* The registry lists no connection that is gone.                          *)
THEOREM RegistryFresh == Spec => []NoStaleEntry
<1>1. IInv => NoStaleEntry
  BY Zenon DEF IInv
<1> QED BY <1>1, AlwaysIInv, PTL

(* A completed drain leaves no task and no entry, and whoever waits in     *)
(* SHUTDOWN WAIT then finds the watch set.                                 *)
THEOREM DrainIsTrue == Spec => []DrainedMeansGone
<1>1. IInv => DrainedMeansGone
  <2> SUFFICES ASSUME IInv PROVE DrainedMeansGone
    BY Zenon
  <2>1. ASSUME mode = "drained"
        PROVE  Live = {} /\ entries = {}
    BY ZenonT(30), <2>1 DEF IInv, Joined, DrainInv, NoStaleEntry, TypeOK, Live
  <2> QED BY Zenon, <2>1 DEF IInv, DrainInv, DrainedMeansGone
<1> QED BY <1>1, AlwaysIInv, PTL

(* KILL aborts no session of another database, although the registry is    *)
(* unlocked between the matching and the aborting.                         *)
THEOREM KillIsPrecise == Spec => KillsOnlyMatching
<1>1. ASSUME IInv, [Next]_vars
      PROVE  [\A c \in aborted' \ aborted : mode' = "aborting" \/ db[c] = kill.db]_vars
  <2>1. CASE KillAbort
    BY Zenon, <1>1, <2>1 DEF KillAbort, IInv, KilledRegistered
  <2>2. CASE DrainTimeout
    BY Zenon, <2>2 DEF DrainTimeout
  <2>3. CASE UNCHANGED aborted
    BY Zenon, <2>3
  <2> QED
    BY <1>1, <2>1, <2>2, <2>3
    DEF Next, vars, Guard, Killing, Accept, RegisterAbortHandle, Start, Register, Leave, Cancel,
        DropCount, DeregisterEntry, DeregisterHandle, KillMatch, KillRemove, Shutdown, WaitEnds,
        StopAccepting, JoinNext, Drained
<1> QED BY <1>1, AlwaysIInv, PTL DEF Spec, KillsOnlyMatching
=============================================================================
