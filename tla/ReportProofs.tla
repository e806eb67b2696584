---------------------------- MODULE ReportProofs ----------------------------
(***************************************************************************)
(* Proofs about what the console reports: that no pool of the gateway      *)
(* lends more backends than its size, and that SHOW tells the truth.       *)
(* Counting needs the theorems about finite sets, so these stand apart     *)
(* from GatewayProofs.                                                     *)
(***************************************************************************)
EXTENDS GatewayProofs, FiniteSetTheorems

(* No pool has lent more than its size.                                    *)
SizesFit == \A key \in PoolKeys : InUse(key) <= PoolSize(key)

(* What one pool has lent is finite, and no more for a task less.          *)
LEMMA LentLess ==
  ASSUME NEW key, Lent(key)' \subseteq Lent(key), InUse(key) <= PoolSize(key),
         PoolSize(key) \in Nat
  PROVE  InUse(key)' <= PoolSize(key)
<1>1. IsFiniteSet(Lent(key)) /\ IsFiniteSet(Lent(key)')
  BY StartupAssumption, FS_Subset DEF Lent
<1>2. Cardinality(Lent(key)') <= Cardinality(Lent(key))
  BY <1>1, FS_Subset, Zenon
<1>3. Cardinality(Lent(key)') \in Nat /\ Cardinality(Lent(key)) \in Nat
  BY <1>1, FS_CardinalityType, Zenon
<1>4. InUse(key) = Cardinality(Lent(key)) /\ InUse(key)' = Cardinality(Lent(key)')
  BY Zenon DEF InUse, Lent
<1> QED
  BY <1>2, <1>3, <1>4

(* One more task, and a pool that had room still keeps to its size.        *)
LEMMA LentMore ==
  ASSUME NEW key, NEW c, Lent(key)' \subseteq Lent(key) \cup {c},
         InUse(key) < PoolSize(key), PoolSize(key) \in Nat
  PROVE  InUse(key)' <= PoolSize(key)
<1>1. IsFiniteSet(Lent(key))
  BY StartupAssumption, FS_Subset, Zenon DEF Lent
<1>2. IsFiniteSet(Lent(key) \cup {c})
  BY <1>1, FS_AddElement, Zenon
<1>3. Cardinality(Lent(key) \cup {c}) <= Cardinality(Lent(key)) + 1
  <2>1. Cardinality(Lent(key)) \in Nat
    BY <1>1, FS_CardinalityType, Zenon
  <2>2. CASE c \in Lent(key)
    <3>1. Lent(key) \cup {c} = Lent(key)
      BY <2>2, Zenon
    <3>2. Cardinality(Lent(key) \cup {c}) = Cardinality(Lent(key))
      BY <3>1, Zenon
    <3> QED
      BY <2>1, <3>2
  <2>3. CASE c \notin Lent(key)
    <3>1. Cardinality(Lent(key) \cup {c}) = Cardinality(Lent(key)) + 1
      BY <1>1, <2>3, FS_AddElement, Zenon
    <3> QED
      BY <2>1, <3>1
  <2> QED
    BY <2>2, <2>3, Zenon
<1>4. Cardinality(Lent(key)') <= Cardinality(Lent(key) \cup {c}) /\ IsFiniteSet(Lent(key)')
  BY <1>2, FS_Subset, Zenon
<1>5. /\ Cardinality(Lent(key)') \in Nat /\ Cardinality(Lent(key)) \in Nat
      /\ Cardinality(Lent(key) \cup {c}) \in Nat
  BY <1>1, <1>2, <1>4, FS_CardinalityType, Zenon
<1>6. InUse(key) = Cardinality(Lent(key)) /\ InUse(key)' = Cardinality(Lent(key)')
  BY Zenon DEF InUse, Lent
<1> QED
  BY <1>3, <1>4, <1>5, <1>6

(* A pool's size is a number.                                              *)
LEMMA SizesAreNumbers ==
  ASSUME Deserializes(settings), NEW key \in PoolKeys
  PROVE  PoolSize(key) \in Nat
<1>1. settings.pool_size \in Nat
  BY Zenon DEF Deserializes
<1>2. key \in Databases => SizeOverride[key] \in Nat \cup {Absent}
  BY StartupAssumption, Zenon
<1> QED
  BY <1>1, <1>2, Zenon DEF PoolSize

(* No pool lends more than its size, however many tasks wait for it: the   *)
(* bound that acquire keeps and SHOW POOLS relies on.                      *)
THEOREM PoolsKeepToSize == Spec => []SizesFit
<1>1. Inv /\ Init => SizesFit
  <2> SUFFICES ASSUME Inv, Init, NEW key \in PoolKeys PROVE InUse(key) <= PoolSize(key)
    BY Zenon DEF SizesFit
  <2>1. conn = [c \in Conns |-> NewConn] /\ NewConn.backend = "none"
    BY Zenon DEF Init, StartupInit, NewConn
  <2>2. {c \in Conns : conn[c].pool = key /\ conn[c].backend # "none"} = {}
    BY <2>1, Zenon
  <2>3. InUse(key) = 0
    BY <2>2, FS_EmptySet, Zenon DEF InUse
  <2>4. PoolSize(key) \in Nat
    BY SizesAreNumbers, Zenon DEF Inv, Accepted
  <2> QED
    BY <2>3, <2>4, SMT
<1>2. Inv /\ SizesFit /\ [Next]_vars => SizesFit'
  <2> SUFFICES ASSUME Inv, SizesFit, [Next]_vars PROVE SizesFit'
    BY Zenon
  <2>1. \/ settings' = settings /\ conn' = conn
        \/ settings' = settings /\ \E c \in Conns : Borrows(c)
    BY NextSteps, Stutters, Zenon DEF Rests, Advances
  <2>2. PoolKeys' = PoolKeys /\ \A key : PoolSize(key)' = PoolSize(key)
    BY <2>1, PoolsStay, Zenon
  <2>3. CASE conn' = conn
    BY <2>2, <2>3, Zenon DEF SizesFit, InUse
  <2>4. ASSUME NEW c \in Conns, Borrows(c), NEW key \in PoolKeys
        PROVE  InUse(key)' <= PoolSize(key)
    <3>1. PoolSize(key) \in Nat /\ InUse(key) <= PoolSize(key)
      BY SizesAreNumbers, Zenon DEF Inv, Accepted, SizesFit
    <3>2. CASE Lent(key)' \subseteq Lent(key)
      BY <3>1, <3>2, LentLess, Zenon
    <3>3. CASE InUse(key) < PoolSize(key) /\ Lent(key)' \subseteq Lent(key) \cup {c}
      BY <3>1, <3>3, LentMore, Zenon
    <3> QED
      BY <2>4, <3>2, <3>3, Zenon DEF Borrows
  <2> QED
    BY <2>1, <2>2, <2>3, <2>4, Zenon DEF SizesFit
<1> QED
  BY <1>1, <1>2, InvHolds, PTL DEF Spec

-----------------------------------------------------------------------------
(* A client that asks for the name of a row is routed to the row's pool,   *)
(* if no other row has the name.                                           *)
LEMMA RowOf ==
  ASSUME NEW e \in DatabaseEntries, Unambiguous(e)
  PROVE  PoolOf(e.name) = IF e.pool_key \in PoolKeys THEN e.pool_key ELSE Absent
<1>1. PoolKeys = {} \/ PoolKeys = Databases \cup {Star}
  BY Zenon DEF PoolKeys
<1>2. \/ e.name = DefaultName /\ e.pool_key = Star
      \/ e.name \in Databases /\ e.pool_key = e.name
  BY Rows, Zenon
<1>3. CASE PoolKeys = {}
  BY <1>3, Zenon DEF PoolOf
<1>4. CASE PoolKeys = Databases \cup {Star} /\ e.name \in Databases /\ e.pool_key = e.name
  BY <1>4, Zenon DEF PoolOf
<1>5. CASE /\ PoolKeys = Databases \cup {Star} /\ e.name = DefaultName /\ e.pool_key = Star
           /\ e.name \notin Databases
  BY <1>5, Zenon DEF PoolOf
<1>6. CASE /\ PoolKeys = Databases \cup {Star} /\ e.name = DefaultName /\ e.pool_key = Star
           /\ e.name \in Databases
  <2>1. PICK f \in DatabaseEntries : f.name = e.name /\ f.pool_key = e.name
    BY <1>6, Rows, Zenon
  <2>2. f = e
    BY <2>1, Zenon DEF Unambiguous
  <2> QED
    BY <1>6, <2>1, <2>2, Zenon DEF PoolOf
<1> QED
  BY <1>1, <1>2, <1>3, <1>4, <1>5, <1>6, Zenon

(* The clients that SHOW POOLS counts for a pool are the ones it serves.   *)
LEMMA CountsTheServed ==
  ASSUME Inv, NEW key
  PROVE  LiveClientsPerPoolKey(key) =
           Cardinality({c \in Conns : Registered(c) /\ conn[c].db # AdminDatabase
                                         /\ ServedFrom(c) = key})
<1> DEFINE Counted(c) ==
             /\ ~entries[c].admin
             /\ key = IF entries[c].database \in PoolKeys THEN entries[c].database ELSE Star
           Served(c) == Registered(c) /\ conn[c].db # AdminDatabase /\ ServedFrom(c) = key
<1>1. DOMAIN entries = {c \in Conns : Registered(c)}
  BY Zenon DEF Inv, EntriesFit, Registered, Early
<1>2. ASSUME NEW c \in Conns, Registered(c)
      PROVE  Counted(c) <=> Served(c)
  <2>1. conn[c].stage \notin Early /\ c \in DOMAIN entries
    BY <1>1, <1>2, Zenon DEF Registered, Early
  <2>2. /\ entries[c].admin <=> conn[c].stage \in AtConsole
        /\ entries[c].database = conn[c].db
    BY <2>1, Zenon DEF Inv, EntriesFit
  <2>3. ServedFits(settings, conn[c])
    BY Zenon DEF Inv, TasksFit, Good
  <2>4. conn[c].stage \in AtConsole <=> conn[c].db = AdminDatabase
    BY <2>1, <2>3, Zenon DEF ServedFits
  <2>5. CASE conn[c].stage \in AtConsole
    BY <2>2, <2>4, <2>5, Zenon
  <2>6. CASE conn[c].stage \notin AtConsole
    <3>1. conn[c].pool = PoolOf(conn[c].db)
      BY <2>1, <2>3, <2>6, PoolOfRouted, Zenon DEF ServedFits
    <3>2. PoolKeys = {} \/ PoolKeys = Databases \cup {Star}
      BY Zenon DEF PoolKeys
    <3>3. ServedFrom(c) = IF conn[c].db \in PoolKeys THEN conn[c].db ELSE Star
      <4>1. Absent \notin PoolKeys
        BY <3>2, StartupAssumption, Zenon
      <4>2. CASE conn[c].db \in PoolKeys
        BY <3>1, <4>1, <4>2, Zenon DEF ServedFrom, PoolOf
      <4>3. CASE conn[c].db \notin PoolKeys
        BY <3>1, <3>2, <4>3, Zenon DEF ServedFrom, PoolOf
      <4> QED
        BY <4>2, <4>3, Zenon
    <3> QED
      BY <1>2, <2>2, <2>4, <2>6, <3>3, Zenon
  <2> QED
    BY <2>5, <2>6, Zenon
<1>3. {c \in DOMAIN entries : Counted(c)} = {c \in Conns : Served(c)}
  <2>1. \A c \in Conns : Served(c) => Registered(c)
    BY Zenon
  <2> HIDE DEF Counted, Served
  <2> QED
    BY <1>1, <1>2, <2>1, Zenon
<1> QED
  BY <1>3, Zenon DEF LiveClientsPerPoolKey

(* SHOW CONFIG does not depend on what the admin password is.              *)
LEMMA ConfigHidesPassword ==
  ASSUME Inv, NEW p \in Passwords, settings.admin_password # Absent
  PROVE  ShowConfig(settings) = ShowConfig([settings EXCEPT !.admin_password = p])
<1> DEFINE other == [settings EXCEPT !["admin_password"] = p]
<1>1. DOMAIN settings = DOMAIN Defaults
  BY Zenon DEF Inv, Accepted
<1>2. /\ "admin_password" \in DOMAIN Defaults /\ "password" \in DOMAIN Defaults
      /\ "http_api_key" \in DOMAIN Defaults /\ "anonymize_salt" \in DOMAIN Defaults
  BY SMT DEF Defaults
<1>3. /\ other["admin_password"] = p
      /\ \A k \in DOMAIN Defaults : k # "admin_password" => other[k] = settings[k]
  BY <1>1, <1>2, Zenon
<1>4. Defaults["admin_password"] = Absent
  BY SMT DEF Defaults
<1>5. p # Absent
  BY ConfigAssumption, Zenon
<1> HIDE DEF other
<1>6. ASSUME NEW k \in {"password", "admin_password", "http_api_key", "anonymize_salt"}
      PROVE  settings[k] = Defaults[k] <=> other[k] = Defaults[k]
  <2>1. CASE k = "admin_password"
    BY <1>3, <1>4, <1>5, <2>1, Zenon
  <2>2. CASE k # "admin_password"
    BY <1>2, <1>3, <1>6, <2>2, Zenon
  <2> QED
    BY <2>1, <2>2, Zenon
<1>7. ShowConfig(settings) = ShowConfig(other)
  BY <1>6, Zenon DEF ShowConfig
<1> QED
  BY <1>7, Zenon DEF other

(* SHOW SERVERS names a pool by one of its rows.                           *)
LEMMA ServerRow ==
  ASSUME NEW key \in PoolKeys
  PROVE  \E e \in DatabaseEntries : e.pool_key = key /\ e.name = ShowServers[key]
<1>1. key \in Databases \cup {Star}
  BY Zenon DEF PoolKeys
<1>2. ShowServers[key] = IF key \in Databases THEN key ELSE DefaultName
  BY Zenon DEF ShowServers
<1>3. CASE key \in Databases
  <2>1. ShowServers[key] = key
    BY <1>2, <1>3, Zenon
  <2>2. PICK e \in DatabaseEntries : e.name = key /\ e.pool_key = key
    BY <1>3, Rows, Zenon
  <2> QED
    BY <2>1, <2>2, Zenon
<1>4. CASE key \notin Databases
  <2>1. ShowServers[key] = DefaultName /\ key = Star
    BY <1>1, <1>2, <1>4, Zenon
  <2>2. PICK e \in DatabaseEntries : e.name = DefaultName /\ e.pool_key = Star
    BY Rows, Zenon
  <2> QED
    BY <2>1, <2>2, Zenon
<1> QED
  BY <1>3, <1>4, Zenon

(* What the reports of the console say is so.                              *)
THEOREM TellsTheTruth == Spec => []ShowsTruth
<1>1. Inv /\ SizesFit => ShowsTruth
  <2> SUFFICES ASSUME Inv, SizesFit PROVE ShowsTruth
    BY Zenon
  <2>1. ASSUME NEW e \in DatabaseEntries
        PROVE  /\ ShowPools[e].cl_active =
                    Cardinality({c \in Conns : Registered(c) /\ conn[c].db # AdminDatabase
                                                  /\ ServedFrom(c) = e.pool_key})
               /\ ShowPools[e].sv_active <= ShowDatabases[e].pool_size
               /\ Unambiguous(e) =>
                    (ShowDatabases[e].paused <=>
                       PoolOf(e.name) # Absent /\ ~accepting[PoolOf(e.name)])
    <3> DEFINE key == e.pool_key
    <3>1. /\ ShowPools[e].cl_active = LiveClientsPerPoolKey(key)
          /\ ShowPools[e].sv_active = IF key \in PoolKeys THEN InUse(key) ELSE 0
      BY Zenon DEF ShowPools
    <3>2. /\ ShowDatabases[e].pool_size =
               IF key \in PoolKeys THEN PoolSize(key) ELSE e.configured_pool_size
          /\ ShowDatabases[e].paused = (key \in PoolKeys /\ ~accepting[key])
      BY Zenon DEF ShowDatabases
    <3>3. ShowPools[e].cl_active =
            Cardinality({c \in Conns : Registered(c) /\ conn[c].db # AdminDatabase
                                          /\ ServedFrom(c) = key})
      BY <3>1, CountsTheServed, Zenon
    <3>4. ShowPools[e].sv_active <= ShowDatabases[e].pool_size
      <4>1. CASE key \in PoolKeys
        BY <3>1, <3>2, <4>1, Zenon DEF SizesFit
      <4>2. CASE key \notin PoolKeys
        <5>1. settings.pool_size \in Nat
          BY Zenon DEF Inv, Accepted, Deserializes
        <5>2. \A db \in Databases : SizeOverride[db] \in Nat \cup {Absent}
          BY StartupAssumption, Zenon
        <5>3. e.configured_pool_size \in Nat
          BY <5>1, <5>2, Rows, Zenon
        <5>4. ShowPools[e].sv_active = 0 /\ ShowDatabases[e].pool_size = e.configured_pool_size
          BY <3>1, <3>2, <4>2, Zenon
        <5> QED
          BY <5>3, <5>4, SMT
      <4> QED
        BY <4>1, <4>2, Zenon
    <3>5. Absent \notin PoolKeys
      BY StartupAssumption, Zenon DEF PoolKeys
    <3>6. Unambiguous(e) =>
            (ShowDatabases[e].paused <=> PoolOf(e.name) # Absent /\ ~accepting[PoolOf(e.name)])
      BY <3>2, <3>5, RowOf, Zenon
    <3> QED
      BY <3>3, <3>4, <3>6, Zenon
  <2>s. \A key \in PoolKeys :
          \E e \in DatabaseEntries : e.pool_key = key /\ e.name = ShowServers[key]
    BY ServerRow, Zenon
  <2>2. /\ DOMAIN ShowClients = {c \in Conns : Registered(c)}
        /\ \A c \in DOMAIN ShowClients : ShowClients[c].tls <=> IsEncrypted(c)
    <3>1. DOMAIN ShowClients = DOMAIN entries
      BY Zenon DEF ShowClients
    <3>2. DOMAIN entries = {c \in Conns : Registered(c)}
      BY Zenon DEF Inv, EntriesFit, Registered, Early
    <3>3. ASSUME NEW c \in DOMAIN entries PROVE ShowClients[c].tls <=> IsEncrypted(c)
      <4>1. entries[c].tls <=> IsEncrypted(c)
        BY Zenon DEF Inv, EntriesFit
      <4>2. ShowClients[c].tls = entries[c].tls
        BY Zenon DEF ShowClients
      <4> QED
        BY <4>1, <4>2, Zenon
    <3> QED
      BY <3>1, <3>2, <3>3, Zenon
  <2>3. \A p \in Passwords :
          settings.admin_password # Absent =>
            ShowConfig(settings) = ShowConfig([settings EXCEPT !.admin_password = p])
    BY ConfigHidesPassword, Zenon
  <2> QED
    BY <2>1, <2>s, <2>2, <2>3, Zenon DEF ShowsTruth
<1> QED
  BY <1>1, InvHolds, PoolsKeepToSize, PTL
=============================================================================
