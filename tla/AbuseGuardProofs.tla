-------------------------- MODULE AbuseGuardProofs --------------------------
(***************************************************************************)
(* Theorems about AbuseGuard, for every finite set of requests, every      *)
(* configuration and every schedule.                                       *)
(***************************************************************************)
EXTENDS AbuseGuard, FiniteSetTheorems, TLAPS

-----------------------------------------------------------------------------
(* The operators the guard is built from.                                  *)

\* A client key is a key of the instance.
LEMMA KeyType == \A r \in Requests : ClientKey(r) \in Keys
BY DEF Keys

\* Store keeps the type of a map.
LEMMA StoreType ==
    ASSUME NEW S, NEW T, NEW m \in [S -> T], NEW k, NEW v \in T
    PROVE  Store(m, k, v) \in [S \cup {k} -> T]
BY DEF Store

\* Sweeping keeps a part of the windows as they are.
LEMMA SweptType ==
    ASSUME NEW T, windows \in [DOMAIN windows -> T], NEW now
    PROVE  /\ DOMAIN Swept(now) \subseteq DOMAIN windows
           /\ Swept(now) \in [DOMAIN Swept(now) -> T]
           /\ \A k \in DOMAIN Swept(now) : Swept(now)[k] = windows[k]
           /\ \A k \in DOMAIN windows \ DOMAIN Swept(now) :
                 SweepDue(now) /\ ~(now - windows[k].start < Window)
BY DEF Swept

\* The window a request is charged to is stored and running, or it is new.
LEMMA WindowAtType ==
    ASSUME TypeOK, NEW k, NEW now \in Instants
    PROVE  /\ WindowAt(k, now) \in [start : Instants, count : Nat]
           /\ now - WindowAt(k, now).start < Window
           /\ \/ k \in DOMAIN windows /\ WindowAt(k, now) = windows[k]
              \/ WindowAt(k, now) = [start |-> now, count |-> 0]
<1>1. windows \in [DOMAIN windows -> [start : Instants, count : Nat]]
  BY DEF TypeOK
<1>2. \A j \in DOMAIN Swept(now) : /\ j \in DOMAIN windows
                                   /\ Swept(now)[j] = windows[j]
  BY <1>1, SweptType
<1>3. CASE k \in DOMAIN Swept(now) /\ now - Swept(now)[k].start < Window
  <2>1. WindowAt(k, now) = Swept(now)[k]
    BY <1>3 DEF WindowAt
  <2> QED
    BY <1>1, <1>2, <1>3, <2>1
<1>4. CASE ~(k \in DOMAIN Swept(now) /\ now - Swept(now)[k].start < Window)
  <2>1. WindowAt(k, now) = [start |-> now, count |-> 0]
    BY <1>4 DEF WindowAt
  <2> QED
    BY <2>1, TimeAssumption DEF Instants
<1> QED
  BY <1>3, <1>4

\* setRetryAfter rounds up to the next whole second.
LEMMA RetryAfterRoundsUp ==
    ASSUME NEW wait \in Int, wait > 0
    PROVE  /\ RetryAfterSeconds(wait) \in Nat
           /\ RetryAfterSeconds(wait) >= 1
           /\ RetryAfterSeconds(wait) * Second >= wait
           /\ RetryAfterSeconds(wait) * Second < wait + Second
BY TimeAssumption DEF RetryAfterSeconds

-----------------------------------------------------------------------------
(* Type correctness.                                                       *)

\* Charging an attempt keeps the window map well typed.
LEMMA ChargeType ==
    ASSUME TypeOK, NEW r \in Requests, stamp[r] \in Instants, ChargeAttempt(r)
    PROVE  /\ DOMAIN windows' \subseteq Keys
           /\ windows' \in [DOMAIN windows' -> [start : Instants, count : Nat]]
           /\ lastSweep' \in Instants \cup {ZeroTime}
           /\ countedAt' \in [Requests -> Instants \cup {NoTime}]
<1> DEFINE W == [start : Instants, count : Nat]
           now == stamp[r]
           key == ClientKey(r)
           win == WindowAt(key, now)
<1>1. CASE RateLimited
  <2>1. win \in W
    BY WindowAtType
  <2>2. [win EXCEPT !.count = @ + 1] \in W
    BY <2>1
  <2>3. /\ DOMAIN Swept(now) \subseteq DOMAIN windows
        /\ Swept(now) \in [DOMAIN Swept(now) -> W]
    BY SweptType DEF TypeOK
  <2>4. windows' = Store(Swept(now), key, [win EXCEPT !.count = @ + 1])
    BY <1>1 DEF ChargeAttempt
  <2>5. windows' \in [DOMAIN Swept(now) \cup {key} -> W]
    BY <2>2, <2>3, <2>4, StoreType
  <2>6. key \in Keys
    BY KeyType
  <2>7. lastSweep' \in Instants \cup {ZeroTime}
    BY <1>1 DEF ChargeAttempt, LastSweepAfter, TypeOK
  <2>8. countedAt' \in [Requests -> Instants \cup {NoTime}]
    BY <1>1 DEF ChargeAttempt, TypeOK
  <2> QED
    BY <2>3, <2>5, <2>6, <2>7, <2>8 DEF TypeOK
<1>2. CASE ~RateLimited
  BY <1>2 DEF ChargeAttempt, TypeOK, windowVars
<1> QED
  BY <1>1, <1>2

\* Whoever asks for the mutex has read the clock, and not in the future.
Stamped ==
    \A r \in Requests :
        /\ pc[r] # "new" => stamp[r] \in Instants
        /\ stamp[r] <= clock

\* TypeOK together with the instants the requests carry is inductive.
LEMMA TypeInductive ==
    ASSUME TypeOK, Stamped, [Next]_vars
    PROVE  TypeOK' /\ Stamped'
<1>1. CASE Tick
  <2>1. clock' \in Instants /\ clock' = clock + 1
    BY <1>1, TimeAssumption DEF Tick, TypeOK, Instants
  <2>2. TypeOK'
    BY <1>1, <2>1 DEF Tick, TypeOK, slotVars, windowVars, historyVars
  <2>3. Stamped'
    <3> SUFFICES ASSUME NEW r \in Requests
                 PROVE  /\ pc[r] # "new" => stamp[r] \in Instants
                        /\ stamp[r] <= clock'
      BY <1>1 DEF Tick, Stamped
    <3>1. stamp[r] \in Int /\ clock \in Int
      BY DEF TypeOK, Instants, NoTime
    <3> QED
      BY <2>1, <3>1 DEF Stamped
  <2> QED
    BY <2>2, <2>3
<1>2. ASSUME NEW r \in Requests, Arrive(r)
      PROVE  TypeOK' /\ Stamped'
  <2>1. TypeOK'
    BY <1>2 DEF Arrive, TypeOK, Stages, slotVars, windowVars, historyVars
  <2>2. Stamped'
    BY <1>2 DEF Arrive, TypeOK, Stamped, Instants
  <2> QED
    BY <2>1, <2>2
<1>3. ASSUME NEW r \in Requests, RefuseRate(r)
      PROVE  TypeOK' /\ Stamped'
  <2> DEFINE now == stamp[r]
             win == WindowAt(ClientKey(r), now)
             wait == win.start + Window - now
  <2>1. now \in Instants
    BY <1>3 DEF RefuseRate, Stamped
  <2>2. win \in [start : Instants, count : Nat] /\ now - win.start < Window
    BY <2>1, WindowAtType
  <2>3. wait \in Int /\ wait > 0
    BY <2>1, <2>2, TimeAssumption DEF Instants
  <2>4. RetryAfterSeconds(wait) \in Nat
    BY <2>3, RetryAfterRoundsUp
  <2>5. retryAfter' \in [Requests -> Nat]
    BY <1>3, <2>4 DEF RefuseRate, TypeOK
  <2>6. refusedBy' \in [Requests -> Instants \cup {NoTime}]
    BY <1>3, <2>2 DEF RefuseRate, TypeOK
  <2>7. /\ DOMAIN windows' \subseteq Keys
        /\ windows' \in [DOMAIN windows' -> [start : Instants, count : Nat]]
    BY <1>3, SweptType DEF RefuseRate, TypeOK
  <2>8. lastSweep' \in Instants \cup {ZeroTime}
    BY <1>3, <2>1 DEF RefuseRate, LastSweepAfter, TypeOK
  <2>9. TypeOK'
    BY <1>3, <2>5, <2>6, <2>7, <2>8 DEF RefuseRate, TypeOK, Stages, slotVars
  <2>10. Stamped'
    BY <1>3 DEF RefuseRate, TypeOK, Stamped, Stages
  <2> QED
    BY <2>9, <2>10
<1>4. ASSUME NEW r \in Requests, RefuseCap(r)
      PROVE  TypeOK' /\ Stamped'
  <2>1. stamp[r] \in Instants
    BY <1>4 DEF RefuseCap, Stamped
  <2>2. TypeOK'
    BY <1>4, <2>1, ChargeType DEF RefuseCap, TypeOK, Stages, slotVars
  <2>3. Stamped'
    BY <1>4 DEF RefuseCap, TypeOK, Stamped
  <2> QED
    BY <2>2, <2>3
<1>5. ASSUME NEW r \in Requests, Admit(r)
      PROVE  TypeOK' /\ Stamped'
  <2> DEFINE key == ClientKey(r)
  <2>1. stamp[r] \in Instants
    BY <1>5 DEF Admit, Stamped
  <2>2. Lookup(conns, key) + 1 \in Nat
    BY DEF Lookup, TypeOK
  <2>3. conns' = Store(conns, key, Lookup(conns, key) + 1)
    BY <1>5 DEF Admit
  <2>4. conns' \in [DOMAIN conns \cup {key} -> Nat]
    BY <2>2, <2>3, StoreType DEF TypeOK
  <2>5. DOMAIN conns' \subseteq Keys /\ conns' \in [DOMAIN conns' -> Nat]
    BY <2>4, KeyType DEF TypeOK
  <2>6. active' \in Nat
    BY <1>5 DEF Admit, TypeOK
  <2>7. TypeOK'
    BY <1>5, <2>1, <2>5, <2>6, ChargeType DEF Admit, TypeOK, Stages
  <2>8. Stamped'
    BY <1>5 DEF Admit, TypeOK, Stamped
  <2> QED
    BY <2>7, <2>8
<1>6. ASSUME NEW r \in Requests, Clear(r)
      PROVE  TypeOK' /\ Stamped'
  <2> DEFINE key == ClientKey(r)
  <2>1. DOMAIN conns' \subseteq Keys /\ conns' \in [DOMAIN conns' -> Nat]
    <3>1. CASE Lookup(conns, key) <= 1
      BY <1>6, <3>1 DEF Clear, Delete, TypeOK
    <3>2. CASE ~(Lookup(conns, key) <= 1)
      <4>1. Lookup(conns, key) - 1 \in Nat
        BY <3>2 DEF Lookup, TypeOK
      <4>2. conns' = Store(conns, key, Lookup(conns, key) - 1)
        BY <1>6, <3>2 DEF Clear
      <4>3. conns' \in [DOMAIN conns \cup {key} -> Nat]
        BY <4>1, <4>2, StoreType DEF TypeOK
      <4> QED
        BY <4>3, KeyType DEF TypeOK
    <3> QED
      BY <3>1, <3>2
  <2>2. active' \in Nat
    BY <1>6 DEF Clear, TypeOK
  <2>3. TypeOK'
    BY <1>6, <2>1, <2>2 DEF Clear, TypeOK, Stages, windowVars, historyVars
  <2>4. Stamped'
    BY <1>6 DEF Clear, TypeOK, Stamped
  <2> QED
    BY <2>3, <2>4
<1>7. CASE UNCHANGED vars
  BY <1>7 DEF vars, slotVars, windowVars, historyVars, TypeOK, Stamped
<1> QED
  BY <1>1, <1>2, <1>3, <1>4, <1>5, <1>6, <1>7 DEF Next

\* The initial state is well typed.
LEMMA TypeInit == Init => TypeOK /\ Stamped
BY TimeAssumption DEF Init, TypeOK, Stamped, Stages, Instants, NoTime, ZeroTime

\* Type correctness of the guard: in particular the maps of clients and of
\* windows never hold the key of anyone but a client that asked.
THEOREM TypeCorrect == Spec => []TypeOK
<1>1. TypeOK /\ Stamped /\ [Next]_vars => TypeOK' /\ Stamped'
  BY TypeInductive
<1> QED
  BY TypeInit, <1>1, PTL DEF Spec

-----------------------------------------------------------------------------
(* Slot accounting and the caps.                                           *)

\* The slots in use are finitely many, so they can be counted.
LEMMA HoldersFinite ==
    /\ IsFiniteSet(Holders) /\ Cardinality(Holders) \in Nat
    /\ \A k : IsFiniteSet(HoldersOf(k)) /\ Cardinality(HoldersOf(k)) \in Nat
<1>1. Holders \subseteq Requests /\ \A k : HoldersOf(k) \subseteq Holders
  BY DEF Holders, HoldersOf
<1>2. IsFiniteSet(Holders)
  BY <1>1, RequestsFinite, FS_Subset
<1> QED
  BY <1>1, <1>2, FS_Subset, FS_CardinalityType

\* A step in which nobody takes or gives back a slot keeps the accounts.
LEMMA HoldersUnchanged ==
    ASSUME SlotAccounting, UNCHANGED slotVars,
           \A r \in Requests : pc'[r] = "held" <=> pc[r] = "held"
    PROVE  SlotAccounting' /\ Holders' = Holders
<1>1. Holders' = Holders
  BY DEF Holders
<1>2. \A k : HoldersOf(k)' = HoldersOf(k)
  BY <1>1 DEF HoldersOf
<1> QED
  BY <1>1, <1>2 DEF SlotAccounting, slotVars

\* Admission adds one holder, to the total and to one client.
LEMMA AdmitAccounting ==
    ASSUME TypeOK, SlotAccounting, NEW r \in Requests, Admit(r)
    PROVE  /\ SlotAccounting'
           /\ Holders' = Holders \cup {r}
           /\ r \notin Holders
<1> DEFINE key == ClientKey(r)
<1>1. pc[r] = "stamped" /\ pc' = [pc EXCEPT ![r] = "held"]
  BY DEF Admit
<1>2. Holders' = Holders \cup {r} /\ r \notin Holders
  BY <1>1 DEF Holders, TypeOK
<1>3. active' = Cardinality(Holders')
  <2>1. Cardinality(Holders \cup {r}) = Cardinality(Holders) + 1
    BY <1>2, HoldersFinite, FS_AddElement
  <2> QED
    BY <1>2, <2>1 DEF Admit, SlotAccounting
<1>4. HoldersOf(key)' = HoldersOf(key) \cup {r} /\ r \notin HoldersOf(key)
  BY <1>2 DEF HoldersOf
<1>5. \A k : k # key => HoldersOf(k)' = HoldersOf(k)
  BY <1>2 DEF HoldersOf
<1>6. Cardinality(HoldersOf(key)') = Cardinality(HoldersOf(key)) + 1
  BY <1>4, HoldersFinite, FS_AddElement
<1>7. Lookup(conns, key) = Cardinality(HoldersOf(key))
  <2>1. CASE key \in DOMAIN conns
    BY <2>1 DEF Lookup, SlotAccounting
  <2>2. CASE key \notin DOMAIN conns
    <3>1. HoldersOf(key) = {}
      BY <2>2 DEF SlotAccounting, HoldersOf
    <3> QED
      BY <2>2, <3>1, FS_EmptySet DEF Lookup
  <2> QED
    BY <2>1, <2>2
<1>8. conns' = Store(conns, key, Lookup(conns, key) + 1)
  BY DEF Admit
<1>9. /\ DOMAIN conns' = DOMAIN conns \cup {key}
      /\ conns'[key] = Lookup(conns, key) + 1
      /\ \A x \in DOMAIN conns \ {key} : conns'[x] = conns[x]
  BY <1>8 DEF Store
<1>10. DOMAIN conns' = {ClientKey(q) : q \in Holders'}
  BY <1>2, <1>9 DEF SlotAccounting
<1>11. \A k \in DOMAIN conns' : conns'[k] = Cardinality(HoldersOf(k)')
  <2> SUFFICES ASSUME NEW k \in DOMAIN conns'
               PROVE  conns'[k] = Cardinality(HoldersOf(k)')
    OBVIOUS
  <2>1. CASE k = key
    BY <2>1, <1>6, <1>7, <1>9
  <2>2. CASE k # key
    BY <2>2, <1>5, <1>9 DEF SlotAccounting
  <2> QED
    BY <2>1, <2>2
<1> QED
  BY <1>2, <1>3, <1>10, <1>11 DEF SlotAccounting

\* Release takes the holder off the total and off its client; the key leaves
\* the map with the client's last connection.
LEMMA ClearAccounting ==
    ASSUME TypeOK, SlotAccounting, NEW r \in Requests, Clear(r)
    PROVE  SlotAccounting' /\ Holders' = Holders \ {r}
<1> DEFINE key == ClientKey(r)
<1>1. pc[r] = "held" /\ pc' = [pc EXCEPT ![r] = "released"]
  BY DEF Clear
<1>2. Holders' = Holders \ {r} /\ r \in Holders
  BY <1>1 DEF Holders, TypeOK
<1>3. Cardinality(Holders \ {r}) = Cardinality(Holders) - 1
  BY <1>2, HoldersFinite, FS_RemoveElement
<1>4. active' = Cardinality(Holders')
  <2>1. active = Cardinality(Holders) /\ active \in Nat
    BY DEF SlotAccounting, TypeOK
  <2>2. Cardinality(Holders \ {r}) \in Nat
    BY <1>2, HoldersFinite, FS_Subset, FS_CardinalityType
  <2> QED
    BY <1>2, <1>3, <2>1, <2>2 DEF Clear
<1>5. HoldersOf(key)' = HoldersOf(key) \ {r} /\ r \in HoldersOf(key)
  BY <1>2 DEF HoldersOf
<1>6. \A k : k # key => HoldersOf(k)' = HoldersOf(k)
  BY <1>2 DEF HoldersOf
<1>7. Cardinality(HoldersOf(key)') = Cardinality(HoldersOf(key)) - 1
  BY <1>5, HoldersFinite, FS_RemoveElement
<1>8. key \in DOMAIN conns /\ conns[key] = Cardinality(HoldersOf(key))
  BY <1>2 DEF SlotAccounting
<1>9. Lookup(conns, key) = Cardinality(HoldersOf(key))
  BY <1>8 DEF Lookup
<1>10. CASE Lookup(conns, key) <= 1
  <2>1. conns' = Delete(conns, key)
    BY <1>10 DEF Clear
  <2>2. IsFiniteSet(HoldersOf(key) \ {r}) /\ Cardinality(HoldersOf(key) \ {r}) = 0
    <3>1. IsFiniteSet(HoldersOf(key) \ {r})
      BY HoldersFinite, FS_Subset
    <3>2. Cardinality(HoldersOf(key) \ {r}) \in Nat
      BY <3>1, FS_CardinalityType
    <3>3. Cardinality(HoldersOf(key)) \in Nat
      BY HoldersFinite
    <3> QED
      BY <1>5, <1>7, <1>9, <1>10, <3>1, <3>2, <3>3
  <2>3. HoldersOf(key)' = {}
    BY <1>5, <2>2, FS_EmptySet
  <2>4. DOMAIN conns' = DOMAIN conns \ {key}
    BY <2>1 DEF Delete
  <2>5. \A k \in DOMAIN conns' : conns'[k] = conns[k]
    BY <2>1 DEF Delete
  <2>6. DOMAIN conns' = {ClientKey(q) : q \in Holders'}
    <3>1. \A q \in Holders' : ClientKey(q) # key
      BY <2>3 DEF HoldersOf
    <3> QED
      BY <1>2, <2>4, <3>1 DEF SlotAccounting
  <2>7. \A k \in DOMAIN conns' : conns'[k] = Cardinality(HoldersOf(k)')
    BY <1>6, <2>4, <2>5 DEF SlotAccounting
  <2> QED
    BY <1>2, <1>4, <2>6, <2>7 DEF SlotAccounting
<1>11. CASE ~(Lookup(conns, key) <= 1)
  <2>1. conns' = Store(conns, key, Lookup(conns, key) - 1)
    BY <1>11 DEF Clear
  <2>2. /\ DOMAIN conns' = DOMAIN conns \cup {key}
        /\ conns'[key] = Lookup(conns, key) - 1
        /\ \A x \in DOMAIN conns \ {key} : conns'[x] = conns[x]
    BY <2>1 DEF Store
  <2>3. PICK q \in HoldersOf(key) : q # r
    <3>1. CASE HoldersOf(key) = {r}
      <4>1. Cardinality(HoldersOf(key)) = 1
        BY <3>1, FS_Singleton
      <4> QED
        BY <4>1, <1>9, <1>11
    <3>2. CASE HoldersOf(key) # {r}
      BY <3>2, <1>5
    <3> QED
      BY <3>1, <3>2
  <2>4. q \in Holders' /\ ClientKey(q) = key
    BY <1>2, <2>3 DEF HoldersOf
  <2>5. DOMAIN conns' = {ClientKey(p) : p \in Holders'}
    BY <1>2, <1>8, <2>2, <2>4 DEF SlotAccounting
  <2>6. \A k \in DOMAIN conns' : conns'[k] = Cardinality(HoldersOf(k)')
    <3> SUFFICES ASSUME NEW k \in DOMAIN conns'
                 PROVE  conns'[k] = Cardinality(HoldersOf(k)')
      OBVIOUS
    <3>1. CASE k = key
      BY <3>1, <1>7, <1>9, <2>2
    <3>2. CASE k # key
      BY <3>2, <1>6, <2>2 DEF SlotAccounting
    <3> QED
      BY <3>1, <3>2
  <2> QED
    BY <1>2, <1>4, <2>5, <2>6 DEF SlotAccounting
<1> QED
  BY <1>2, <1>10, <1>11

\* The caps as the guard tests them: against its own counters.
CountersWithinCaps ==
    /\ MaxActiveConnections > 0 => active <= MaxActiveConnections
    /\ MaxConnectionsPerClient > 0 =>
        \A k \in DOMAIN conns : conns[k] <= MaxConnectionsPerClient

SlotInv == TypeOK /\ Stamped /\ SlotAccounting /\ CountersWithinCaps

\* The accounts and the caps survive every step.
LEMMA SlotInductive ==
    ASSUME SlotInv, [Next]_vars
    PROVE  SlotInv'
<1> USE DEF SlotInv
<1>1. TypeOK' /\ Stamped'
  BY TypeInductive
<1>2. ASSUME UNCHANGED slotVars,
             \A r \in Requests : pc'[r] = "held" <=> pc[r] = "held"
      PROVE  SlotInv'
  BY <1>1, <1>2, HoldersUnchanged DEF CountersWithinCaps, slotVars
<1>3. CASE Tick
  BY <1>2, <1>3 DEF Tick
<1>4. ASSUME NEW r \in Requests, Arrive(r) \/ RefuseRate(r) \/ RefuseCap(r)
      PROVE  SlotInv'
  <2>1. UNCHANGED slotVars
    BY <1>4 DEF Arrive, RefuseRate, RefuseCap
  <2>2. \A q \in Requests : pc'[q] = "held" <=> pc[q] = "held"
    BY <1>4 DEF Arrive, RefuseRate, RefuseCap, TypeOK
  <2> QED
    BY <1>2, <2>1, <2>2
<1>5. ASSUME NEW r \in Requests, Admit(r)
      PROVE  SlotInv'
  <2> DEFINE key == ClientKey(r)
  <2>1. SlotAccounting'
    BY <1>5, AdmitAccounting
  <2>2. ~AtGlobalCap /\ ~AtClientCap(key) /\ active' = active + 1
    BY <1>5 DEF Admit
  <2>3. MaxActiveConnections > 0 => active' <= MaxActiveConnections
    BY <2>2, ConfigAssumption DEF AtGlobalCap, TypeOK
  <2>4. /\ DOMAIN conns' = DOMAIN conns \cup {key}
        /\ conns'[key] = Lookup(conns, key) + 1
        /\ \A x \in DOMAIN conns \ {key} : conns'[x] = conns[x]
    BY <1>5 DEF Admit, Store
  <2>5. Lookup(conns, key) \in Nat
    BY DEF Lookup, TypeOK
  <2>6. MaxConnectionsPerClient > 0 => conns'[key] <= MaxConnectionsPerClient
    BY <2>2, <2>4, <2>5, ConfigAssumption DEF AtClientCap
  <2>7. CountersWithinCaps'
    BY <2>3, <2>4, <2>6 DEF CountersWithinCaps
  <2> QED
    BY <1>1, <2>1, <2>7
<1>6. ASSUME NEW r \in Requests, Clear(r)
      PROVE  SlotInv'
  <2> DEFINE key == ClientKey(r)
  <2>1. SlotAccounting'
    BY <1>6, ClearAccounting
  <2>2. MaxActiveConnections > 0 => active' <= MaxActiveConnections
    BY <1>6, ConfigAssumption DEF Clear, CountersWithinCaps, TypeOK
  <2>3. MaxConnectionsPerClient > 0 =>
            \A k \in DOMAIN conns' : conns'[k] <= MaxConnectionsPerClient
    <3>1. CASE Lookup(conns, key) <= 1
      BY <1>6, <3>1 DEF Clear, Delete, CountersWithinCaps
    <3>2. CASE ~(Lookup(conns, key) <= 1)
      <4>1. /\ DOMAIN conns' = DOMAIN conns \cup {key}
            /\ conns'[key] = Lookup(conns, key) - 1
            /\ \A x \in DOMAIN conns \ {key} : conns'[x] = conns[x]
        BY <1>6, <3>2 DEF Clear, Store
      <4>2. key \in DOMAIN conns /\ conns[key] = Lookup(conns, key)
        BY <3>2 DEF Lookup
      <4>3. conns[key] \in Nat
        BY <4>2 DEF TypeOK
      <4> QED
        BY <4>1, <4>2, <4>3, ConfigAssumption DEF CountersWithinCaps
    <3> QED
      BY <3>1, <3>2
  <2> QED
    BY <1>1, <2>1, <2>2, <2>3 DEF CountersWithinCaps
<1>7. CASE UNCHANGED vars
  BY <1>2, <1>7 DEF vars
<1> QED
  BY <1>3, <1>4, <1>5, <1>6, <1>7 DEF Next

\* The accounts are right at the start: nobody holds a slot.
LEMMA SlotInit == Init => SlotInv
<1> SUFFICES ASSUME Init PROVE SlotInv
  OBVIOUS
<1>1. Holders = {}
  BY DEF Init, Holders
<1>2. DOMAIN conns = {} /\ active = 0
  BY DEF Init
<1>3. SlotAccounting
  BY <1>1, <1>2, FS_EmptySet DEF SlotAccounting
<1>4. CountersWithinCaps
  BY <1>2, ConfigAssumption DEF CountersWithinCaps
<1> QED
  BY <1>3, <1>4, TypeInit DEF SlotInv

\* Counters within the caps and equal to the holders bound the holders; a
\* host's connections are among those of its client key.
LEMMA SlotInvImpliesCaps == SlotInv => CapsRespected
<1> SUFFICES ASSUME SlotInv PROVE CapsRespected
  OBVIOUS
<1> USE DEF SlotInv
<1>1. MaxActiveConnections > 0 => Cardinality(Holders) <= MaxActiveConnections
  BY DEF CountersWithinCaps, SlotAccounting
<1>2. ASSUME MaxConnectionsPerClient > 0, NEW r \in Requests
      PROVE  Cardinality({q \in Holders : RemoteAddr[q].host = RemoteAddr[r].host})
                <= MaxConnectionsPerClient
  <2> DEFINE key  == ClientKey(r)
             Same == {q \in Holders : RemoteAddr[q].host = RemoteAddr[r].host}
  <2>1. Same \subseteq HoldersOf(key)
    BY DEF HoldersOf, ClientKey
  <2>2. /\ IsFiniteSet(Same)
        /\ Cardinality(Same) \in Nat
        /\ Cardinality(Same) <= Cardinality(HoldersOf(key))
        /\ Cardinality(HoldersOf(key)) \in Nat
    BY <2>1, HoldersFinite, FS_Subset, FS_CardinalityType
  <2>3. CASE key \in DOMAIN conns
    <3>1. /\ conns[key] = Cardinality(HoldersOf(key))
          /\ conns[key] <= MaxConnectionsPerClient
      BY <1>2, <2>3 DEF SlotAccounting, CountersWithinCaps
    <3> QED
      BY <2>2, <3>1, ConfigAssumption
  <2>4. CASE key \notin DOMAIN conns
    <3>1. HoldersOf(key) = {}
      BY <2>4 DEF SlotAccounting, HoldersOf
    <3>2. Cardinality(Same) = 0
      BY <2>1, <3>1, FS_EmptySet
    <3> QED
      BY <3>2, <1>2, ConfigAssumption
  <2> QED
    BY <2>3, <2>4
<1> QED
  BY <1>1, <1>2 DEF CapsRespected

\* No interleaving of upgrades and disconnects leaks a slot, releases one
\* twice or leaves a client's key behind (reserveBridgeConnection against the
\* deferred clearBridgeConnection).
THEOREM SlotAccountingCorrect == Spec => []SlotAccounting
<1>1. SlotInv /\ [Next]_vars => SlotInv'
  BY SlotInductive
<1>2. SlotInv => SlotAccounting
  BY DEF SlotInv
<1> QED
  BY SlotInit, <1>1, <1>2, PTL DEF Spec

\* The configured caps hold for every number of clients and connections.
THEOREM CapsHold == Spec => []CapsRespected
<1>1. SlotInv /\ [Next]_vars => SlotInv'
  BY SlotInductive
<1> QED
  BY SlotInit, <1>1, SlotInvImpliesCaps, PTL DEF Spec

\* The pool of slots that the guard implements, seen from the handlers.
Pool == INSTANCE SlotPool WITH Users <- Requests, Cap <- MaxActiveConnections, held <- Holders

\* The instance counts with the same operator.
LEMMA SameCardinality == Pool!Cardinality(Holders) = Cardinality(Holders)
  BY Zenon DEF Pool!Cardinality, Cardinality

\* A step of the guard takes one slot, gives one back, or leaves them alone.
LEMMA PoolStep ==
    ASSUME SlotInv, [Next]_vars
    PROVE  [Pool!Next]_Holders
<1> USE DEF SlotInv
<1>1. ASSUME NEW r \in Requests, Admit(r)
      PROVE  Pool!Take(r)
  <2>1. r \notin Holders /\ Holders' = Holders \cup {r}
    BY <1>1, AdmitAccounting
  <2>2. MaxActiveConnections = 0 \/ Cardinality(Holders) < MaxActiveConnections
    <3>1. active = Cardinality(Holders) /\ Cardinality(Holders) \in Nat
      BY HoldersFinite DEF SlotAccounting
    <3>2. ~AtGlobalCap
      BY <1>1 DEF Admit
    <3> QED
      BY <3>1, <3>2, ConfigAssumption DEF AtGlobalCap
  <2> QED
    BY <2>1, <2>2, SameCardinality DEF Pool!Take
<1>2. ASSUME NEW r \in Requests, Clear(r)
      PROVE  Pool!Give(r)
  <2>1. Holders' = Holders \ {r}
    BY <1>2, ClearAccounting
  <2>2. r \in Holders
    BY <1>2 DEF Clear, Holders
  <2> QED
    BY <2>1, <2>2 DEF Pool!Give
<1>3. ASSUME NEW r \in Requests, Arrive(r) \/ RefuseRate(r) \/ RefuseCap(r)
      PROVE  Holders' = Holders
  BY <1>3 DEF Arrive, RefuseRate, RefuseCap, Holders, TypeOK
<1>4. CASE Tick \/ UNCHANGED vars
  BY <1>4 DEF Tick, vars, Holders
<1> QED
  BY <1>1, <1>2, <1>3, <1>4 DEF Next, Pool!Next

\* The guard's counters and maps implement a pool of MaxActiveConnections slots:
\* every admission takes the handler's own slot below the cap and every clear
\* gives that one back, clamps, rates and per-client limits notwithstanding
\* (abuse_control.go).
THEOREM GuardIsSlotPool == Spec => Pool!Spec
<1>1. Init => Pool!Init
  BY DEF Init, Pool!Init, Holders
<1>2. SlotInv /\ [Next]_vars => SlotInv' /\ [Pool!Next]_Holders
  BY SlotInductive, PoolStep
<1> QED
  BY <1>1, <1>2, SlotInit, PTL DEF Spec, Pool!Spec

-----------------------------------------------------------------------------
(* Retry-After.                                                            *)

\* What a rate refusal leaves behind; stamp[r] never changes again.
RefusalFacts ==
    \A r \in Requests : refusedBy[r] # NoTime =>
        LET ready == stamp[r] + retryAfter[r] * Second
        IN  /\ pc[r] = "refused"
            /\ stamp[r] - refusedBy[r] < Window
            /\ retryAfter[r] >= 1
            /\ ready >= refusedBy[r] + Window
            /\ ready < refusedBy[r] + Window + Second

\* The facts about one refusal hold when it is made and survive every step.
LEMMA RefusalInductive ==
    ASSUME TypeOK, Stamped, RefusalFacts, [Next]_vars
    PROVE  RefusalFacts'
<1>1. ASSUME UNCHANGED <<stamp, retryAfter, refusedBy>>,
             \A r \in Requests : pc[r] = "refused" => pc'[r] = "refused"
      PROVE  RefusalFacts'
  BY <1>1 DEF RefusalFacts
<1>2. CASE Tick \/ UNCHANGED vars
  BY <1>1, <1>2 DEF Tick, vars, historyVars
<1>3. ASSUME NEW r \in Requests, Arrive(r)
      PROVE  RefusalFacts'
  <2>1. pc[r] = "new" /\ refusedBy[r] = NoTime
    BY <1>3 DEF Arrive, RefusalFacts
  <2>2. \A q \in Requests \ {r} : pc'[q] = pc[q] /\ stamp'[q] = stamp[q]
    BY <1>3 DEF Arrive, TypeOK
  <2>3. refusedBy' = refusedBy /\ retryAfter' = retryAfter
    BY <1>3 DEF Arrive, historyVars
  <2> QED
    BY <2>1, <2>2, <2>3 DEF RefusalFacts
<1>4. ASSUME NEW r \in Requests, RefuseRate(r)
      PROVE  RefusalFacts'
  <2> DEFINE now == stamp[r]
             win == WindowAt(ClientKey(r), now)
             wait == win.start + Window - now
  <2>1. now \in Instants
    BY <1>4 DEF RefuseRate, Stamped
  <2>2. win.start \in Instants /\ now - win.start < Window
    BY <2>1, WindowAtType
  <2>3. wait \in Int /\ wait > 0
    BY <2>1, <2>2, TimeAssumption DEF Instants
  <2> HIDE DEF wait
  <2>4. /\ RetryAfterSeconds(wait) \in Nat
        /\ RetryAfterSeconds(wait) >= 1
        /\ RetryAfterSeconds(wait) * Second >= wait
        /\ RetryAfterSeconds(wait) * Second < wait + Second
    BY <2>3, RetryAfterRoundsUp
  <2>5. /\ pc'[r] = "refused" /\ stamp' = stamp
        /\ refusedBy'[r] = win.start
        /\ retryAfter'[r] = RetryAfterSeconds(wait)
    BY <1>4 DEF RefuseRate, TypeOK, wait
  <2>6. \A q \in Requests \ {r} : /\ pc'[q] = pc[q]
                                  /\ refusedBy'[q] = refusedBy[q]
                                  /\ retryAfter'[q] = retryAfter[q]
    BY <1>4 DEF RefuseRate, TypeOK
  <2>7. /\ now + RetryAfterSeconds(wait) * Second >= win.start + Window
        /\ now + RetryAfterSeconds(wait) * Second < win.start + Window + Second
    <3>1. RetryAfterSeconds(wait) * Second \in Int
      BY <2>4, TimeAssumption
    <3> QED
      BY <2>1, <2>2, <2>4, <3>1, TimeAssumption DEF wait, Instants
  <2> QED
    BY <2>2, <2>4, <2>5, <2>6, <2>7 DEF RefusalFacts
<1>5. ASSUME NEW r \in Requests, RefuseCap(r) \/ Admit(r) \/ Clear(r)
      PROVE  RefusalFacts'
  <2>1. UNCHANGED <<stamp, retryAfter, refusedBy>>
    BY <1>5 DEF RefuseCap, Admit, Clear, historyVars
  <2>2. \A q \in Requests : pc[q] = "refused" => pc'[q] = "refused"
    BY <1>5 DEF RefuseCap, Admit, Clear, TypeOK
  <2> QED
    BY <1>1, <2>1, <2>2
<1> QED
  BY <1>2, <1>3, <1>4, <1>5 DEF Next

\* Two refusals by one window cannot be a promised wait apart.
LEMMA RefusalFactsImplyHonest ==
    TypeOK /\ RefusalFacts => RetryAfterHonest
<1> SUFFICES ASSUME TypeOK, RefusalFacts,
                    NEW r \in Requests, refusedBy[r] # NoTime,
                    NEW q \in Requests, refusedBy[q] # NoTime,
                    stamp[q] >= stamp[r] + retryAfter[r] * Second
             PROVE  refusedBy[q] > refusedBy[r]
  BY DEF RetryAfterHonest, RefusalFacts
<1>1. /\ stamp[r] + retryAfter[r] * Second >= refusedBy[r] + Window
      /\ stamp[q] - refusedBy[q] < Window
  BY DEF RefusalFacts
<1>2. /\ stamp[q] \in Int /\ stamp[r] \in Int
      /\ refusedBy[q] \in Int /\ refusedBy[r] \in Int
      /\ retryAfter[r] * Second \in Int
  BY TimeAssumption DEF TypeOK, Instants, NoTime
<1> QED
  BY <1>1, <1>2, TimeAssumption

\* A client that waits as long as Retry-After tells it is never early: the
\* rounding of setRetryAfter is right for every window, tick and schedule,
\* instants read long before the mutex included.
THEOREM RetryAfterIsHonest == Spec => []RetryAfterHonest
<1> DEFINE Inv == TypeOK /\ Stamped /\ RefusalFacts
<1>1. Init => Inv
  BY TypeInit DEF Init, RefusalFacts
<1>2. Inv /\ [Next]_vars => Inv'
  BY TypeInductive, RefusalInductive
<1>3. Inv => RetryAfterHonest
  BY RefusalFactsImplyHonest
<1> QED
  BY <1>1, <1>2, <1>3, PTL DEF Spec

-----------------------------------------------------------------------------
(* The windows.                                                            *)

\* One step of the rate check on the window of a client k.
WindowKept(k) ==
    \/ clock - windows[k].start >= Window
    \/ /\ k \in DOMAIN windows'
       /\ windows'[k].start = windows[k].start
       /\ windows'[k].count >= windows[k].count

\* A window is only swept or replaced when it is over, also in real time.
LEMMA StepKeepsWindows ==
    ASSUME TypeOK, Stamped, [Next]_vars, NEW k \in DOMAIN windows
    PROVE  WindowKept(k)
<1>1. windows[k] \in [start : Instants, count : Nat] /\ clock \in Int
  BY DEF TypeOK, Instants
<1>2. ASSUME windows' = windows PROVE WindowKept(k)
  BY <1>1, <1>2 DEF WindowKept
<1>3. ASSUME NEW now \in Instants, now <= clock, k \notin DOMAIN Swept(now)
      PROVE  WindowKept(k)
  <2>1. ~(now - windows[k].start < Window)
    BY <1>3, SweptType DEF TypeOK
  <2> QED
    BY <1>1, <1>3, <2>1, TimeAssumption DEF WindowKept, Instants
<1>4. ASSUME NEW r \in Requests, RefuseRate(r)
      PROVE  WindowKept(k)
  <2>1. stamp[r] \in Instants /\ stamp[r] <= clock
    BY <1>4 DEF RefuseRate, Stamped
  <2>2. CASE k \in DOMAIN Swept(stamp[r])
    <3>1. Swept(stamp[r])[k] = windows[k]
      BY <2>2, SweptType DEF TypeOK
    <3> QED
      BY <1>1, <1>4, <2>2, <3>1 DEF RefuseRate, WindowKept
  <2> QED
    BY <1>3, <2>1, <2>2
<1>5. ASSUME NEW r \in Requests, stamp[r] \in Instants, stamp[r] <= clock,
             ChargeAttempt(r)
      PROVE  WindowKept(k)
  <2> DEFINE now == stamp[r]
             key == ClientKey(r)
             win == WindowAt(key, now)
  <2>1. CASE ~RateLimited
    BY <1>2, <1>5, <2>1 DEF ChargeAttempt, windowVars
  <2>2. CASE RateLimited /\ k \in DOMAIN Swept(now)
    <3>1. Swept(now)[k] = windows[k]
      BY <2>2, SweptType DEF TypeOK
    <3>2. windows' = Store(Swept(now), key, [win EXCEPT !.count = @ + 1])
      BY <1>5, <2>2 DEF ChargeAttempt
    <3>3. CASE k # key
      <4>1. k \in DOMAIN windows' /\ windows'[k] = windows[k]
        BY <2>2, <3>1, <3>2, <3>3 DEF Store
      <4> QED
        BY <1>1, <4>1 DEF WindowKept
    <3>4. CASE k = key /\ now - windows[k].start < Window
      <4>1. win = windows[k]
        BY <2>2, <3>1, <3>4 DEF WindowAt
      <4>2. k \in DOMAIN windows' /\ windows'[k] = [win EXCEPT !.count = @ + 1]
        BY <3>2, <3>4 DEF Store
      <4> HIDE DEF win
      <4>3. windows'[k].start = windows[k].start
        BY <1>1, <4>1, <4>2
      <4>4. windows'[k].count = windows[k].count + 1
        BY <1>1, <4>1, <4>2
      <4> QED
        BY <1>1, <4>2, <4>3, <4>4 DEF WindowKept
    <3>5. CASE k = key /\ ~(now - windows[k].start < Window)
      BY <1>1, <1>5, <3>5, TimeAssumption DEF WindowKept, Instants
    <3> QED
      BY <3>3, <3>4, <3>5
  <2> QED
    BY <1>3, <1>5, <2>1, <2>2
<1>6. ASSUME NEW r \in Requests, RefuseCap(r) \/ Admit(r)
      PROVE  WindowKept(k)
  BY <1>5, <1>6 DEF RefuseCap, Admit, Stamped
<1>7. ASSUME NEW r \in Requests, Arrive(r) \/ Clear(r)
      PROVE  WindowKept(k)
  BY <1>2, <1>7 DEF Arrive, Clear, windowVars
<1>8. CASE Tick \/ UNCHANGED vars
  BY <1>2, <1>8 DEF Tick, vars, windowVars
<1> QED
  BY <1>4, <1>6, <1>7, <1>8 DEF Next

\* No step gives a client its budget back before its window is over: neither
\* a stale instant, nor a sweep made for someone else, nor a refusal.
THEOREM BudgetIsNeverReset == Spec => BudgetNeverReset
<1> DEFINE Inv == TypeOK /\ Stamped
           Kept == \A k \in DOMAIN windows :
                      \/ clock - windows[k].start >= Window
                      \/ /\ k \in DOMAIN windows'
                         /\ windows'[k].start = windows[k].start
                         /\ windows'[k].count >= windows[k].count
<1>1. Inv /\ [Next]_vars => Inv'
  BY TypeInductive
<1>2. Inv /\ [Next]_vars => [Kept]_vars
  BY StepKeepsWindows DEF WindowKept
<1> QED
  BY TypeInit, <1>1, <1>2, PTL DEF Spec, BudgetNeverReset

\* A request asks for the mutex at most LockDelay after it read the clock.
Prompt ==
    \A r \in Requests : pc[r] = "stamped" => clock - stamp[r] <= LockDelay

Checked(r) == countedAt[r] # NoTime \/ refusedBy[r] # NoTime

\* What the sweep keeps up: it is never behind a checked request by a window,
\* and it left no window that was over when it ran.
SweepFacts ==
    /\ lastSweep <= clock
    /\ \A r \in Requests : Checked(r) =>
            pc[r] \notin {"new", "stamped"} /\ stamp[r] - lastSweep < Window
    /\ \A k \in DOMAIN windows : windows[k].start > lastSweep - Window

\* Ticks stop before a request has waited too long.
LEMMA PromptInductive ==
    ASSUME TypeOK, Stamped, Prompt, [Next]_vars
    PROVE  Prompt'
<1>1. ASSUME clock' = clock, stamp' = stamp,
             \A r \in Requests : pc'[r] = "stamped" => pc[r] = "stamped"
      PROVE  Prompt'
  BY <1>1 DEF Prompt
<1>2. CASE Tick
  <2> SUFFICES ASSUME NEW r \in Requests, pc[r] = "stamped"
               PROVE  (clock + 1) - stamp[r] <= LockDelay
    BY <1>2 DEF Tick, Prompt
  <2>1. clock - stamp[r] < LockDelay
    BY <1>2 DEF Tick
  <2>2. clock \in Int /\ stamp[r] \in Int
    BY DEF TypeOK, Instants, NoTime
  <2> QED
    BY <2>1, <2>2, TimeAssumption
<1>3. ASSUME NEW r \in Requests, Arrive(r)
      PROVE  Prompt'
  BY <1>3, TimeAssumption DEF Arrive, Prompt, TypeOK, Instants
<1>4. ASSUME NEW r \in Requests,
             RefuseRate(r) \/ RefuseCap(r) \/ Admit(r) \/ Clear(r)
      PROVE  Prompt'
  BY <1>1, <1>4 DEF RefuseRate, RefuseCap, Admit, Clear, TypeOK
<1>5. CASE UNCHANGED vars
  BY <1>1, <1>5 DEF vars
<1> QED
  BY <1>2, <1>3, <1>4, <1>5 DEF Next

\* One rate check by request r, refused or charged, keeps the sweep's facts.
LEMMA CheckKeepsSweepFacts ==
    ASSUME TypeOK, Stamped, Prompt, SweepFacts,
           SweepsWindows, LockDelay < Window,
           NEW r \in Requests, pc[r] = "stamped",
           clock' = clock, stamp' = stamp,
           pc'[r] \notin {"new", "stamped"},
           \A q \in Requests \ {r} : pc'[q] = pc[q] /\ (Checked(q)' <=> Checked(q)),
           lastSweep' = LastSweepAfter(stamp[r]),
           \A k \in DOMAIN windows' :
              \/ k \in DOMAIN Swept(stamp[r]) /\ windows'[k].start = Swept(stamp[r])[k].start
              \/ windows'[k].start = stamp[r]
    PROVE  SweepFacts'
<1> DEFINE now == stamp[r]
<1>1. now \in Instants /\ now <= clock /\ clock - now <= LockDelay
  BY DEF Stamped, Prompt
<1>2. clock \in Int /\ lastSweep \in Int /\ now \in Int
  BY <1>1, TimeAssumption DEF TypeOK, Instants, ZeroTime
<1>3. SweepDue(now) <=> now - lastSweep >= Window
  BY DEF SweepDue
<1>4. /\ lastSweep' \in Int
      /\ lastSweep' <= clock
      /\ lastSweep' >= lastSweep
      /\ now - lastSweep' < Window
  BY <1>1, <1>2, <1>3, TimeAssumption DEF LastSweepAfter, SweepFacts
<1>5. \A q \in Requests : Checked(q)' =>
            pc'[q] \notin {"new", "stamped"} /\ stamp'[q] - lastSweep' < Window
  <2> SUFFICES ASSUME NEW q \in Requests, Checked(q)'
               PROVE  pc'[q] \notin {"new", "stamped"} /\ stamp[q] - lastSweep' < Window
    OBVIOUS
  <2>1. CASE q = r
    BY <1>4, <2>1
  <2>2. CASE q # r
    <3>1. pc'[q] \notin {"new", "stamped"} /\ stamp[q] - lastSweep < Window
      BY <2>2 DEF SweepFacts
    <3>2. stamp[q] \in Int
      BY DEF TypeOK, Instants, NoTime
    <3> QED
      BY <1>2, <1>4, <3>1, <3>2, TimeAssumption
  <2> QED
    BY <2>1, <2>2
<1>6. now > lastSweep' - Window
  BY <1>1, <1>2, <1>3, TimeAssumption DEF LastSweepAfter, SweepFacts
<1>7. ASSUME NEW k \in DOMAIN Swept(now)
      PROVE  Swept(now)[k].start > lastSweep' - Window
  <2>1. k \in DOMAIN windows /\ Swept(now)[k] = windows[k]
    BY <1>7, SweptType DEF TypeOK
  <2>2. windows[k].start \in Int
    BY <2>1 DEF TypeOK, Instants
  <2>3. CASE SweepDue(now)
    <3>1. now - windows[k].start < Window
      BY <1>7, <2>3 DEF Swept
    <3> QED
      BY <1>2, <2>1, <2>2, <2>3, <3>1, TimeAssumption DEF LastSweepAfter
  <2>4. CASE ~SweepDue(now)
    BY <2>1, <2>4 DEF LastSweepAfter, SweepFacts
  <2> QED
    BY <2>3, <2>4
<1>8. \A k \in DOMAIN windows' : windows'[k].start > lastSweep' - Window
  BY <1>6, <1>7
<1> QED
  BY <1>4, <1>5, <1>8 DEF SweepFacts

\* The sweep's facts survive every step.
LEMMA SweepInductive ==
    ASSUME TypeOK, Stamped, Prompt, SweepFacts,
           SweepsWindows, LockDelay < Window, [Next]_vars
    PROVE  SweepFacts'
<1>1. CASE Tick
  <2>1. clock \in Int /\ lastSweep \in Int /\ clock' = clock + 1
    BY <1>1, TimeAssumption DEF Tick, TypeOK, Instants, ZeroTime
  <2>2. UNCHANGED <<pc, stamp, windows, lastSweep, countedAt, refusedBy>>
    BY <1>1 DEF Tick, windowVars, historyVars
  <2> QED
    BY <2>1, <2>2 DEF SweepFacts, Checked
<1>2. ASSUME NEW r \in Requests, Arrive(r)
      PROVE  SweepFacts'
  <2>1. pc[r] = "new" /\ ~Checked(r)
    BY <1>2 DEF Arrive, SweepFacts
  <2>2. UNCHANGED <<clock, windows, lastSweep, countedAt, refusedBy>>
    BY <1>2 DEF Arrive, windowVars, historyVars
  <2>3. \A q \in Requests \ {r} : pc'[q] = pc[q] /\ stamp'[q] = stamp[q]
    BY <1>2 DEF Arrive, TypeOK
  <2>4. \A q \in Requests : Checked(q)' <=> Checked(q)
    BY <2>2 DEF Checked
  <2> QED
    BY <2>1, <2>2, <2>3, <2>4 DEF SweepFacts
<1>3. ASSUME NEW r \in Requests, RefuseRate(r)
      PROVE  SweepFacts'
  <2>1. /\ pc[r] = "stamped" /\ clock' = clock /\ stamp' = stamp
        /\ lastSweep' = LastSweepAfter(stamp[r])
        /\ windows' = Swept(stamp[r])
        /\ countedAt' = countedAt
    BY <1>3 DEF RefuseRate
  <2>2. /\ pc'[r] = "refused"
        /\ \A q \in Requests \ {r} : pc'[q] = pc[q] /\ refusedBy'[q] = refusedBy[q]
    BY <1>3 DEF RefuseRate, TypeOK
  <2>3. \A q \in Requests \ {r} : Checked(q)' <=> Checked(q)
    BY <2>1, <2>2 DEF Checked
  <2> QED
    BY <2>1, <2>2, <2>3, CheckKeepsSweepFacts
<1>4. ASSUME NEW r \in Requests, RefuseCap(r) \/ Admit(r)
      PROVE  SweepFacts'
  <2> DEFINE now == stamp[r]
             key == ClientKey(r)
             win == WindowAt(key, now)
  <2>1. /\ pc[r] = "stamped" /\ ChargeAttempt(r)
        /\ clock' = clock /\ stamp' = stamp /\ refusedBy' = refusedBy
    BY <1>4 DEF RefuseCap, Admit
  <2>2. /\ pc'[r] \notin {"new", "stamped"}
        /\ \A q \in Requests \ {r} : pc'[q] = pc[q]
    BY <1>4 DEF RefuseCap, Admit, TypeOK
  <2>3. CASE ~RateLimited
    <3>1. UNCHANGED <<windows, lastSweep, countedAt>>
      BY <2>1, <2>3 DEF ChargeAttempt, windowVars
    <3>2. \A q \in Requests : Checked(q)' <=> Checked(q)
      BY <2>1, <3>1 DEF Checked
    <3> QED
      BY <2>1, <2>2, <3>1, <3>2 DEF SweepFacts
  <2>4. CASE RateLimited
    <3>1. /\ windows' = Store(Swept(now), key, [win EXCEPT !.count = @ + 1])
          /\ lastSweep' = LastSweepAfter(now)
          /\ \A q \in Requests \ {r} : countedAt'[q] = countedAt[q]
      BY <2>1, <2>4 DEF ChargeAttempt, TypeOK
    <3>2. \A q \in Requests \ {r} : Checked(q)' <=> Checked(q)
      BY <2>1, <3>1 DEF Checked
    <3>3. win \in [start : Instants, count : Nat]
      BY <2>1, WindowAtType DEF Stamped
    <3>4. \/ key \in DOMAIN Swept(now) /\ win.start = Swept(now)[key].start
          \/ win.start = now
      BY DEF WindowAt
    <3> HIDE DEF win
    <3>5. ASSUME NEW k \in DOMAIN windows'
          PROVE  \/ k \in DOMAIN Swept(now) /\ windows'[k].start = Swept(now)[k].start
                 \/ windows'[k].start = now
      <4>1. CASE k = key
        <5>1. windows'[k] = [win EXCEPT !.count = @ + 1]
          BY <3>1, <4>1 DEF Store
        <5>2. windows'[k].start = win.start
          BY <3>3, <5>1
        <5> QED
          BY <3>4, <4>1, <5>2
      <4>2. CASE k # key
        BY <3>1, <3>5, <4>2 DEF Store
      <4> QED
        BY <4>1, <4>2
    <3> QED
      BY <2>1, <2>2, <3>1, <3>2, <3>5, CheckKeepsSweepFacts
  <2> QED
    BY <2>3, <2>4
<1>5. ASSUME NEW r \in Requests, Clear(r)
      PROVE  SweepFacts'
  <2>1. UNCHANGED <<clock, stamp, windows, lastSweep, countedAt, refusedBy>>
    BY <1>5 DEF Clear, windowVars, historyVars
  <2>2. \A q \in Requests : pc'[q] \in {"new", "stamped"} => pc'[q] = pc[q]
    BY <1>5 DEF Clear, TypeOK
  <2>3. \A q \in Requests : Checked(q)' <=> Checked(q)
    BY <2>1 DEF Checked
  <2> QED
    BY <2>1, <2>2, <2>3 DEF SweepFacts
<1>6. CASE UNCHANGED vars
  BY <1>6 DEF vars, windowVars, historyVars, SweepFacts, Checked
<1> QED
  BY <1>1, <1>2, <1>3, <1>4, <1>5, <1>6 DEF Next

\* With the sweep, and the mutex reached within a window, the map of upgrade
\* windows holds nothing two windows older than a request already checked.
THEOREM WindowMapIsSwept == Spec => []WindowMapSwept
<1> DEFINE Inv == /\ TypeOK /\ Stamped /\ Prompt
                  /\ SweepsWindows /\ LockDelay < Window => SweepFacts
<1>1. Init => Inv
  <2>1. Init => Prompt
    BY DEF Init, Prompt
  <2>2. Init => SweepFacts
    BY TimeAssumption DEF Init, SweepFacts, Checked, ZeroTime
  <2> QED
    BY <2>1, <2>2, TypeInit
<1>2. Inv /\ [Next]_vars => Inv'
  BY TypeInductive, PromptInductive, SweepInductive
<1>3. Inv => WindowMapSwept
  <2> SUFFICES ASSUME Inv, SweepsWindows, LockDelay < Window,
                      NEW r \in Requests, NEW k \in DOMAIN windows, Checked(r)
               PROVE  windows[k].start > stamp[r] - 2 * Window
    BY DEF WindowMapSwept, Checked
  <2>1. stamp[r] - lastSweep < Window /\ windows[k].start > lastSweep - Window
    BY DEF SweepFacts
  <2>2. stamp[r] \in Int /\ lastSweep \in Int /\ windows[k].start \in Int
    BY TimeAssumption DEF TypeOK, Instants, NoTime, ZeroTime
  <2> QED
    BY <2>1, <2>2, TimeAssumption
<1> QED
  BY <1>1, <1>2, <1>3, PTL DEF Spec

-----------------------------------------------------------------------------
(* The rate over a sliding interval.  "of" says to which window, by its    *)
(* start, each request was charged: the code keeps no record of it, so the *)
(* invariant says that there is such a function.                           *)

Charged(r) == countedAt[r] # NoTime

ChargedTo(of, k, s) ==
    {r \in Requests : Charged(r) /\ ClientKey(r) = k /\ of[r] = s}

\* A request is charged while its window runs, or up to a lock delay after it.
ChargedInTime(of) ==
    \A r \in Requests : Charged(r) =>
        /\ pc[r] \notin {"new", "stamped"}
        /\ of[r] <= countedAt[r]
        /\ countedAt[r] < of[r] + Window + LockDelay
        /\ countedAt[r] <= clock

\* The request that opened the window was charged to it too.
OpenerCharged(of) ==
    \A r \in Requests : Charged(r) =>
        \E p \in Requests :
            /\ Charged(p) /\ ClientKey(p) = ClientKey(r) /\ of[p] = of[r]
            /\ countedAt[p] <= of[p] + LockDelay

\* A later window starts a window after an earlier one, less a lock delay, and
\* nobody is charged to it before the earlier one is over.
WindowsApart(of) ==
    \A r, q \in Requests :
        Charged(r) /\ Charged(q) /\ ClientKey(r) = ClientKey(q) /\ of[r] < of[q] =>
            /\ of[r] + Window <= of[q] + LockDelay
            /\ of[r] + Window <= countedAt[q]

WithinBudget(of) ==
    \A k \in Keys, s \in Int :
        Cardinality(ChargedTo(of, k, s)) <= MaxUpgradesPerClientPerMinute

\* The stored window is a client's latest and its count is exact; a client
\* without one has none that is still running.
LatestStored(of, stored) ==
    /\ \A r \in Requests : Charged(r) =>
          IF ClientKey(r) \in DOMAIN stored
          THEN of[r] <= stored[ClientKey(r)].start
          ELSE of[r] + Window <= clock
    /\ \A k \in DOMAIN stored :
          /\ ChargedTo(of, k, stored[k].start) # {}
          /\ stored[k].count = Cardinality(ChargedTo(of, k, stored[k].start))

RateFacts(of) ==
    /\ ChargedInTime(of) /\ OpenerCharged(of)
    /\ WindowsApart(of) /\ WithinBudget(of) /\ LatestStored(of, windows)

RateInv ==
    /\ TypeOK /\ Stamped /\ Prompt
    /\ RateLimited /\ 3 * LockDelay <= Window =>
          \E of \in [Requests -> Int] : RateFacts(of)

LEMMA ChargedToFinite ==
    \A of, k, s : /\ IsFiniteSet(ChargedTo(of, k, s))
                  /\ Cardinality(ChargedTo(of, k, s)) \in Nat
<1>1. \A of, k, s : ChargedTo(of, k, s) \subseteq Requests
  BY DEF ChargedTo
<1> QED
  BY <1>1, RequestsFinite, FS_Subset, FS_CardinalityType

\* A sweep takes away only windows that are over in real time.
LEMMA SweepKeepsLatest ==
    ASSUME TypeOK, NEW of \in [Requests -> Int], LatestStored(of, windows),
           NEW now \in Instants, now <= clock
    PROVE  LatestStored(of, Swept(now))
<1> DEFINE left == Swept(now)
<1>1. /\ DOMAIN left \subseteq DOMAIN windows
      /\ \A k \in DOMAIN left : left[k] = windows[k]
      /\ \A k \in DOMAIN windows \ DOMAIN left : ~(now - windows[k].start < Window)
  BY SweptType DEF TypeOK
<1>2. \A k \in DOMAIN windows : windows[k].start \in Int
  BY DEF TypeOK, Instants
<1>3. clock \in Int /\ now \in Int
  BY DEF TypeOK, Instants
<1> HIDE DEF left
<1>4. ASSUME NEW r \in Requests, Charged(r)
      PROVE  IF ClientKey(r) \in DOMAIN left
             THEN of[r] <= left[ClientKey(r)].start
             ELSE of[r] + Window <= clock
  <2>1. CASE ClientKey(r) \in DOMAIN left
    BY <1>1, <1>4, <2>1 DEF LatestStored
  <2>2. CASE ClientKey(r) \in DOMAIN windows \ DOMAIN left
    <3>1. of[r] <= windows[ClientKey(r)].start
      BY <1>4, <2>2 DEF LatestStored
    <3>2. of[r] \in Int /\ windows[ClientKey(r)].start \in Int
      BY <1>2, <2>2
    <3>3. ~(now - windows[ClientKey(r)].start < Window)
      BY <1>1, <2>2
    <3> QED
      BY <1>3, <2>2, <3>1, <3>2, <3>3, TimeAssumption
  <2>3. CASE ClientKey(r) \notin DOMAIN windows
    BY <1>1, <1>4, <2>3 DEF LatestStored
  <2> QED
    BY <2>1, <2>2, <2>3
<1>5. \A k \in DOMAIN left :
          /\ ChargedTo(of, k, left[k].start) # {}
          /\ left[k].count = Cardinality(ChargedTo(of, k, left[k].start))
  BY <1>1 DEF LatestStored
<1> QED
  BY <1>4, <1>5 DEF LatestStored, left

\* The window that a request is charged to, stored or new, is the client's
\* latest, runs or ran until a lock delay ago, and counts what it was charged.
LEMMA WindowToCharge ==
    ASSUME TypeOK, Stamped, Prompt, 3 * LockDelay <= Window,
           NEW of \in [Requests -> Int], RateFacts(of),
           NEW r \in Requests, pc[r] = "stamped"
    PROVE  LET win == WindowAt(ClientKey(r), stamp[r])
           IN  /\ win.start \in Int /\ win.count \in Nat
               /\ win.start <= clock /\ clock < win.start + Window + LockDelay
               /\ win.count = Cardinality(ChargedTo(of, ClientKey(r), win.start))
               /\ \/ clock <= win.start + LockDelay
                  \/ \E p \in Requests :
                        /\ Charged(p) /\ ClientKey(p) = ClientKey(r) /\ of[p] = win.start
                        /\ countedAt[p] <= of[p] + LockDelay
               /\ \A q \in Requests : Charged(q) /\ ClientKey(q) = ClientKey(r) =>
                     /\ of[q] <= win.start
                     /\ of[q] < win.start => /\ of[q] + Window <= win.start + LockDelay
                                             /\ of[q] + Window <= clock
<1> DEFINE now == stamp[r]
           key == ClientKey(r)
           left == Swept(now)
           win == WindowAt(key, now)
<1>1. /\ now \in Int /\ clock \in Int /\ now <= clock /\ clock <= now + LockDelay
      /\ now \in Instants
  BY TimeAssumption DEF Stamped, Prompt, TypeOK, Instants
<1>2. LatestStored(of, left)
  BY <1>1, SweepKeepsLatest DEF RateFacts
<1>3. win \in [start : Instants, count : Nat]
  BY <1>1, WindowAtType
<1>4. win.start \in Int /\ win.count \in Nat
  BY <1>3 DEF Instants
<1>5. \A q \in Requests : countedAt[q] \in Int /\ of[q] \in Int
  BY DEF TypeOK, Instants, NoTime
<1>6. CASE key \in DOMAIN left /\ now - left[key].start < Window
  <2>1. win = left[key]
    BY <1>6 DEF WindowAt
  <2> HIDE DEF win, left
  <2>2. PICK o \in ChargedTo(of, key, win.start) : TRUE
    BY <1>2, <1>6, <2>1 DEF LatestStored
  <2>3. o \in Requests /\ Charged(o) /\ ClientKey(o) = key /\ of[o] = win.start
    BY <2>2 DEF ChargedTo
  <2>4. win.start <= clock
    BY <1>1, <1>5, <2>3 DEF RateFacts, ChargedInTime
  <2>5. \E p \in Requests :
            /\ Charged(p) /\ ClientKey(p) = key /\ of[p] = win.start
            /\ countedAt[p] <= of[p] + LockDelay
    BY <2>3 DEF RateFacts, OpenerCharged
  <2>6. ASSUME NEW q \in Requests, Charged(q), ClientKey(q) = key
        PROVE  /\ of[q] <= win.start
               /\ of[q] < win.start => /\ of[q] + Window <= win.start + LockDelay
                                       /\ of[q] + Window <= clock
    <3>1. of[q] <= win.start
      BY <1>2, <1>6, <2>1, <2>6 DEF LatestStored
    <3>2. of[q] < win.start => /\ of[q] + Window <= of[o] + LockDelay
                               /\ of[q] + Window <= countedAt[o]
      BY <2>3, <2>6 DEF RateFacts, WindowsApart
    <3>3. countedAt[o] <= clock
      BY <2>3 DEF RateFacts, ChargedInTime
    <3> QED
      BY <1>1, <1>5, <2>3, <3>1, <3>2, <3>3, TimeAssumption
  <2>7. win.count = Cardinality(ChargedTo(of, key, win.start))
    BY <1>2, <1>6, <2>1 DEF LatestStored
  <2>8. clock < win.start + Window + LockDelay
    BY <1>1, <1>4, <1>6, <2>1, TimeAssumption
  <2> QED
    BY <1>4, <2>4, <2>5, <2>6, <2>7, <2>8 DEF win
<1>7. CASE ~(key \in DOMAIN left /\ now - left[key].start < Window)
  <2>1. win = [start |-> now, count |-> 0]
    BY <1>7 DEF WindowAt
  <2>2. win.start = now /\ win.count = 0
    BY <2>1
  <2> HIDE DEF win
  <2>3. ASSUME NEW q \in Requests, Charged(q), ClientKey(q) = key
        PROVE  of[q] + Window <= now + LockDelay /\ of[q] + Window <= clock
    <3>1. CASE key \in DOMAIN left
      <4>1. of[q] <= left[key].start
        BY <1>2, <2>3, <3>1 DEF LatestStored
      <4>2. key \in DOMAIN windows /\ left[key] = windows[key]
        BY <1>1, <3>1, SweptType DEF TypeOK
      <4>3. left[key].start \in Int
        BY <4>2 DEF TypeOK, Instants
      <4> HIDE DEF left
      <4> QED
        BY <1>1, <1>5, <1>7, <3>1, <4>1, <4>3, TimeAssumption
    <3>2. CASE key \notin DOMAIN left
      <4>1. of[q] + Window <= clock
        BY <1>2, <2>3, <3>2 DEF LatestStored
      <4> QED
        BY <1>1, <1>5, <4>1, TimeAssumption
    <3> QED
      BY <3>1, <3>2
  <2>4. \A q \in Requests : Charged(q) /\ ClientKey(q) = key => of[q] < now
    <3>1. LockDelay < Window
      BY TimeAssumption
    <3> QED
      BY <1>1, <1>5, <2>3, <3>1, TimeAssumption
  <2>5. ChargedTo(of, key, win.start) = {}
    BY <1>1, <1>5, <2>2, <2>4 DEF ChargedTo
  <2>6. win.count = Cardinality(ChargedTo(of, key, win.start))
    BY <2>2, <2>5, FS_EmptySet
  <2>7. \A q \in Requests : Charged(q) /\ ClientKey(q) = key =>
           /\ of[q] <= win.start
           /\ of[q] < win.start => /\ of[q] + Window <= win.start + LockDelay
                                   /\ of[q] + Window <= clock
    BY <1>1, <1>5, <2>2, <2>3, <2>4
  <2>8. clock < win.start + Window + LockDelay /\ clock <= win.start + LockDelay
    BY <1>1, <2>2, TimeAssumption
  <2> QED
    BY <1>1, <1>4, <2>2, <2>6, <2>7, <2>8 DEF win
<1> QED
  BY <1>6, <1>7

\* Charging a request to that window keeps the facts.
LEMMA ChargeKeepsRate ==
    ASSUME TypeOK, TypeOK', Stamped, Prompt, RateLimited, 3 * LockDelay <= Window,
           NEW of \in [Requests -> Int], RateFacts(of),
           NEW r \in Requests, pc[r] = "stamped", ChargeAttempt(r), clock' = clock,
           pc'[r] \notin {"new", "stamped"},
           \A q \in Requests \ {r} : pc'[q] = pc[q]
    PROVE  \E new \in [Requests -> Int] : RateFacts(new)'
<1> DEFINE now == stamp[r]
           key == ClientKey(r)
           left == Swept(now)
           win == WindowAt(key, now)
<1>1. /\ win.start \in Int /\ win.count \in Nat
      /\ win.start <= clock /\ clock < win.start + Window + LockDelay
      /\ win.count = Cardinality(ChargedTo(of, key, win.start))
      /\ \/ clock <= win.start + LockDelay
         \/ \E p \in Requests :
               /\ Charged(p) /\ ClientKey(p) = key /\ of[p] = win.start
               /\ countedAt[p] <= of[p] + LockDelay
      /\ \A q \in Requests : Charged(q) /\ ClientKey(q) = key =>
            /\ of[q] <= win.start
            /\ of[q] < win.start => /\ of[q] + Window <= win.start + LockDelay
                                    /\ of[q] + Window <= clock
  BY WindowToCharge
<1>2. /\ win.count < MaxUpgradesPerClientPerMinute
      /\ windows' = Store(left, key, [win EXCEPT !.count = @ + 1])
      /\ countedAt' = [countedAt EXCEPT ![r] = clock]
  BY DEF ChargeAttempt
<1>3. now \in Instants /\ now <= clock
  BY DEF Stamped, Prompt
<1>4. LatestStored(of, left)
  BY <1>3, SweepKeepsLatest DEF RateFacts
<1>5. win \in [start : Instants, count : Nat]
  BY <1>3, WindowAtType
<1> HIDE DEF win, left
<1>6. PICK s \in Int : s = win.start
  BY <1>1
<1>7. PICK new \in [Requests -> Int] : new = [of EXCEPT ![r] = s]
  BY <1>6
<1>8. /\ new[r] = s
      /\ \A q \in Requests \ {r} : new[q] = of[q]
  BY <1>7
<1>9. /\ countedAt'[r] = clock
      /\ \A q \in Requests \ {r} : countedAt'[q] = countedAt[q]
  BY <1>2 DEF TypeOK
<1>10. clock \in Int /\ clock # NoTime
  BY DEF TypeOK, Instants, NoTime
<1>11. ~Charged(r)
  BY DEF RateFacts, ChargedInTime
<1>12. Charged(r)' /\ \A q \in Requests \ {r} : Charged(q)' <=> Charged(q)
  BY <1>9, <1>10 DEF Charged
<1>13. \A q \in Requests : countedAt[q] \in Int /\ of[q] \in Int
  BY DEF TypeOK, Instants, NoTime
<1>14. ChargedInTime(new)'
  <2> SUFFICES ASSUME NEW q \in Requests, Charged(q)'
               PROVE  /\ pc'[q] \notin {"new", "stamped"}
                      /\ new[q] <= countedAt'[q]
                      /\ countedAt'[q] < new[q] + Window + LockDelay
                      /\ countedAt'[q] <= clock'
    BY DEF ChargedInTime
  <2>1. CASE q = r
    BY <1>1, <1>6, <1>8, <1>9, <1>10, <2>1
  <2>2. CASE q # r
    BY <1>8, <1>9, <1>12, <2>2 DEF RateFacts, ChargedInTime
  <2> QED
    BY <2>1, <2>2
<1>15. OpenerCharged(new)'
  <2> SUFFICES ASSUME NEW q \in Requests, Charged(q)'
               PROVE  \E p \in Requests :
                         /\ Charged(p)' /\ ClientKey(p) = ClientKey(q) /\ new[p] = new[q]
                         /\ countedAt'[p] <= new[p] + LockDelay
    BY DEF OpenerCharged
  <2>1. ASSUME NEW p \in Requests, Charged(p), countedAt[p] <= of[p] + LockDelay
        PROVE  Charged(p)' /\ new[p] = of[p] /\ countedAt'[p] <= new[p] + LockDelay
    BY <1>8, <1>9, <1>11, <1>12, <2>1
  <2>2. CASE q = r
    <3>1. CASE clock <= win.start + LockDelay
      BY <1>6, <1>8, <1>9, <1>12, <2>2, <3>1
    <3>2. CASE \E p \in Requests :
                  /\ Charged(p) /\ ClientKey(p) = key /\ of[p] = win.start
                  /\ countedAt[p] <= of[p] + LockDelay
      BY <1>6, <1>8, <2>1, <2>2, <3>2
    <3> QED
      BY <1>1, <3>1, <3>2
  <2>3. CASE q # r
    <3>1. Charged(q) /\ new[q] = of[q]
      BY <1>8, <1>12, <2>3
    <3>2. PICK p \in Requests :
              /\ Charged(p) /\ ClientKey(p) = ClientKey(q) /\ of[p] = of[q]
              /\ countedAt[p] <= of[p] + LockDelay
      BY <3>1 DEF RateFacts, OpenerCharged
    <3> QED
      BY <2>1, <3>1, <3>2
  <2> QED
    BY <2>2, <2>3
<1>16. WindowsApart(new)'
  <2> SUFFICES ASSUME NEW p \in Requests, NEW q \in Requests, Charged(p)', Charged(q)',
                      ClientKey(p) = ClientKey(q), new[p] < new[q]
               PROVE  /\ new[p] + Window <= new[q] + LockDelay
                      /\ new[p] + Window <= countedAt'[q]
    BY DEF WindowsApart
  <2>1. p # q
    OBVIOUS
  <2>2. CASE p = r
    <3>1. Charged(q) /\ ClientKey(q) = key /\ new[q] = of[q] /\ new[p] = s
      BY <1>8, <1>12, <2>1, <2>2
    <3>2. of[q] <= s
      BY <1>1, <1>6, <3>1
    <3> QED
      BY <1>13, <3>1, <3>2
  <2>3. CASE q = r
    <3>1. Charged(p) /\ ClientKey(p) = key /\ new[p] = of[p] /\ new[q] = s
      BY <1>8, <1>12, <2>1, <2>3
    <3>2. of[p] < win.start
      BY <1>6, <3>1
    <3>3. /\ of[p] + Window <= win.start + LockDelay
          /\ of[p] + Window <= clock
      BY <1>1, <3>1, <3>2
    <3> QED
      BY <1>6, <1>9, <2>3, <3>1, <3>3
  <2>4. CASE p # r /\ q # r
    <3>1. /\ Charged(p) /\ Charged(q) /\ new[p] = of[p] /\ new[q] = of[q]
          /\ countedAt'[q] = countedAt[q]
      BY <1>8, <1>9, <1>12, <2>4
    <3> QED
      BY <3>1 DEF RateFacts, WindowsApart
  <2> QED
    BY <2>2, <2>3, <2>4
<1> DEFINE After(k, z) == {q \in Requests : Charged(q)' /\ ClientKey(q) = k /\ new[q] = z}
<1>17. After(key, s) = ChargedTo(of, key, s) \cup {r}
  <2>1. ASSUME NEW q \in Requests
        PROVE  (Charged(q)' /\ ClientKey(q) = key /\ new[q] = s)
                 <=> ((Charged(q) /\ ClientKey(q) = key /\ of[q] = s) \/ q = r)
    BY <1>8, <1>12
  <2> QED
    BY <2>1 DEF ChargedTo
<1>18. \A k \in Keys, z \in Int : k # key \/ z # s =>
          After(k, z) = ChargedTo(of, k, z)
  <2> SUFFICES ASSUME NEW k \in Keys, NEW z \in Int, k # key \/ z # s
               PROVE  After(k, z) = ChargedTo(of, k, z)
    OBVIOUS
  <2>1. ASSUME NEW q \in Requests
        PROVE  (Charged(q)' /\ ClientKey(q) = k /\ new[q] = z)
                 <=> (Charged(q) /\ ClientKey(q) = k /\ of[q] = z)
    BY <1>8, <1>11, <1>12
  <2> QED
    BY <2>1 DEF ChargedTo
<1>19. Cardinality(ChargedTo(of, key, s) \cup {r}) = win.count + 1
  <2>1. r \notin ChargedTo(of, key, s)
    BY <1>11 DEF ChargedTo
  <2>2. IsFiniteSet(ChargedTo(of, key, s))
    BY ChargedToFinite
  <2>3. Cardinality(ChargedTo(of, key, s) \cup {r}) = Cardinality(ChargedTo(of, key, s)) + 1
    BY <2>1, <2>2, FS_AddElement
  <2> QED
    BY <1>1, <1>6, <2>3
<1>20. WithinBudget(new)'
  <2> SUFFICES ASSUME NEW k \in Keys, NEW z \in Int
               PROVE  Cardinality(After(k, z)) <= MaxUpgradesPerClientPerMinute
    BY DEF WithinBudget, ChargedTo
  <2> HIDE DEF After
  <2>1. CASE k = key /\ z = s
    BY <1>1, <1>2, <1>17, <1>19, <2>1, ConfigAssumption
  <2>2. CASE k # key \/ z # s
    BY <1>18, <2>2 DEF RateFacts, WithinBudget
  <2> QED
    BY <2>1, <2>2
<1>21. /\ DOMAIN windows' = DOMAIN left \cup {key}
       /\ windows'[key].start = s /\ windows'[key].count = win.count + 1
       /\ \A k \in DOMAIN left \ {key} : windows'[k] = left[k]
  <2>1. windows'[key] = [win EXCEPT !.count = @ + 1]
    BY <1>2 DEF Store
  <2> QED
    BY <1>2, <1>5, <1>6, <2>1 DEF Store
<1>22. LatestStored(new, windows)'
  <2>1. ASSUME NEW q \in Requests, Charged(q)'
        PROVE  IF ClientKey(q) \in DOMAIN windows'
               THEN new[q] <= windows'[ClientKey(q)].start
               ELSE new[q] + Window <= clock'
    <3>1. CASE q = r
      BY <1>8, <1>21, <3>1
    <3>2. CASE q # r /\ ClientKey(q) = key
      <4>1. Charged(q) /\ new[q] = of[q]
        BY <1>8, <1>12, <2>1, <3>2
      <4> QED
        BY <1>1, <1>6, <1>21, <3>2, <4>1
    <3>3. CASE q # r /\ ClientKey(q) # key
      <4>1. Charged(q) /\ new[q] = of[q]
        BY <1>8, <1>12, <2>1, <3>3
      <4>2. IF ClientKey(q) \in DOMAIN left
            THEN of[q] <= left[ClientKey(q)].start
            ELSE of[q] + Window <= clock
        BY <1>4, <4>1 DEF LatestStored
      <4> QED
        BY <1>21, <3>3, <4>1, <4>2
    <3> QED
      BY <3>1, <3>2, <3>3
  <2>2. ASSUME NEW k \in DOMAIN windows'
        PROVE  LET z == windows'[k].start
               IN  /\ After(k, z) # {}
                   /\ windows'[k].count = Cardinality(After(k, z))
    <3> HIDE DEF After
    <3>1. CASE k = key
      BY <1>17, <1>19, <1>21, <3>1
    <3>2. CASE k # key
      <4>1. k \in DOMAIN left /\ windows'[k] = left[k]
        BY <1>21, <2>2, <3>2
      <4>2. k \in Keys /\ windows'[k].start \in Int
        BY <2>2 DEF TypeOK, Instants
      <4>3. /\ ChargedTo(of, k, left[k].start) # {}
            /\ left[k].count = Cardinality(ChargedTo(of, k, left[k].start))
        BY <1>4, <4>1 DEF LatestStored
      <4>4. After(k, windows'[k].start) = ChargedTo(of, k, windows'[k].start)
        BY <1>18, <3>2, <4>2
      <4> QED
        BY <4>1, <4>3, <4>4
    <3> QED
      BY <3>1, <3>2
  <2> QED
    BY <2>1, <2>2 DEF LatestStored, ChargedTo
<1>23. RateFacts(new)'
  BY <1>14, <1>15, <1>16, <1>20, <1>22 DEF RateFacts
<1> QED
  BY <1>23

\* A step that charges nobody keeps the facts, if it leaves the windows alone
\* or only sweeps them.
LEMMA QuietStepKeepsRate ==
    ASSUME TypeOK, TypeOK', NEW of \in [Requests -> Int], RateFacts(of),
           countedAt' = countedAt, clock <= clock',
           \A q \in Requests : pc'[q] \in {"new", "stamped"} => pc[q] \in {"new", "stamped"},
           \/ windows' = windows
           \/ \E now \in Instants : now <= clock /\ windows' = Swept(now)
    PROVE  RateFacts(of)'
<1>1. \A q \in Requests : Charged(q)' <=> Charged(q)
  BY DEF Charged
<1>2. \A q \in Requests : countedAt[q] \in Int /\ of[q] \in Int
  BY DEF TypeOK, Instants, NoTime
<1>3. clock \in Int /\ clock' \in Int
  BY DEF TypeOK, Instants
<1>4. ChargedInTime(of)'
  BY <1>1, <1>2, <1>3 DEF RateFacts, ChargedInTime
<1>5. OpenerCharged(of)'
  BY <1>1 DEF RateFacts, OpenerCharged
<1>6. WindowsApart(of)'
  BY <1>1 DEF RateFacts, WindowsApart
<1> DEFINE After(k, z) == {q \in Requests : Charged(q)' /\ ClientKey(q) = k /\ of[q] = z}
<1>7. \A k, z : After(k, z) = ChargedTo(of, k, z)
  BY <1>1 DEF ChargedTo
<1>8. WithinBudget(of)'
  <2> SUFFICES ASSUME NEW k \in Keys, NEW z \in Int
               PROVE  Cardinality(After(k, z)) <= MaxUpgradesPerClientPerMinute
    BY DEF WithinBudget, ChargedTo
  <2> HIDE DEF After
  <2> QED
    BY <1>7 DEF RateFacts, WithinBudget
<1>9. LatestStored(of, windows)'
  <2>1. PICK stored : stored = windows' /\ LatestStored(of, stored)
    <3>1. CASE windows' = windows
      BY <3>1 DEF RateFacts
    <3>2. CASE \E now \in Instants : now <= clock /\ windows' = Swept(now)
      BY <3>2, SweepKeepsLatest DEF RateFacts
    <3> QED
      BY <3>1, <3>2
  <2>2. ASSUME NEW q \in Requests, Charged(q)'
        PROVE  IF ClientKey(q) \in DOMAIN stored
               THEN of[q] <= stored[ClientKey(q)].start
               ELSE of[q] + Window <= clock'
    <3>1. IF ClientKey(q) \in DOMAIN stored
          THEN of[q] <= stored[ClientKey(q)].start
          ELSE of[q] + Window <= clock
      BY <1>1, <2>1, <2>2 DEF LatestStored
    <3> QED
      BY <1>2, <1>3, <3>1, TimeAssumption
  <2>3. \A k \in DOMAIN stored :
           /\ After(k, stored[k].start) # {}
           /\ stored[k].count = Cardinality(After(k, stored[k].start))
    <3> HIDE DEF After
    <3> QED
      BY <1>7, <2>1 DEF LatestStored
  <2> QED
    BY <2>1, <2>2, <2>3 DEF LatestStored, ChargedTo
<1> QED
  BY <1>4, <1>5, <1>6, <1>8, <1>9 DEF RateFacts

LEMMA RateInductive == RateInv /\ [Next]_vars => RateInv'
<1> SUFFICES ASSUME RateInv, [Next]_vars
             PROVE  RateInv'
  OBVIOUS
<1>1. TypeOK /\ Stamped /\ Prompt
  BY DEF RateInv
<1>2. TypeOK' /\ Stamped' /\ Prompt'
  BY <1>1, TypeInductive, PromptInductive
<1> SUFFICES ASSUME RateLimited, 3 * LockDelay <= Window
             PROVE  \E new \in [Requests -> Int] : RateFacts(new)'
  BY <1>2 DEF RateInv, RateLimited
<1>3. PICK of \in [Requests -> Int] : RateFacts(of)
  BY DEF RateInv
<1>4. CASE Tick
  <2>1. clock <= clock'
    BY <1>1, <1>4 DEF Tick, TypeOK, Instants
  <2>2. UNCHANGED <<pc, countedAt, windows>>
    BY <1>4 DEF Tick, windowVars, historyVars
  <2> QED
    BY <1>1, <1>2, <1>3, <2>1, <2>2, QuietStepKeepsRate
<1>5. ASSUME NEW r \in Requests, Arrive(r)
      PROVE  \E new \in [Requests -> Int] : RateFacts(new)'
  <2>1. UNCHANGED <<clock, countedAt, windows>> /\ clock <= clock'
    BY <1>1, <1>5 DEF Arrive, windowVars, historyVars, TypeOK, Instants
  <2>2. \A q \in Requests : pc'[q] \in {"new", "stamped"} => pc[q] \in {"new", "stamped"}
    BY <1>1, <1>5 DEF Arrive, TypeOK
  <2> QED
    BY <1>1, <1>2, <1>3, <2>1, <2>2, QuietStepKeepsRate
<1>6. ASSUME NEW r \in Requests, RefuseRate(r)
      PROVE  \E new \in [Requests -> Int] : RateFacts(new)'
  <2>1. countedAt' = countedAt /\ clock <= clock'
    BY <1>1, <1>6 DEF RefuseRate, TypeOK, Instants
  <2>2. \A q \in Requests : pc'[q] \in {"new", "stamped"} => pc[q] \in {"new", "stamped"}
    BY <1>1, <1>6 DEF RefuseRate, TypeOK
  <2>3. windows' = Swept(stamp[r]) /\ stamp[r] \in Instants /\ stamp[r] <= clock
    BY <1>1, <1>6 DEF RefuseRate, Stamped, Prompt
  <2>4. \E now \in Instants : now <= clock /\ windows' = Swept(now)
    BY <2>3
  <2> QED
    BY <1>1, <1>2, <1>3, <2>1, <2>2, <2>4, QuietStepKeepsRate
<1>7. ASSUME NEW r \in Requests, RefuseCap(r) \/ Admit(r)
      PROVE  \E new \in [Requests -> Int] : RateFacts(new)'
  <2>1. /\ pc[r] = "stamped" /\ ChargeAttempt(r) /\ clock' = clock
        /\ pc'[r] \notin {"new", "stamped"}
        /\ \A q \in Requests \ {r} : pc'[q] = pc[q]
    BY <1>1, <1>7 DEF RefuseCap, Admit, TypeOK
  <2> QED
    BY <1>1, <1>2, <1>3, <2>1, ChargeKeepsRate
<1>8. ASSUME NEW r \in Requests, Clear(r)
      PROVE  \E new \in [Requests -> Int] : RateFacts(new)'
  <2>1. UNCHANGED <<clock, countedAt, windows>> /\ clock <= clock'
    BY <1>1, <1>8 DEF Clear, windowVars, historyVars, TypeOK, Instants
  <2>2. \A q \in Requests : pc'[q] \in {"new", "stamped"} => pc[q] \in {"new", "stamped"}
    BY <1>1, <1>8 DEF Clear, TypeOK
  <2> QED
    BY <1>1, <1>2, <1>3, <2>1, <2>2, QuietStepKeepsRate
<1>9. CASE UNCHANGED vars
  <2>1. UNCHANGED <<pc, clock, countedAt, windows>> /\ clock <= clock'
    BY <1>1, <1>9 DEF vars, windowVars, historyVars, TypeOK, Instants
  <2> QED
    BY <1>1, <1>2, <1>3, <2>1, QuietStepKeepsRate
<1> QED
  BY <1>4, <1>5, <1>6, <1>7, <1>8, <1>9 DEF Next

LEMMA RateInit == Init => RateInv
<1> SUFFICES ASSUME Init
             PROVE  RateInv
  OBVIOUS
<1>1. TypeOK /\ Stamped /\ Prompt
  BY TypeInit DEF Init, Prompt
<1> DEFINE of == [r \in Requests |-> 0]
<1>2. of \in [Requests -> Int]
  OBVIOUS
<1> HIDE DEF of
<1>3. \A r \in Requests : ~Charged(r)
  BY DEF Init, Charged
<1>4. \A k, s : ChargedTo(of, k, s) = {}
  BY <1>3 DEF ChargedTo
<1>5. WithinBudget(of)
  BY <1>4, FS_EmptySet, ConfigAssumption DEF WithinBudget
<1>6. DOMAIN windows = {}
  BY DEF Init
<1>7. RateFacts(of)
  BY <1>3, <1>5, <1>6
     DEF RateFacts, ChargedInTime, OpenerCharged, WindowsApart, LatestStored
<1> QED
  BY <1>1, <1>2, <1>7 DEF RateInv

LEMMA CoverBound ==
    ASSUME NEW C, NEW S, NEW T, IsFiniteSet(S), IsFiniteSet(T), C \subseteq S \cup T
    PROVE  /\ IsFiniteSet(C) /\ IsFiniteSet(S \cup T)
           /\ Cardinality(C) <= Cardinality(S) + Cardinality(T)
           /\ Cardinality(S \cup T) <= Cardinality(S) + Cardinality(T)
<1>1. /\ IsFiniteSet(S \cup T)
      /\ Cardinality(S \cup T) = Cardinality(S) + Cardinality(T) - Cardinality(S \cap T)
  BY FS_Union
<1>2. IsFiniteSet(S \cap T)
  <2>1. S \cap T \in SUBSET S
    OBVIOUS
  <2> QED
    BY <2>1, FS_Subset
<1>3. IsFiniteSet(C) /\ Cardinality(C) <= Cardinality(S \cup T)
  BY <1>1, FS_Subset
<1>4. /\ Cardinality(S) \in Nat /\ Cardinality(T) \in Nat
      /\ Cardinality(S \cap T) \in Nat /\ Cardinality(C) \in Nat
  BY <1>2, <1>3, FS_CardinalityType
<1> QED
  BY <1>1, <1>3, <1>4

\* An interval one window long meets at most three windows of a client, two
\* without a lock delay; when it meets that many, it begins after the request
\* that opened the first of them was charged.
LEMMA RateFactsBound ==
    ASSUME TypeOK, RateLimited, 3 * LockDelay <= Window,
           NEW of \in [Requests -> Int], RateFacts(of),
           NEW k \in Keys, NEW t \in Instants
    PROVE  Cardinality(ChargedWithin(k, t))
              < (IF LockDelay = 0 THEN 2 ELSE 3) * MaxUpgradesPerClientPerMinute
<1> DEFINE C == ChargedWithin(k, t)
           G(s) == ChargedTo(of, k, s)
           B == MaxUpgradesPerClientPerMinute
<1>1. B \in Nat /\ B >= 1 /\ B < 2 * B /\ B < 3 * B /\ 2 * B < 3 * B
  BY ConfigAssumption DEF RateLimited
<1>2. t \in Int /\ t >= 0
  BY DEF Instants
<1>3. ASSUME NEW q \in C
      PROVE  /\ q \in Requests /\ Charged(q) /\ ClientKey(q) = k
             /\ of[q] \in Int /\ countedAt[q] \in Int
             /\ t <= countedAt[q] /\ countedAt[q] < t + Window
             /\ of[q] <= countedAt[q] /\ countedAt[q] < of[q] + Window + LockDelay
             /\ q \in G(of[q])
  <2>1. q \in Requests /\ ClientKey(q) = k /\ countedAt[q] \in t .. (t + Window - 1)
    BY <1>3 DEF ChargedWithin
  <2>2. countedAt[q] \in Int /\ t <= countedAt[q] /\ countedAt[q] < t + Window
    BY <1>2, <2>1, TimeAssumption
  <2>3. Charged(q)
    BY <1>2, <2>2 DEF Charged, NoTime
  <2> QED
    BY <2>1, <2>2, <2>3 DEF RateFacts, ChargedInTime, ChargedTo
<1>4. \A s \in Int : /\ IsFiniteSet(G(s)) /\ Cardinality(G(s)) \in Nat
                     /\ Cardinality(G(s)) <= B
  BY ChargedToFinite DEF RateFacts, WithinBudget
<1>5. ASSUME NEW x \in C, NEW y \in C, of[x] < of[y]
      PROVE  of[x] + Window <= of[y] + LockDelay /\ of[x] + Window <= countedAt[y]
  BY <1>3, <1>5 DEF RateFacts, WindowsApart
<1>6. ASSUME NEW x \in C
      PROVE  \E p \in G(of[x]) : countedAt[p] \in Int /\ countedAt[p] <= of[x] + LockDelay
  <2>1. PICK p \in Requests :
            /\ Charged(p) /\ ClientKey(p) = ClientKey(x) /\ of[p] = of[x]
            /\ countedAt[p] <= of[p] + LockDelay
    BY <1>3 DEF RateFacts, OpenerCharged
  <2>2. countedAt[p] \in Int
    BY DEF TypeOK, Instants, NoTime
  <2> QED
    BY <1>3, <2>1, <2>2 DEF ChargedTo
<1> HIDE DEF C, G, B
<1>7. CASE \E x, y, z \in C : of[x] < of[y] /\ of[y] < of[z]
  <2>1. PICK x \in C, y \in C, z \in C : of[x] < of[y] /\ of[y] < of[z]
    BY <1>7
  <2>2. /\ of[x] + Window <= of[y] + LockDelay /\ of[y] + Window <= countedAt[z]
        /\ of[y] + Window <= of[z] + LockDelay
    BY <1>5, <2>1
  <2>3. LockDelay # 0
    BY <1>2, <1>3, <2>2, TimeAssumption
  <2>4. ASSUME NEW q \in C
        PROVE  of[q] \in {of[x], of[y], of[z]}
    <3>1. ASSUME NEW a \in C, NEW b \in C, NEW c \in C, NEW d \in C,
                 of[a] < of[b], of[b] < of[c], of[c] < of[d]
          PROVE  FALSE
      <4>1. of[a] + Window <= of[b] + LockDelay
        BY <1>5, <3>1
      <4>2. of[b] + Window <= of[c] + LockDelay
        BY <1>5, <3>1
      <4>3. of[c] + Window <= countedAt[d]
        BY <1>5, <3>1
      <4>4. /\ countedAt[a] < of[a] + Window + LockDelay /\ t <= countedAt[a]
            /\ countedAt[d] < t + Window
            /\ of[a] \in Int /\ of[b] \in Int /\ of[c] \in Int
            /\ countedAt[a] \in Int /\ countedAt[d] \in Int
        BY <1>3
      <4> QED
        BY <1>2, <4>1, <4>2, <4>3, <4>4, TimeAssumption
    <3>2. of[q] \in Int /\ of[x] \in Int /\ of[y] \in Int /\ of[z] \in Int
      BY <1>3
    <3>3. ~(of[q] < of[x])
      BY <2>1, <3>1
    <3>4. ~(of[x] < of[q] /\ of[q] < of[y])
      BY <2>1, <3>1
    <3>5. ~(of[y] < of[q] /\ of[q] < of[z])
      BY <2>1, <3>1
    <3>6. ~(of[z] < of[q])
      BY <2>1, <3>1
    <3> QED
      BY <3>2, <3>3, <3>4, <3>5, <3>6
  <2>5. PICK o \in G(of[x]) : countedAt[o] \in Int /\ countedAt[o] <= of[x] + LockDelay
    BY <1>6
  <2>6. o \notin C
    <3>1. /\ countedAt[z] < t + Window /\ countedAt[z] \in Int
          /\ of[x] \in Int /\ of[y] \in Int
      BY <1>3
    <3>2. countedAt[o] < t
      BY <1>2, <2>2, <2>5, <3>1, TimeAssumption
    <3> QED
      BY <1>2, <1>3, <2>5, <3>2
  <2> DEFINE first == G(of[x]) \ {o}
             rest == G(of[y]) \cup G(of[z])
  <2>7. C \subseteq first \cup rest
    <3> SUFFICES ASSUME NEW q \in C
                 PROVE  q \in first \cup rest
      OBVIOUS
    <3> QED
      BY <1>3, <2>4, <2>6
  <2>8. /\ IsFiniteSet(G(of[x])) /\ IsFiniteSet(G(of[y])) /\ IsFiniteSet(G(of[z]))
        /\ Cardinality(G(of[x])) <= B /\ Cardinality(G(of[x])) \in Nat
        /\ Cardinality(G(of[y])) <= B /\ Cardinality(G(of[y])) \in Nat
        /\ Cardinality(G(of[z])) <= B /\ Cardinality(G(of[z])) \in Nat
    BY <1>3, <1>4
  <2>9. IsFiniteSet(first) /\ Cardinality(first) = Cardinality(G(of[x])) - 1
    BY <2>5, <2>8, FS_RemoveElement
  <2>10. IsFiniteSet(rest) /\ Cardinality(rest) <= Cardinality(G(of[y])) + Cardinality(G(of[z]))
    BY <2>8, CoverBound
  <2>11. /\ IsFiniteSet(C) /\ Cardinality(C) <= Cardinality(first) + Cardinality(rest)
    <3> HIDE DEF first, rest
    <3> QED
      BY <2>7, <2>9, <2>10, CoverBound
  <2>12. Cardinality(C) \in Nat /\ Cardinality(rest) \in Nat
    BY <2>10, <2>11, FS_CardinalityType
  <2>13. Cardinality(C) < 3 * B
    <3> HIDE DEF first, rest
    <3> QED
      BY <1>1, <2>8, <2>9, <2>10, <2>11, <2>12
  <2> QED
    BY <2>3, <2>13 DEF C, B
<1>8. CASE /\ ~ \E x, y, z \in C : of[x] < of[y] /\ of[y] < of[z]
           /\ \E x, y \in C : of[x] < of[y]
  <2>1. PICK x \in C, y \in C : of[x] < of[y]
    BY <1>8
  <2>2. \A q \in C : of[q] \in {of[x], of[y]}
    BY <1>3, <1>8, <2>1
  <2>3. /\ IsFiniteSet(G(of[x])) /\ IsFiniteSet(G(of[y]))
        /\ Cardinality(G(of[x])) <= B /\ Cardinality(G(of[x])) \in Nat
        /\ Cardinality(G(of[y])) <= B /\ Cardinality(G(of[y])) \in Nat
    BY <1>3, <1>4
  <2>4. PICK o \in G(of[x]) : countedAt[o] \in Int /\ countedAt[o] <= of[x] + LockDelay
    BY <1>6
  <2> DEFINE first == IF LockDelay = 0 THEN G(of[x]) \ {o} ELSE G(of[x])
  <2>5. LockDelay = 0 => o \notin C
    <3>1. /\ countedAt[y] < t + Window /\ countedAt[y] \in Int /\ of[x] \in Int
          /\ of[x] + Window <= countedAt[y]
      BY <1>3, <1>5, <2>1
    <3>2. LockDelay = 0 => countedAt[o] < t
      BY <1>2, <2>4, <3>1, TimeAssumption
    <3> QED
      BY <1>2, <1>3, <2>4, <3>2
  <2>6. C \subseteq first \cup G(of[y])
    <3> SUFFICES ASSUME NEW q \in C
                 PROVE  q \in first \cup G(of[y])
      OBVIOUS
    <3> QED
      BY <1>3, <2>2, <2>5
  <2>7. /\ IsFiniteSet(first)
        /\ Cardinality(first) = IF LockDelay = 0 THEN Cardinality(G(of[x])) - 1
                                                 ELSE Cardinality(G(of[x]))
    <3>1. CASE LockDelay = 0
      BY <2>3, <2>4, <3>1, FS_RemoveElement
    <3>2. CASE LockDelay # 0
      BY <2>3, <3>2
    <3> QED
      BY <3>1, <3>2
  <2> HIDE DEF first
  <2>8. IsFiniteSet(C) /\ Cardinality(C) <= Cardinality(first) + Cardinality(G(of[y]))
    BY <2>3, <2>6, <2>7, CoverBound
  <2>9. Cardinality(C) \in Nat
    BY <2>8, FS_CardinalityType
  <2>10. Cardinality(C) < (IF LockDelay = 0 THEN 2 ELSE 3) * B
    <3>1. CASE LockDelay = 0
      BY <1>1, <2>3, <2>7, <2>8, <2>9, <3>1
    <3>2. CASE LockDelay # 0
      BY <1>1, <2>3, <2>7, <2>8, <2>9, <3>2
    <3> QED
      BY <3>1, <3>2
  <2> QED
    BY <2>10 DEF C, B
<1>9. CASE ~ \E x, y \in C : of[x] < of[y]
  <2>1. IsFiniteSet(C) /\ Cardinality(C) \in Nat /\ Cardinality(C) <= B
    <3>1. CASE C = {}
      BY <1>1, <3>1, FS_EmptySet
    <3>2. CASE C # {}
      <4>1. PICK x \in C : TRUE
        BY <3>2
      <4>2. \A q \in C : of[q] = of[x]
        BY <1>3, <1>9
      <4>3. C \in SUBSET G(of[x])
        BY <1>3, <4>2
      <4>4. /\ IsFiniteSet(G(of[x])) /\ Cardinality(G(of[x])) \in Nat
            /\ Cardinality(G(of[x])) <= B
        BY <1>3, <1>4
      <4>5. IsFiniteSet(C) /\ Cardinality(C) <= Cardinality(G(of[x]))
        BY <4>3, <4>4, FS_Subset
      <4>6. Cardinality(C) \in Nat
        BY <4>5, FS_CardinalityType
      <4> QED
        BY <1>1, <4>4, <4>5, <4>6
    <3> QED
      BY <3>1, <3>2
  <2> QED
    BY <1>1, <2>1 DEF C, B
<1> QED
  BY <1>7, <1>8, <1>9

\* Over every interval as long as the window, the attempts of one client that
\* reserveBridgeConnection charged number less than two budgets, or less than
\* three when the mutex is reached up to a third of a window late: for every
\* number of requests and clients, every budget, cap and window, with the
\* sweep of pkg/grpctunnel and without it as in pkg/bridge.
THEOREM RateIsBounded == Spec => []SlidingRateBound
<1>1. RateInv => SlidingRateBound
  <2>1. ASSUME TypeOK
        PROVE  {countedAt[r] : r \in Requests} \ {NoTime} \subseteq Instants
    BY <2>1 DEF TypeOK
  <2> QED
    BY <2>1, RateFactsBound DEF RateInv, SlidingRateBound
<1> QED
  BY <1>1, RateInit, RateInductive, PTL DEF Spec
=============================================================================
